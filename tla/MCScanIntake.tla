---------------------------- MODULE MCScanIntake ----------------------------
(* Three sheets in two files: one student has a sheet in each. *)
EXTENDS ScanIntake
TwoFiles == <<1, 1, 2>>
TwoStudents == <<"ann", "bo", "ann">>
=============================================================================
