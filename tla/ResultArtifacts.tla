---------------------------- MODULE ResultArtifacts ----------------------------
(***************************************************************************)
(* Reading what a published result is about: quillan/                      *)
(* academic_result_artifacts.py hands the selected pages of a student's    *)
(* work, or the feedback, to whoever holds the manifest and is authorized. *)
(* A manifest names the submission and the review by the digest of their   *)
(* bytes; the reader compares the records with it and then reads the file. *)
(* Between the two the feedback is exported and edited (FeedbackExport)    *)
(* and evidence files are damaged from outside.                            *)
(***************************************************************************)
EXTENDS FeedbackExport

CONSTANT MaxVersion  \* bound on versions of the submission record

VARIABLES
  version,  \* of the submission record, which every selection rewrites
  work,     \* Selection -> the routed evidence file it names
  bound,    \* the manifest that the reader presents
  reading   \* a read in progress

artifacts == <<version, work, bound, reading>>
everything == <<vars, artifacts>>

Kind == {"student_work"} \cup Format
NoManifest == [submission |-> 0, review |-> <<>>, selection |-> 0]
NotReading == [step |-> "idle", kind |-> "student_work", evidence |-> 0, touched |-> FALSE]

StartOfArtifacts ==
  /\ Init
  /\ version = 1 /\ work = [s \in Selection |-> "sound"]
  /\ bound = NoManifest /\ reading = NotReading

\* The bytes of the review record.
ReviewBytes == <<review, exports>>

-----------------------------------------------------------------------------
(* Publishing *)

\* _validate_observation_evidence_files: retained scan and routed page are read
\* twice and must be what the observation says.
EvidenceIsSound == work[selected] = "sound"

\* _build_submission_snapshot, with the reference of the one page, and the review.
\* ManifestGeneration shows that what is written is one state of both records.
Generate ==
  /\ reading = NotReading /\ EvidenceIsSound
  /\ bound' = [submission |-> version, review |-> ReviewBytes, selection |-> selected]
  /\ UNCHANGED <<vars, version, work, reading>>

-----------------------------------------------------------------------------
(* Reading *)

\* read_authorized_academic_result_artifacts, once the gate has said "allowed".
StartReading(kind) ==
  /\ reading = NotReading /\ bound # NoManifest
  /\ reading' = [reading EXCEPT !.step = "source", !.kind = kind]
  /\ UNCHANGED <<vars, version, work, bound>>

\* _load_bound_submission
SubmissionIsBound == version = bound.submission

\* _native_selected_evidence: exactly the row that the manifest refers to.
SelectedIsReferred == selected = bound.selection

ReadSubmission ==
  /\ reading.step = "source" /\ reading.kind = "student_work"
  /\ SubmissionIsBound /\ SelectedIsReferred
  /\ reading' = [reading EXCEPT !.step = "artifact", !.evidence = selected]
  /\ UNCHANGED <<vars, version, work, bound>>

\* _load_bound_review
ReviewIsBound == ReviewBytes = bound.review

\* Mutant: feedback is handed out because there is some.
ExportIsThere(f) == exports[f].there

\* The export is of the exact review that the manifest is about.
ExportIsOfReview(f) == exports[f].there /\ exports[f].source = review.updated

ReadReview ==
  /\ reading.step = "source" /\ reading.kind \in Format
  /\ ReviewIsBound /\ ExportIsOfReview(reading.kind)
  /\ reading' = [reading EXCEPT !.step = "artifact"]
  /\ UNCHANGED <<vars, version, work, bound>>

\* _read_student_work compares the digest of what it read; _read_feedback_artifact
\* has nothing to compare it with.
CanHandOut ==
  /\ reading.step = "artifact"
  /\ IF reading.kind = "student_work" THEN work[reading.evidence] = "sound"
     ELSE file[reading.kind] # NoFile

HandOut ==
  /\ CanHandOut /\ reading' = NotReading
  /\ UNCHANGED <<vars, version, work, bound>>

\* Any of the checks fails, or the reader dies.
Refuse ==
  /\ reading # NotReading /\ reading' = NotReading
  /\ UNCHANGED <<vars, version, work, bound>>

-----------------------------------------------------------------------------
(* Meanwhile *)

\* Exports, edits and selections.
RecordsChange ==
  /\ Next
  /\ selected' # selected => version < MaxVersion
  /\ version' = IF selected' = selected THEN version ELSE version + 1
  /\ reading' = [reading EXCEPT !.touched = @ \/ (reading.step = "artifact" /\ file' # file)]
  /\ UNCHANGED <<work, bound>>

\* Somebody edits, moves or deletes an evidence file: Quillan itself never does.
DamageEvidence ==
  /\ \E s \in Selection, what \in {"changed", "gone"} : work' = [work EXCEPT ![s] = what]
  /\ UNCHANGED <<vars, version, bound, reading>>

NextOfArtifacts ==
  \/ Generate \/ (\E kind \in Kind : StartReading(kind))
  \/ ReadSubmission \/ ReadReview \/ HandOut \/ Refuse
  \/ RecordsChange \/ DamageEvidence

SpecOfArtifacts == StartOfArtifacts /\ [][NextOfArtifacts]_everything

-----------------------------------------------------------------------------
(* Properties *)

\* Type invariant.
ArtifactsTypeOK ==
  /\ TypeOK /\ version \in 1 .. MaxVersion
  /\ work \in [Selection -> {"sound", "changed", "gone"}]
  /\ bound.submission <= version /\ reading.kind \in Kind
  /\ reading.step \in {"idle", "source", "artifact"}

\* What is handed out belongs to the published result: pages are those of the
\* selection it was made from, unharmed; feedback shows the review it was made
\* from, or, exported once more while the reader was between the record and the
\* file, a later one, and never an older.
ArtifactIsBound ==
  CanHandOut =>
    IF reading.kind = "student_work"
    THEN reading.evidence = bound.selection /\ work[bound.selection] = "sound"
    ELSE OneExporter =>
      LET shown == file[reading.kind].text
          published == bound.review[1].text IN
      shown >= published /\ (shown = published \/ reading.touched)
=============================================================================
