--------------------------- MODULE MCAtomicRecord ---------------------------
(* Small instances of AtomicRecord for TLC: callers that only update an    *)
(* existing record, and callers that also create it.                       *)
EXTENDS AtomicRecord, TLC

VARIABLE creating   \* whether callers create the record; never changes

mcVars == <<vars, creating>>

\* One purpose, and all the faults, where callers create the record ...
OnePurpose == \E p \in Purpose : \A w \in Writer : guard[w] \in {"create", p}

\* ... every purpose, and one fault, where they only update it.
NoCreation == \A w \in Writer : pc[w] # "idle" => ~Creating(w)
UpdateFaults == 1

MCInit == Init /\ creating \in BOOLEAN

MCNext ==
  /\ Next
  /\ UNCHANGED creating
  /\ \/ creating /\ OnePurpose'
     \/ ~creating /\ NoCreation' /\ faults' <= UpdateFaults

MCSpec ==
  MCInit /\ [][MCNext]_mcVars /\ \A w \in Writer : WF_vars(CallStep(w))

\* While nobody creates the record, its updates are those of the
\* compare-and-swap register: no acknowledged update is lost, and a displaced
\* revision is always somewhere in the directory.
UpdatesAreRegister ==
  /\ ~creating => Register!Init
  /\ [][~creating => [Register!Next]_(Register!regVars)]_mcVars
=============================================================================
