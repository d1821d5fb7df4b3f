-------------------------------- MODULE Roster --------------------------------
(***************************************************************************)
(* The roster and the metadata of one class (quillan/roster_management.py, *)
(* roster_workflows.py).  A creation looks what is there, writes the two   *)
(* files one after the other, and on an error removes those that were not  *)
(* there when it began to write; an edit loads the roster, stages changes, *)
(* and replaces the file on SAVE.  Nothing guards the files, so that what  *)
(* a session wrote meanwhile can be lost; writes fail and processes die.   *)
(***************************************************************************)
EXTENDS Naturals

CONSTANTS
  Editor,   \* processes that create and edit rosters
  MaxSaves  \* bound on the rosters saved

VARIABLES
  roster, metadata,  \* the contents of the two files, 0 if there is none
  contents,          \* rosters saved so far, each a content of its own
  step, call,        \* Editor -> the next step of its call, and the call
  answer             \* history: Editor -> what its last call answered, until
                     \* another one writes

vars == <<roster, metadata, contents, step, call, answer>>

Content == 0 .. MaxSaves
File == {"roster", "metadata"}

NoCall == [content |-> 0, overwrite |-> FALSE, existed |-> {}, absent |-> FALSE, quiet |-> TRUE]

Init ==
  /\ roster = 0 /\ metadata = 0 /\ contents = 0
  /\ step = [e \in Editor |-> "idle"] /\ call = [e \in Editor |-> NoCall]
  /\ answer = [e \in Editor |-> "none"]

Go(e, to) == step' = [step EXCEPT ![e] = to]
files == <<roster, metadata>>
Existing == (IF roster # 0 THEN {"roster"} ELSE {}) \cup (IF metadata # 0 THEN {"metadata"} ELSE {})

\* The roster is replaced or removed by e; calls of others are no longer alone.
Disturbed(e) ==
  [o \in Editor |-> IF o = e THEN call[o] ELSE [call[o] EXCEPT !.quiet = FALSE]]
Answered(e, what) ==
  answer' = [o \in Editor |-> IF o = e THEN what ELSE answer[o]]
Silent(e) == answer' = [o \in Editor |-> IF o = e THEN answer[o] ELSE "none"]

Begin(e, to, new) ==
  /\ step[e] = "idle"
  /\ Go(e, to) /\ call' = [call EXCEPT ![e] = new]
  /\ Answered(e, "none") /\ UNCHANGED <<files, contents>>

\* A new content is the roster.
NewRoster(e) ==
  /\ contents < MaxSaves /\ contents' = contents + 1
  /\ roster' = contents + 1 /\ Silent(e)
  /\ UNCHANGED metadata

-----------------------------------------------------------------------------
(* Creation *)

\* prompt_create_roster, or plan_roster_creation: the teacher types OVERWRITE
\* where something is there.
PlanCreation(e) ==
  Begin(e, "planned", [NoCall EXCEPT !.overwrite = Existing # {}])

\* write_roster_creation begins: refused if something is there by now.
CheckExisting(e) ==
  /\ step[e] = "planned" /\ (Existing = {} \/ call[e].overwrite)
  /\ call' = [call EXCEPT ![e].existed = Existing, ![e].absent = Existing = {}]
  /\ Go(e, "roster") /\ UNCHANGED <<files, contents, answer>>

\* write_class_roster
WriteRoster(e) ==
  /\ step[e] = "roster" /\ (roster = 0 \/ call[e].overwrite)
  /\ NewRoster(e) /\ Go(e, "metadata")
  /\ call' = [Disturbed(e) EXCEPT ![e].content = contents + 1]

\* write_class_metadata_for_class
WriteMetadata(e) ==
  /\ step[e] = "metadata" /\ (metadata = 0 \/ call[e].overwrite)
  /\ metadata' = call[e].content
  /\ call' = Disturbed(e) /\ Go(e, "created")
  /\ Silent(e) /\ UNCHANGED <<roster, contents>>

Created(e) ==
  /\ step[e] = "created" /\ Go(e, "idle")
  /\ Answered(e, IF call[e].quiet THEN "created" ELSE "none")
  /\ call' = [call EXCEPT ![e] = NoCall]
  /\ UNCHANGED <<files, contents>>

\* An error of a write, also that a file is there that may not be replaced.
WriteFails(e) ==
  /\ step[e] \in {"roster", "metadata"} /\ Go(e, "clean")
  /\ UNCHANGED <<files, contents, call, answer>>

\* Mutant: only the metadata is taken back.
MetadataOnly(e) == {"metadata"} \ call[e].existed

Removed(e) == File \ call[e].existed

\* What was not there is removed, whoever wrote it.
CleanUp(e) ==
  /\ step[e] = "clean" /\ Go(e, "failed")
  /\ roster' = IF "roster" \in Removed(e) THEN 0 ELSE roster
  /\ metadata' = IF "metadata" \in Removed(e) THEN 0 ELSE metadata
  /\ IF files' # files THEN call' = Disturbed(e) /\ Silent(e) ELSE UNCHANGED <<call, answer>>
  /\ UNCHANGED contents

Failed(e) ==
  /\ step[e] = "failed" /\ Go(e, "idle")
  /\ Answered(e, IF call[e].quiet /\ call[e].absent THEN "failed" ELSE "none")
  /\ call' = [call EXCEPT ![e] = NoCall]
  /\ UNCHANGED <<files, contents>>

-----------------------------------------------------------------------------
(* Editing *)

\* prompt_edit_class_roster loads; so do plan_add_student and its like.
LoadRoster(e) ==
  /\ roster # 0
  /\ Begin(e, "staged", NoCall)

\* SAVE, or write_roster_mutation
SaveRoster(e) ==
  /\ step[e] = "staged"
  /\ NewRoster(e) /\ Go(e, "idle")
  /\ call' = [Disturbed(e) EXCEPT ![e] = NoCall]

\* DISCARD, a refusal, or a death anywhere.
GiveUp(e) ==
  /\ step[e] # "idle" /\ Go(e, "idle")
  /\ call' = [call EXCEPT ![e] = NoCall]
  /\ UNCHANGED <<files, contents, answer>>

Next ==
  \E e \in Editor :
    \/ PlanCreation(e) \/ CheckExisting(e) \/ WriteRoster(e) \/ WriteMetadata(e) \/ Created(e)
    \/ WriteFails(e) \/ CleanUp(e) \/ Failed(e)
    \/ LoadRoster(e) \/ SaveRoster(e) \/ GiveUp(e)

Spec == Init /\ [][Next]_vars

-----------------------------------------------------------------------------
(* Properties *)

\* Type invariant.
TypeOK ==
  /\ roster \in Content /\ metadata \in Content /\ contents \in Content
  /\ step \in [Editor -> {"idle", "planned", "roster", "metadata", "created", "clean",
                          "failed", "staged"}]
  /\ \A e \in Editor : call[e].existed \subseteq File
  /\ answer \in [Editor -> {"none", "created", "failed"}]

\* Unless another session wrote in between, a creation that succeeded leaves a
\* roster and metadata that belong together, and one that failed where nothing was
\* leaves neither.
CreationIsWhole ==
  \A e \in Editor :
    /\ answer[e] = "created" => roster # 0 /\ metadata # 0
    /\ answer[e] = "failed" => roster = 0 /\ metadata = 0
=============================================================================
