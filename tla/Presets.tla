------------------------------- MODULE Presets -------------------------------
(***************************************************************************)
(* Review-configuration presets of the workspace (quillan/                 *)
(* review_configuration_presets.py, review_preset_workflows.py and         *)
(* cli_app/handlers/review_presets.py): planned from a form or from an     *)
(* assignment, shown, confirmed, and created once, never replaced; picked  *)
(* and accepted for a new assignment, and checked again before that is     *)
(* saved.  Other teachers, the standards library, the source assignment    *)
(* and files changed by hand move between the steps.  The file is          *)
(* installed in one step (AtomicRecord); the directory around it is not    *)
(* guarded, and is modelled step by step.  The workspace's directory       *)
(* "shared" is there.                                                      *)
(***************************************************************************)
EXTENDS Naturals

CONSTANTS
  Teacher,  \* processes that create or use presets
  Preset,   \* preset ids
  Config,   \* review configurations, told apart by whether their standards hold
  MaxPlans, \* bound on the plans made, each a content of its own
  MaxEdits  \* bound on the changes of standards, source, and files by hand

VARIABLES
  directory, \* whether review_configuration_presets/ exists
  file,      \* preset -> content of its file: Nothing, Damaged, or a plan
  litter,    \* presets whose create lock and temporary a dead process left
  standards, \* the configurations valid under the current standards library
  source,    \* the source assignment's configuration
  plans,     \* the plans made so far, with what became of each
  used,      \* history: contents that assignments were made from
  edits, pc, job

vars == <<directory, file, litter, standards, source, plans, used, edits, pc, job>>

Nothing == 0
Damaged == MaxPlans + 1
Number == 1 .. MaxPlans
Steps == {"idle", "planned", "source", "checked", "mkdir", "create", "install", "cleanup",
          "accepted"}

NoJob == [plan |-> 0, created |-> FALSE, preset |-> "none"]

\* A plan as _build_plan makes it; sources are the configurations that the
\* source assignment has had since the teacher confirmed.
Plan(p, c, from) ==
  [preset |-> p, config |-> c, from |-> from, sources |-> {}, answer |-> "open"]
NoPlan == [preset |-> "none", config |-> 0, from |-> FALSE, sources |-> {}, answer |-> "none"]

Init ==
  /\ directory \in BOOLEAN /\ file = [p \in Preset |-> Nothing] /\ litter = {}
  /\ standards = Config /\ source \in Config
  /\ plans = [n \in Number |-> NoPlan] /\ used = {} /\ edits = 0
  /\ pc = [t \in Teacher |-> "idle"] /\ job = [t \in Teacher |-> NoJob]

Go(t, step) == pc' = [pc EXCEPT ![t] = step]

Planned == {n \in Number : plans[n].answer # "none"}
Of(t) == plans[job[t].plan]

\* The commit answers "saved", "uncertain" (AtomicRecordDurabilityError), "failed".
Answer(t, answer) ==
  /\ Go(t, "idle") /\ job' = [job EXCEPT ![t] = NoJob]
  /\ plans' = [plans EXCEPT ![job[t].plan].answer = answer]

-----------------------------------------------------------------------------
(* Plan and confirmation *)

\* validate_review_configuration_preset_standards against the library of now.
StandardsHold(c) == c \in standards

\* _require_create_only_destination
Absent(p) == file[p] = Nothing

MakePlan(t, p, c, from) ==
  LET n == CHOOSE m \in Number : m \notin Planned IN
  /\ pc[t] = "idle" /\ Planned # Number
  /\ StandardsHold(c) /\ Absent(p)
  /\ plans' = [plans EXCEPT ![n] = Plan(p, c, from)]
  /\ job' = [job EXCEPT ![t] = [NoJob EXCEPT !.plan = n]]
  /\ Go(t, "planned")
  /\ UNCHANGED <<directory, file, litter, standards, source, used, edits>>

\* plan_review_configuration_preset_creation, from the form or the command line.
PlanCreation(t, p, c) == MakePlan(t, p, c, FALSE)

\* plan_review_configuration_preset_from_assignment
PlanFromAssignment(t, p) == MakePlan(t, p, source, TRUE)

\* The teacher backs out of the preview, or the command was a dry run.
Cancel(t) ==
  /\ pc[t] = "planned" /\ Answer(t, "cancelled")
  /\ UNCHANGED <<directory, file, litter, standards, source, used, edits>>

\* The teacher saves what is shown, or the command line said --yes.
Confirm(t) ==
  /\ pc[t] = "planned" /\ Go(t, "source")
  /\ plans' = [plans EXCEPT ![job[t].plan].sources = {source}]
  /\ UNCHANGED <<directory, file, litter, standards, source, used, edits, job>>

-----------------------------------------------------------------------------
(* commit_review_configuration_preset *)

\* Mutant: a plan made from an assignment is committed without a second look.
SourceUnlooked(t) == TRUE

SourceUnchanged(t) == Of(t).from => source = Of(t).config

CheckSource(t) ==
  /\ pc[t] = "source" /\ SourceUnchanged(t)
  /\ Go(t, "checked")
  /\ UNCHANGED <<directory, file, litter, standards, source, plans, used, edits, job>>

\* The standards hold and the destination is absent; _ensure_preset_parent
\* looks whether the directory exists.
CheckDestination(t) ==
  /\ pc[t] = "checked" /\ StandardsHold(Of(t).config) /\ Absent(Of(t).preset)
  /\ job' = [job EXCEPT ![t].created = ~directory]
  /\ Go(t, "mkdir")
  /\ UNCHANGED <<directory, file, litter, standards, source, plans, used, edits>>

\* mkdir(exist_ok=True): of two processes that saw none, both believe that
\* they created it.
MakeDirectory(t) ==
  /\ pc[t] = "mkdir" /\ directory' = TRUE /\ Go(t, "create")
  /\ UNCHANGED <<file, litter, standards, source, plans, used, edits, job>>

Locked(p) == p \in litter \/ \E u \in Teacher : pc[u] = "install" /\ Of(u).preset = p

\* create_exclusive_record takes its lock and writes its temporary.
Lock(t) ==
  /\ pc[t] = "create" /\ directory
  /\ Absent(Of(t).preset) /\ ~Locked(Of(t).preset)
  /\ Go(t, "install")
  /\ UNCHANGED <<directory, file, litter, standards, source, plans, used, edits, job>>

\* The file is there; what follows may still raise AtomicRecordDurabilityError.
Install(t) ==
  /\ pc[t] = "install" /\ Absent(Of(t).preset)
  /\ file' = [file EXCEPT ![Of(t).preset] = job[t].plan]
  /\ \E answer \in {"saved", "uncertain"} : Answer(t, answer)
  /\ UNCHANGED <<directory, litter, standards, source, used, edits>>

\* The checks before anything is made refuse, or the directory cannot be made.
Refuse(t) ==
  /\ pc[t] \in {"source", "checked", "mkdir"} /\ Answer(t, "failed")
  /\ UNCHANGED <<directory, file, litter, standards, source, used, edits>>

\* The destination, its lock or its directory refuses, or a write fails.
CreateFails(t) ==
  /\ pc[t] \in {"create", "install"} /\ Go(t, "cleanup")
  /\ UNCHANGED <<directory, file, litter, standards, source, plans, used, edits, job>>

\* Nothing is in the directory that rmdir would refuse for.
Empty(t) ==
  /\ \A p \in Preset : Absent(p)
  /\ litter = {} /\ \A u \in Teacher \ {t} : pc[u] # "install"

\* _cleanup_empty_created_directories
Cleanup(t) ==
  /\ pc[t] = "cleanup"
  /\ directory' = (directory /\ ~(job[t].created /\ Empty(t)))
  /\ Answer(t, "failed")
  /\ UNCHANGED <<file, litter, standards, source, used, edits>>

Die(t) ==
  /\ pc[t] # "idle" /\ Go(t, "idle") /\ job' = [job EXCEPT ![t] = NoJob]
  /\ litter' = litter \cup (IF pc[t] = "install" THEN {Of(t).preset} ELSE {})
  /\ UNCHANGED <<directory, file, standards, source, plans, used, edits>>

-----------------------------------------------------------------------------
(* Use for a new assignment *)

\* load_review_configuration_preset reads a record, whose standards
\* load_current_review_configuration_preset checks.
Current(p) == file[p] \in Number /\ StandardsHold(plans[file[p]].config)

\* "valid", "stale" (its standards do not hold), or "invalid"
Inspection(p) ==
  IF file[p] = Damaged THEN "invalid" ELSE IF Current(p) THEN "valid" ELSE "stale"

\* The list that the teacher chooses from; with none, no question is asked.
Choices == {p \in Preset : file[p] # Nothing /\ Inspection(p) = "valid"}

\* prompt_select_review_configuration_preset: loaded again, shown, accepted.
Accept(t, p) ==
  /\ pc[t] = "idle" /\ p \in Choices
  /\ job' = [job EXCEPT ![t] = [NoJob EXCEPT !.plan = file[p], !.preset = p]]
  /\ Go(t, "accepted")
  /\ UNCHANGED <<directory, file, litter, standards, source, plans, used, edits>>

\* require_current_review_configuration_preset_matches: the assignment is
\* saved with the values accepted, or nothing is.
MatchesAccepted(t) == Current(job[t].preset) /\ file[job[t].preset] = job[t].plan

SaveAssignment(t) ==
  /\ pc[t] = "accepted" /\ Go(t, "idle") /\ job' = [job EXCEPT ![t] = NoJob]
  /\ used' = IF MatchesAccepted(t) THEN used \cup {job[t].plan} ELSE used
  /\ UNCHANGED <<directory, file, litter, standards, source, plans, edits>>

-----------------------------------------------------------------------------
(* What others change *)

Edit == edits < MaxEdits /\ edits' = edits + 1

\* A standard is withdrawn from the library, or comes back.
EditStandards ==
  /\ Edit /\ standards' \in {Config, {1}}
  /\ UNCHANGED <<directory, file, litter, source, plans, used, pc, job>>

\* The source assignment is overwritten; those who confirmed may meet either.
EditSource ==
  /\ Edit /\ source' \in Config \ {source}
  /\ plans' = [n \in Number |->
       IF plans[n].sources = {} \/ plans[n].answer # "open" THEN plans[n]
       ELSE [plans[n] EXCEPT !.sources = @ \cup {source'}]]
  /\ UNCHANGED <<directory, file, litter, standards, used, pc, job>>

\* A preset file is damaged by hand.
EditFile(p) ==
  /\ Edit /\ file[p] # Nothing /\ file' = [file EXCEPT ![p] = Damaged]
  /\ UNCHANGED <<directory, litter, standards, source, plans, used, pc, job>>

Next ==
  \/ EditStandards \/ EditSource \/ \E p \in Preset : EditFile(p)
  \/ \E t \in Teacher :
       \/ Cancel(t) \/ Confirm(t) \/ CheckSource(t) \/ CheckDestination(t)
       \/ MakeDirectory(t) \/ Lock(t) \/ Install(t) \/ Refuse(t) \/ CreateFails(t)
       \/ Cleanup(t) \/ Die(t) \/ SaveAssignment(t)
       \/ \E p \in Preset :
            PlanFromAssignment(t, p) \/ Accept(t, p) \/ \E c \in Config : PlanCreation(t, p, c)

Spec == Init /\ [][Next]_vars

-----------------------------------------------------------------------------
(* Properties *)

\* Type invariant.
TypeOK ==
  /\ directory \in BOOLEAN /\ file \in [Preset -> 0 .. Damaged] /\ litter \subseteq Preset
  /\ standards \subseteq Config /\ source \in Config /\ used \subseteq Number
  /\ edits \in 0 .. MaxEdits /\ pc \in [Teacher -> Steps]
  /\ \A t \in Teacher : job[t].plan \in {0} \cup Planned
  /\ \A p \in Preset : file[p] # Nothing => directory

\* A preset that was saved stays under its id, for no later commit replaces it
\* and no clean-up of another's directory removes it, unless it is damaged by hand.
SavedStands ==
  \A n \in Number : plans[n].answer = "saved" => file[plans[n].preset] \in {n, Damaged}

\* A commit that answered that it failed, or was cancelled, has left nothing, and
\* no assignment was made from it.
FailedLeavesNothing ==
  \A n \in Number : plans[n].answer \in {"failed", "cancelled"} =>
    n \notin used /\ \A p \in Preset : file[p] # n

\* What is saved from an assignment is what was previewed, and that assignment
\* has held it at some moment since the teacher confirmed.
SavedAsSource ==
  \A n \in Number : plans[n].from /\ plans[n].answer = "saved" =>
    plans[n].config \in plans[n].sources
=============================================================================
