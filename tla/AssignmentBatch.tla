--------------------------- MODULE AssignmentBatch ---------------------------
(***************************************************************************)
(* One assignment saved for several classes (quillan/assignment_           *)
(* workflows.py), from the form, from a preset, or copied (assignment_     *)
(* copying.py).  The copies are written one after another; when one fails  *)
(* the earlier ones are undone, as far as they are still the batch's own.  *)
(* Each create and each guarded update is atomic (AtomicRecord); the       *)
(* removal of a created copy is not, and is modelled step by step.         *)
(* Teachers save at the same time; writes fail, or succeed and report a    *)
(* failure; a process dies anywhere.                                       *)
(***************************************************************************)
EXTENDS Naturals, Sequences

CONSTANTS
  Teacher,    \* processes that save assignments
  Class,      \* the classes, in the order they are selected and written
  MaxVersion  \* bound on the contents ever saved, each by one batch

VARIABLES
  file,    \* class -> content of its assignment.json, 0 if there is none
  aside,   \* class -> contents displaced by a removal in progress or given up
  basis,   \* version of the source assignment or the preset
  batches, \* contents given out so far
  pc, job, \* Teacher -> the next step of the batch, and the batch
  over,    \* history: class -> <<old, new>>, updates that were not undone
  told     \* history: content -> what its batch answered

vars == <<file, aside, basis, batches, pc, job, over, told>>

Classes == {Class[i] : i \in DOMAIN Class}
Version == 1 .. MaxVersion
Steps == {"idle", "planned", "preflight", "write", "compensate", "displaced"}
Status == {"pending", "created", "updated"}

NoJob == [version |-> 0, basis |-> 0, copy |-> FALSE, seen |-> {},
          original |-> [c \in Classes |-> 0],
          status |-> [c \in Classes |-> "pending"], named |-> {}, moved |-> 0]

NotTold == [answer |-> "none", named |-> {}]

Init ==
  /\ file = [c \in Classes |-> 0] /\ aside = [c \in Classes |-> {}]
  /\ basis = 1 /\ batches = 0
  /\ pc = [t \in Teacher |-> "idle"] /\ job = [t \in Teacher |-> NoJob]
  /\ over = [c \in Classes |-> {}] /\ told = [v \in Version |-> NotTold]

Go(t, step) == pc' = [pc EXCEPT ![t] = step]

\* The batch answers "ok" or "failed", the latter with the paths it names.
Answer(t, answer, named) ==
  /\ Go(t, "idle") /\ job' = [job EXCEPT ![t] = NoJob]
  /\ told' = [told EXCEPT ![job[t].version] = [answer |-> answer, named |-> named]]

-----------------------------------------------------------------------------
(* Preview and confirmation *)

\* plan_assignment_config_destinations
PlanDestinations(t) ==
  /\ pc[t] = "idle" /\ batches < MaxVersion
  /\ batches' = batches + 1
  /\ Go(t, "planned")
  /\ job' = [job EXCEPT ![t] = [NoJob EXCEPT !.version = batches + 1, !.basis = basis,
                                             !.seen = {c \in Classes : file[c] # 0}]]
  /\ UNCHANGED <<file, aside, basis, over, told>>

\* plan_assignment_copy: no destination may hold anything.
PlanCopy(t) ==
  /\ pc[t] = "idle" /\ batches < MaxVersion
  /\ \A c \in Classes : file[c] = 0 /\ aside[c] = {}
  /\ batches' = batches + 1
  /\ Go(t, "planned")
  /\ job' = [job EXCEPT ![t] = [NoJob EXCEPT !.version = batches + 1, !.basis = basis,
                                             !.copy = TRUE]]
  /\ UNCHANGED <<file, aside, basis, over, told>>

\* The teacher confirms, OVERWRITE where something was seen to exist;
\* require_current_review_configuration_preset_matches, and
\* commit_assignment_copy's second look at source and destinations.
Confirm(t) ==
  /\ pc[t] = "planned" /\ job[t].basis = basis
  /\ job[t].copy => \A c \in Classes : file[c] = 0 /\ aside[c] = {}
  /\ Go(t, "preflight")
  /\ UNCHANGED <<file, aside, basis, batches, job, over, told>>

\* The teacher cancels, or the second look refuses: nothing is written.
Refuse(t) ==
  /\ pc[t] \in {"planned", "preflight"}
  /\ Answer(t, "failed", {})
  /\ UNCHANGED <<file, aside, basis, batches, over>>

EditBasis ==
  /\ basis = 1 /\ basis' = 2
  /\ UNCHANGED <<file, aside, batches, pc, job, over, told>>

-----------------------------------------------------------------------------
(* write_assignment_configs *)

Overwrites(t) == job[t].seen # {}

\* The originals are loaded; without OVERWRITE there must be none.
Preflight(t) ==
  /\ pc[t] = "preflight"
  /\ Overwrites(t) \/ \A c \in Classes : file[c] = 0
  /\ Go(t, "write")
  /\ job' = [job EXCEPT ![t].original = file]
  /\ UNCHANGED <<file, aside, basis, batches, over, told>>

Pending(t) == {i \in DOMAIN Class : job[t].status[Class[i]] = "pending"}
Written(t) == {i \in DOMAIN Class : job[t].status[Class[i]] # "pending"}

\* create_exclusive_record or revision_guarded_update: the entry is journaled
\* also when the error says that the record may be durable.
Write(t, i) ==
  LET c == Class[i]
      old == job[t].original[c]
  IN /\ pc[t] = "write" /\ i \in Pending(t) /\ \A j \in Pending(t) : i <= j
     /\ file[c] = old
     /\ file' = [file EXCEPT ![c] = job[t].version]
     /\ over' = IF old = 0 THEN over
                ELSE [over EXCEPT ![c] = @ \cup {<<old, job[t].version>>}]
     /\ job' = [job EXCEPT ![t].status[c] = IF old = 0 THEN "created" ELSE "updated"]
     /\ pc' \in {pc, [pc EXCEPT ![t] = "compensate"]}
     /\ UNCHANGED <<aside, basis, batches, told>>

\* The record is not what was loaded, or there is an error before it is installed.
WriteFails(t) ==
  /\ pc[t] = "write" /\ Pending(t) # {}
  /\ Go(t, "compensate")
  /\ UNCHANGED <<file, aside, basis, batches, job, over, told>>

Saved(t) ==
  /\ pc[t] = "write" /\ Pending(t) = {}
  /\ Answer(t, "ok", {})
  /\ UNCHANGED <<file, aside, basis, batches, over>>

-----------------------------------------------------------------------------
(* _compensate_assignment_entry, for the entries in reverse *)

Last(t, i) == i \in Written(t) /\ \A j \in Written(t) : j <= i

\* The entry is done with; Name adds its path to those reported.
Done(t, c) == [job EXCEPT ![t].status[c] = "pending"]
Name(t, c) == [job EXCEPT ![t].status[c] = "pending", ![t].named = @ \cup {c}]

\* An updated copy is restored under the guard.
RestoreUpdated(t, i) ==
  LET c == Class[i]
      old == job[t].original[c]
  IN /\ pc[t] = "compensate" /\ Last(t, i) /\ job[t].status[c] = "updated"
     /\ \/ /\ file[c] = job[t].version
           /\ file' = [file EXCEPT ![c] = old]
           /\ over' = [over EXCEPT ![c] = @ \ {<<old, job[t].version>>}]
           /\ job' \in {Done(t, c), Name(t, c)}
        \/ job' = Name(t, c) /\ UNCHANGED <<file, over>>
     /\ UNCHANGED <<aside, basis, batches, pc, told>>

\* A created copy is moved aside, whatever it is by now, or cannot be.
Displace(t, i) ==
  LET c == Class[i] IN
  /\ pc[t] = "compensate" /\ Last(t, i) /\ job[t].status[c] = "created"
  /\ \/ /\ file[c] # 0
        /\ file' = [file EXCEPT ![c] = 0]
        /\ aside' = [aside EXCEPT ![c] = @ \cup {file[c]}]
        /\ Go(t, "displaced") /\ job' = [job EXCEPT ![t].moved = file[c]]
     \/ job' = Name(t, c) /\ UNCHANGED <<file, aside, pc>>
  /\ UNCHANGED <<basis, batches, over, told>>

\* Mutant: what was moved aside is removed without a look at it.
DisposableAnyhow(t) == TRUE

Disposable(t) == job[t].moved = job[t].version

\* Only what is still the batch's own is removed.
Dispose(t, i) ==
  LET c == Class[i] IN
  /\ pc[t] = "displaced" /\ Last(t, i) /\ Disposable(t)
  /\ aside' = [aside EXCEPT ![c] = @ \ {job[t].moved}]
  /\ job' = Done(t, c) /\ Go(t, "compensate")
  /\ UNCHANGED <<file, basis, batches, over, told>>

\* _restore_compensation_displacement: never over a writer who came in
\* between.  Also after an error while the content was read or removed.
PutBack(t, i) ==
  LET c == Class[i] IN
  /\ pc[t] = "displaced" /\ Last(t, i)
  /\ IF file[c] = 0
     THEN /\ file' = [file EXCEPT ![c] = job[t].moved]
          /\ aside' = [aside EXCEPT ![c] = @ \ {job[t].moved}]
     ELSE UNCHANGED <<file, aside>>
  /\ job' = Name(t, c) /\ Go(t, "compensate")
  /\ UNCHANGED <<basis, batches, over, told>>

\* AssignmentBatchWriteError
Failed(t) ==
  /\ pc[t] = "compensate" /\ Written(t) = {}
  /\ Answer(t, "failed", job[t].named)
  /\ UNCHANGED <<file, aside, basis, batches, over>>

Die(t) ==
  /\ pc[t] # "idle"
  /\ Go(t, "idle") /\ job' = [job EXCEPT ![t] = NoJob]
  /\ UNCHANGED <<file, aside, basis, batches, over, told>>

Next ==
  \/ EditBasis
  \/ \E t \in Teacher :
       \/ PlanDestinations(t) \/ PlanCopy(t) \/ Confirm(t) \/ Refuse(t) \/ Preflight(t)
       \/ WriteFails(t) \/ Saved(t) \/ Failed(t) \/ Die(t)
       \/ \E i \in DOMAIN Class :
            Write(t, i) \/ RestoreUpdated(t, i) \/ Displace(t, i) \/ Dispose(t, i) \/ PutBack(t, i)

Spec == Init /\ [][Next]_vars

-----------------------------------------------------------------------------
(* Properties *)

\* Type invariant.
TypeOK ==
  /\ file \in [Classes -> {0} \cup Version]
  /\ \A c \in Classes : /\ aside[c] \subseteq Version
                        /\ over[c] \subseteq Version \X Version
  /\ basis \in {1, 2} /\ batches \in 0 .. MaxVersion
  /\ pc \in [Teacher -> Steps]
  /\ \A t \in Teacher : /\ job[t].status \in [Classes -> Status]
                        /\ job[t].original \in [Classes -> {0} \cup Version]
                        /\ job[t].named \subseteq Classes
  /\ \A v \in Version : told[v].answer \in {"none", "ok", "failed"}

\* A batch that answered that it failed has left its content only where it said
\* that it might have: all or nothing, or the teacher is told where.  It stays so
\* also when another batch, which had replaced the content, undoes itself later.
RemainsAreNamed ==
  \A v \in Version, c \in Classes :
    told[v].answer = "failed" /\ (file[c] = v \/ v \in aside[c]) => c \in told[v].named

\* What a batch saved is there, or kept aside, or was replaced by an update:
\* no undoing of another batch removes it.
SavedIsKept ==
  \A v \in Version, c \in Classes :
    told[v].answer = "ok" =>
      file[c] = v \/ v \in aside[c] \/ \E w \in Version : <<v, w>> \in over[c]

\* A failed batch that names no path has taken back its updates, so that the
\* copies it had replaced are what they were.
UpdatesTakenBack ==
  \A v \in Version, c \in Classes :
    told[v].answer = "failed" /\ c \notin told[v].named =>
      \A u \in Version : <<u, v>> \notin over[c]
=============================================================================
