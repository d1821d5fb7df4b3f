------------------------- MODULE PostDispatchReview -------------------------
(***************************************************************************)
(* Occurrences: what failed after dispatch, kept for review               *)
(* (quillan/post_dispatch_review.py), and the resolutions appended to them *)
(* (post_dispatch_review_resolution.py), from the menu that lists, decides *)
(* and retries (scan_review_menu.py).  A retry assembles the assignment    *)
(* again; it may resolve an occurrence only when its result, and the       *)
(* manifest as it then is, prove the failure repaired.                     *)
(***************************************************************************)
EXTENDS FiniteSets, Naturals

CONSTANTS
  Occurrence,  \* occurrences that may be recorded
  Student,
  Session,     \* teachers' menus
  MaxTime      \* bound on the time stamps given out

VARIABLES
  about,       \* Occurrence -> whose assembly failed: a student, All or Nobody
  created,     \* Occurrence -> time of its record, 0: none
  broken,      \* students whose submission cannot be assembled
  revision,    \* Student -> assembly revision of the manifest
  resolutions, \* the resolution records
  clock,
  pc, job

vars == <<about, created, broken, revision, resolutions, clock, pc, job>>

All == "all"         \* a failure of the assignment as a whole
Nobody == "nobody"   \* a page that could not be observed: no retry proves it
None == "none"
NoResult == [assembled |-> {}, failed |-> {}, revision |-> [a \in Student |-> 0], began |-> 0, at |-> 0]
NoJob == [occ |-> None, action |-> None, result |-> NoResult]

Init ==
  /\ about \in [Occurrence -> Student \cup {All, Nobody}]
  /\ created = [o \in Occurrence |-> 0] /\ broken \in SUBSET Student
  /\ revision = [a \in Student |-> 0]
  /\ resolutions = {} /\ clock = 0
  /\ pc = [s \in Session |-> "idle"] /\ job = [s \in Session |-> NoJob]

Go(s, label, j) == pc' = [pc EXCEPT ![s] = label] /\ job' = [job EXCEPT ![s] = j]
Tick == clock < MaxTime /\ clock' = clock + 1
Recorded == {o \in Occurrence : created[o] # 0}

-----------------------------------------------------------------------------
(* Failures and repairs around the menu *)

\* An intake fails after dispatch and creates the occurrence.
Create(o) ==
  /\ created[o] = 0 /\ Tick
  /\ about[o] \in Student => about[o] \in broken
  /\ about[o] = All => broken # {}
  /\ created' = [created EXCEPT ![o] = clock + 1]
  /\ UNCHANGED <<about, broken, revision, resolutions, pc, job>>

\* What stood in the way of a student's assembly is put right, or comes up.
Change(a) ==
  /\ Tick
  /\ broken' = IF a \in broken THEN broken \ {a} ELSE broken \cup {a}
  /\ UNCHANGED <<about, created, revision, resolutions, pc, job>>

\* Another intake assembles a student's new page.
Assembled(a) ==
  /\ a \notin broken /\ Tick
  /\ revision' = [revision EXCEPT ![a] = @ + 1]
  /\ UNCHANGED <<about, created, broken, resolutions, pc, job>>

-----------------------------------------------------------------------------
(* The menu *)

Of(o) == {r \in resolutions : r.occ = o}

\* The resolution with the latest time decides.
Latest(o) == CHOOSE r \in Of(o) : \A q \in Of(o) : q.at <= r.at

\* Mutant: any resolution hides the occurrence.
OpenUndecided == {o \in Recorded : Of(o) = {}}

Open == {o \in Recorded : Of(o) = {} \/ Latest(o).action = "deferred"}

\* The listed item is picked and a decision is about to be recorded.
Pick(s, o, action) ==
  /\ pc[s] = "idle" /\ o \in Open
  /\ Go(s, IF action = "retry" THEN "retry" ELSE "record", [NoJob EXCEPT !.occ = o, !.action = action])
  /\ UNCHANGED <<about, created, broken, revision, resolutions, clock>>

\* The assignment is assembled again; the result is dated when it is there.
Retry(s) ==
  /\ pc[s] = "retry" /\ Tick
  /\ Go(s, "prove", [job[s] EXCEPT !.result =
       [assembled |-> Student \ broken, failed |-> broken, revision |-> revision,
        began |-> clock, at |-> clock + 1]])
  /\ UNCHANGED <<about, created, broken, revision, resolutions>>

\* Whom a result proves repaired: exactly one assembled and none failed, among
\* those the occurrence is about.
Proves(o, result) ==
  CASE about[o] = Nobody -> {}
    [] about[o] \in Student -> {about[o]} \cap result.assembled
    [] OTHER -> IF result.failed = {} /\ Cardinality(result.assembled) = 1 THEN result.assembled ELSE {}

\* The manifest must still be the one the retry left.
Current(result, a) == revision[a] = result.revision[a]

Proof(s) == {a \in Proves(job[s].occ, job[s].result) : Current(job[s].result, a)}
Token(result, a) == [student |-> a, revision |-> result.revision[a], began |-> result.began, at |-> result.at]

\* Before the teacher is asked, the result must prove the repair.
Prove(s) ==
  /\ pc[s] = "prove"
  /\ IF Proof(s) = {} THEN Go(s, "idle", NoJob) ELSE Go(s, "confirm", job[s])
  /\ UNCHANGED <<about, created, broken, revision, resolutions, clock>>

\* After the confirmation it must prove it again, and not have done so before.
Confirm(s) ==
  /\ pc[s] = "confirm"
  /\ IF Proof(s) # {} /\ \A a \in Proof(s) : Token(job[s].result, a) \notin {r.proof : r \in resolutions}
     THEN Go(s, "record", [job[s] EXCEPT !.action = "resolved_after_retry"]) ELSE Go(s, "idle", NoJob)
  /\ UNCHANGED <<about, created, broken, revision, resolutions, clock>>

NoProof == [student |-> Nobody, revision |-> 0, began |-> 0, at |-> 0]

\* One resolution is appended; a deferred occurrence stays listed.
Record(s) ==
  /\ pc[s] = "record" /\ Tick
  /\ LET j == job[s]
         proof == IF j.action = "resolved_after_retry"
                  THEN Token(j.result, CHOOSE a \in Proves(j.occ, j.result) : TRUE) ELSE NoProof
     IN resolutions' = resolutions \cup {[occ |-> j.occ, action |-> j.action, at |-> clock + 1, proof |-> proof]}
  /\ Go(s, "idle", NoJob)
  /\ UNCHANGED <<about, created, broken, revision>>

\* The teacher says no, an error ends the action, or the process dies.
Leave(s) ==
  /\ pc[s] # "idle" /\ Go(s, "idle", NoJob)
  /\ UNCHANGED <<about, created, broken, revision, resolutions, clock>>

Next ==
  \/ \E o \in Occurrence : Create(o)
  \/ \E a \in Student : Change(a) \/ Assembled(a)
  \/ \E s \in Session :
       \/ \E o \in Occurrence, action \in {"deferred", "other", "retry"} : Pick(s, o, action)
       \/ Retry(s) \/ Prove(s) \/ Confirm(s) \/ Record(s) \/ Leave(s)

Spec == Init /\ [][Next]_vars

-----------------------------------------------------------------------------
(* Properties *)

\* Type invariant.
TypeOK ==
  /\ clock \in 0 .. MaxTime /\ created \in [Occurrence -> 0 .. clock]
  /\ broken \subseteq Student /\ revision \in [Student -> 0 .. clock]
  /\ pc \in [Session -> {"idle", "retry", "prove", "confirm", "record"}]
  /\ \A r \in resolutions : r.occ \in Recorded /\ r.at \in 1 .. clock

Retried == {r \in resolutions : r.action = "resolved_after_retry"}

\* An occurrence is resolved after a retry only when the retry began after the
\* failure was recorded, and assembled exactly the student it is about.
RetryRepaired ==
  \A r \in Retried :
    /\ created[r.occ] <= r.proof.began
    /\ about[r.occ] # Nobody
    /\ about[r.occ] \in Student => r.proof.student = about[r.occ]

\* A failure that was recorded after a retry began is not hidden by it: it
\* stays listed until someone decides about it.
LaterFailureStaysOpen ==
  \A o \in Recorded \ Open : \E r \in Of(o) : r.at > created[o] /\ r.action # "deferred"

=============================================================================
