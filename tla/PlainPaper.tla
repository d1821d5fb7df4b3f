----------------------------- MODULE PlainPaper -----------------------------
(***************************************************************************)
(* Creating a plain-paper submission (quillan/plain_paper_submission.py):  *)
(* an evidence-less manifest and an empty review, written one after the    *)
(* other.  When the review cannot be created the manifest is taken back,   *)
(* under the guard that creating a review takes.                           *)
(*                                                                         *)
(* Sessions create the pair for one student; meanwhile a teacher opens a   *)
(* review, a scan is assembled, and the manifest is updated.  Creating and *)
(* updating a record is one step here: AtomicRecord has the details.       *)
(***************************************************************************)
EXTENDS Naturals

CONSTANTS
  Creator,   \* sessions that create the pair
  MaxFaults  \* bound on errors and deaths

VARIABLES
  manifest,   \* who wrote the canonical manifest
  review,     \* who wrote the canonical review
  guard,      \* who holds the review's creation guard
  displaced,  \* Creator -> the manifest it displaced
  pc,
  named,      \* Creator -> the records its failure names as possibly written
  teacher,    \* what the teacher's session has read
  faults

vars == <<manifest, review, guard, displaced, pc, named, teacher, faults>>

Nobody == "nobody"
Other == "other"
Author == Creator \cup {Nobody, Other}
Label == {"look_manifest", "look_review", "manifest", "context", "review", "failed",
          "guard", "check_review", "check_manifest", "displace", "compare", "unlink",
          "recheck", "release", "created", "refused", "dead"}

Init ==
  /\ manifest = Nobody /\ review = Nobody /\ guard = Nobody
  /\ displaced = [s \in Creator |-> Nobody]
  /\ pc = [s \in Creator |-> "look_manifest"]
  /\ named = [s \in Creator |-> {}]
  /\ teacher = "idle" /\ faults = 0

Go(s, label) == pc' = [pc EXCEPT ![s] = label]
Fault == faults < MaxFaults /\ faults' = faults + 1

-----------------------------------------------------------------------------
(* Creation *)

\* A refusal or a failure is final and names the records that may be there.
Refuse(s, records) == Go(s, "refused") /\ named' = [named EXCEPT ![s] = @ \cup records]

\* Both destinations must be absent; they are looked at one after the other.
LookManifest(s) ==
  /\ pc[s] = "look_manifest"
  /\ named' = [named EXCEPT ![s] = IF manifest = Nobody THEN {} ELSE {"manifest"}]
  /\ Go(s, "look_review")
  /\ UNCHANGED <<manifest, review, guard, displaced, teacher, faults>>

LookReview(s) ==
  /\ pc[s] = "look_review"
  /\ IF named[s] = {} /\ review = Nobody
     THEN Go(s, "manifest") /\ UNCHANGED named
     ELSE Refuse(s, IF review = Nobody THEN {} ELSE {"review"})
  /\ UNCHANGED <<manifest, review, guard, displaced, teacher, faults>>

\* create_quillan_submission_manifest: exclusive; an error after the file is
\* installed names it.
CreateManifest(s) ==
  /\ pc[s] = "manifest"
  /\ IF manifest # Nobody
     THEN Refuse(s, {}) /\ UNCHANGED <<manifest, faults>>
     ELSE \/ manifest' = s /\ Go(s, "context") /\ UNCHANGED <<named, faults>>
          \/ Fault /\ Refuse(s, {}) /\ UNCHANGED manifest
          \/ Fault /\ Refuse(s, {"manifest"}) /\ manifest' = s
  /\ UNCHANGED <<review, guard, displaced, teacher>>

\* The context is loaded again and the review must still be absent.
LoadContext(s) ==
  /\ pc[s] = "context"
  /\ \/ Go(s, IF manifest # Nobody /\ review = Nobody THEN "review" ELSE "failed") /\ UNCHANGED faults
     \/ Fault /\ Go(s, "failed")
  /\ UNCHANGED <<manifest, review, guard, displaced, named, teacher>>

CreateReview(s) ==
  /\ pc[s] = "review"
  /\ IF guard # Nobody \/ review # Nobody
     THEN Go(s, "failed") /\ UNCHANGED <<review, faults>>
     ELSE \/ review' = s /\ Go(s, "created") /\ UNCHANGED faults
          \/ Fault /\ Go(s, "failed") /\ UNCHANGED review
          \/ Fault /\ Go(s, "failed") /\ review' = s
  /\ UNCHANGED <<manifest, guard, displaced, named, teacher>>

-----------------------------------------------------------------------------
(* Compensation *)

\* Only a review that is definitely absent lets the manifest be taken back.
DecideCompensation(s) ==
  /\ pc[s] = "failed"
  /\ IF review = Nobody THEN Go(s, "guard") /\ UNCHANGED named
     ELSE Refuse(s, {"manifest", "review"})
  /\ UNCHANGED <<manifest, review, guard, displaced, teacher, faults>>

\* What is named when compensation gave up: the records that exist by then.
Remaining == (IF manifest = Nobody THEN {} ELSE {"manifest"})
             \cup (IF review = Nobody THEN {} ELSE {"review"})

TakeGuard(s) ==
  /\ pc[s] = "guard"
  /\ IF guard = Nobody THEN guard' = s /\ Go(s, "check_review") /\ UNCHANGED named
     ELSE Refuse(s, Remaining) /\ UNCHANGED guard
  /\ UNCHANGED <<manifest, review, displaced, teacher, faults>>

\* Mutant: giving up is not noted.
GiveUpQuietly(s) == Go(s, "release") /\ UNCHANGED named

\* Compensation gives up under the guard, which is released before the
\* failure is reported.
GiveUp(s) == Go(s, "release") /\ named' = [named EXCEPT ![s] = {"diagnostic"}]

CheckReview(s) ==
  /\ pc[s] = "check_review"
  /\ IF review = Nobody THEN Go(s, "check_manifest") /\ UNCHANGED named ELSE GiveUp(s)
  /\ UNCHANGED <<manifest, review, guard, displaced, teacher, faults>>

\* The manifest must still hold the bytes this session installed.
CheckManifest(s) ==
  /\ pc[s] = "check_manifest"
  /\ IF manifest = s THEN Go(s, "displace") /\ UNCHANGED named ELSE GiveUp(s)
  /\ UNCHANGED <<manifest, review, guard, displaced, teacher, faults>>

Displace(s) ==
  /\ pc[s] = "displace"
  /\ IF manifest = Nobody THEN GiveUp(s) /\ UNCHANGED <<manifest, displaced>>
     ELSE /\ displaced' = [displaced EXCEPT ![s] = manifest] /\ manifest' = Nobody
          /\ Go(s, "compare") /\ UNCHANGED named
  /\ UNCHANGED <<review, guard, teacher, faults>>

\* What was displaced is put back unless the name was taken meanwhile.
PutBack(s) ==
  IF manifest = Nobody
  THEN manifest' = displaced[s] /\ displaced' = [displaced EXCEPT ![s] = Nobody]
  ELSE UNCHANGED <<manifest, displaced>>

Compare(s) ==
  /\ pc[s] = "compare"
  /\ IF displaced[s] = s
     THEN \/ Go(s, "unlink") /\ UNCHANGED <<manifest, displaced, named, faults>>
          \/ Fault /\ PutBack(s) /\ GiveUp(s)
     ELSE PutBack(s) /\ GiveUp(s) /\ UNCHANGED faults
  /\ UNCHANGED <<review, guard, teacher>>

\* The displaced bytes go; a manifest that appeared meanwhile is reported.
Unlink(s) ==
  /\ pc[s] = "unlink"
  /\ displaced' = [displaced EXCEPT ![s] = Nobody]
  /\ IF manifest # Nobody THEN GiveUp(s) ELSE Go(s, "recheck") /\ UNCHANGED named
  /\ UNCHANGED <<manifest, review, guard, teacher, faults>>

Recheck(s) ==
  /\ pc[s] = "recheck"
  /\ IF manifest # Nobody \/ review # Nobody THEN GiveUp(s)
     ELSE Go(s, "release") /\ UNCHANGED named
  /\ UNCHANGED <<manifest, review, guard, displaced, teacher, faults>>

\* Releasing the guard may fail and leave it behind.
Release(s) ==
  /\ pc[s] = "release"
  /\ \/ guard' = Nobody /\ UNCHANGED faults
     \/ Fault /\ UNCHANGED guard
  /\ named' = [named EXCEPT ![s] = IF "diagnostic" \in @ \/ guard' # Nobody THEN Remaining ELSE {}]
  /\ Go(s, "refused")
  /\ UNCHANGED <<manifest, review, displaced, teacher>>

Ended == {"created", "refused", "dead"}

\* The process dies; what it holds stays on disk.
Die(s) ==
  /\ pc[s] \notin Ended /\ Fault
  /\ Go(s, "dead")
  /\ UNCHANGED <<manifest, review, guard, displaced, named, teacher>>

-----------------------------------------------------------------------------
(* The others *)

\* A review service loads the submission without a review and later creates
\* the review with its first change.
TeacherLoads ==
  /\ teacher = "idle" /\ manifest # Nobody /\ review = Nobody
  /\ teacher' = "loaded"
  /\ UNCHANGED <<manifest, review, guard, displaced, pc, named, faults>>

TeacherReviews ==
  /\ teacher = "loaded" /\ teacher' = "done"
  /\ review' = IF guard = Nobody /\ review = Nobody THEN Other ELSE review
  /\ UNCHANGED <<manifest, guard, displaced, pc, named, faults>>

\* A scan is assembled where no manifest is, or the manifest is updated.
OtherWrites ==
  /\ manifest # Other /\ manifest' = Other
  /\ UNCHANGED <<review, guard, displaced, pc, named, teacher, faults>>

Create(s) == LookManifest(s) \/ LookReview(s) \/ CreateManifest(s) \/ LoadContext(s) \/ CreateReview(s)
Compensate(s) ==
  \/ DecideCompensation(s) \/ TakeGuard(s) \/ CheckReview(s) \/ CheckManifest(s) \/ Displace(s)
  \/ Compare(s) \/ Unlink(s) \/ Recheck(s) \/ Release(s)

Next ==
  \/ \E s \in Creator : Create(s) \/ Compensate(s) \/ Die(s)
  \/ TeacherLoads \/ TeacherReviews \/ OtherWrites

Spec == Init /\ [][Next]_vars

-----------------------------------------------------------------------------
(* Properties *)

\* Type invariant.
TypeOK ==
  /\ manifest \in Author /\ review \in Author /\ guard \in Creator \cup {Nobody}
  /\ displaced \in [Creator -> Author] /\ pc \in [Creator -> Label]
  /\ named \in [Creator -> SUBSET {"manifest", "review", "diagnostic"}]
  /\ teacher \in {"idle", "loaded", "done"} /\ faults \in 0 .. MaxFaults

\* A creation that failed and names no manifest left none of its own: neither
\* under the canonical name nor under the one it was displaced to.
SilentMeansGone ==
  \A s \in Creator :
    pc[s] = "refused" /\ "manifest" \notin named[s] =>
      manifest # s /\ displaced[s] # s

\* A pair that was reported as created is never taken apart: its review stays
\* and a manifest stays with it, whoever else is compensating.
CreatedStays ==
  \A s \in Creator : pc[s] = "created" => review = s /\ manifest # Nobody

\* What someone else wrote is never lost: taking back a manifest moves it at
\* most, and no review is ever removed or replaced.
ForeignManifest == Other \in {manifest} \cup {displaced[s] : s \in Creator}
Keeps ==
  /\ ForeignManifest => (Other \in {manifest'} \cup {displaced'[s] : s \in Creator})
  /\ review # Nobody => review' = review
=============================================================================
