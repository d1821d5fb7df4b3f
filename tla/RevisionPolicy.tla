--------------------------- MODULE RevisionPolicy ---------------------------
(***************************************************************************)
(* quillan/publication_revision_policy.py: the pure decision which         *)
(* revision, if any, a candidate academic-result manifest becomes.         *)
(*                                                                         *)
(* The content of a manifest, its time and revision left out, is a         *)
(* function from the native sources to their versions: source 0 is the     *)
(* assignment, source i > 0 the reviewed work of student i, and version 0  *)
(* of a student says that the manifest does not represent the student.  A  *)
(* history is a function from allocated revisions to contents.             *)
(***************************************************************************)
EXTENDS Integers

\* next_record_set_revision reads the highest; 0 when nothing is allocated.
Highest(history) ==
  IF DOMAIN history = {} THEN 0
  ELSE CHOOSE n \in DOMAIN history : \A m \in DOMAIN history : m <= n

NextRevision(history) == Highest(history) + 1

Represented(content) == {x \in DOMAIN content : x > 0 /\ content[x] # 0}

NativeSourceChanged(previous, candidate) ==
  \/ previous[0] # candidate[0]
  \/ /\ Represented(previous) = Represented(candidate)
     /\ \E x \in Represented(previous) : previous[x] # candidate[x]

SuccessorReason(history, candidate) ==
  IF \E n \in DOMAIN history : n < Highest(history) /\ history[n] = candidate
    THEN "historical_reversion"
  ELSE IF NativeSourceChanged(history[Highest(history)], candidate)
    THEN "native_source_changed"
  ELSE "publication_projection_changed"

\* Mutant: generated_at counts as content, so nothing is ever a replay.
PlanByTime(history, candidate, republish) ==
  IF Highest(history) = 0
    THEN IF republish THEN "invalid" ELSE "initial_publication"
  ELSE IF republish THEN "republication_after_withdrawal"
  ELSE SuccessorReason(history, candidate)

\* The reason of plan_manifest_revision, which determines the disposition:
\* exact_replay reuses the predecessor, every other creates NextRevision.
Plan(history, candidate, republish) ==
  LET predecessor == Highest(history) IN
  IF predecessor = 0
    THEN IF republish THEN "invalid" ELSE "initial_publication"
  ELSE IF republish THEN "republication_after_withdrawal"
  ELSE IF history[predecessor] = candidate THEN "exact_replay"
  ELSE SuccessorReason(history, candidate)
=============================================================================
