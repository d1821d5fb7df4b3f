------------------------------ MODULE MCReview ------------------------------
(* The review record of one student, and what a published manifest takes   *)
(* from it, each on a small instance, in one run: the initial state picks  *)
(* the component, and the variables of the other keep one value.           *)
EXTENDS TLC, Naturals, FiniteSets

CONSTANTS
  Editor, Unit, MaxBirths, MaxSaved,  \* ReviewRecord
  FewUnits, Standard                  \* ResultProjection

ASSUME MCReviewAssumption ==
  IsFiniteSet(Editor) /\ MaxBirths \in Nat /\ MaxSaved \in Nat

VARIABLES
  component, review,
  allowed, bank, copy, step, wants, current, births, meant,
  assignment, rewritten

R == INSTANCE ReviewRecord WITH Session <- Editor, pc <- step
P == INSTANCE ResultProjection WITH Unit <- FewUnits

Off == "off"
record == <<allowed, bank, copy, step, wants, current, births, meant>>
projection == <<assignment, rewritten>>
allOfReview == <<component, review, record, projection>>

RecordOff ==
  /\ allowed = Off /\ bank = Off /\ copy = Off /\ step = Off /\ wants = Off
  /\ current = Off /\ births = Off /\ meant = Off
ProjectionOff == assignment = Off /\ rewritten = Off

ReviewInit ==
  \/ component = "record" /\ R!Init /\ ProjectionOff
  \/ component = "projection" /\ P!Init /\ RecordOff

ReviewNext ==
  /\ UNCHANGED component
  /\ \/ component = "record" /\ R!Next /\ UNCHANGED projection
     \/ component = "projection" /\ P!Next /\ UNCHANGED record

ReviewSpec == ReviewInit /\ [][ReviewNext]_allOfReview

\* No standard is special.
Symmetry == Permutations(Standard)

\* Bounds: comments are added only while there is at most one observation and
\* no requirement was checked; what is published of at most three observations,
\* ratings, feedback options and comments; and one field of the assignment is
\* written over once, while there are two of them.
NoComments == bank = R!NoUse /\ \A e \in Editor : wants[e] \notin {"saved", "used"}
Things(r) ==
  Cardinality(DOMAIN r.observed) + Cardinality(DOMAIN r.rated)
  + Cardinality(DOMAIN r.options) + Cardinality(r.comments)
ReviewBounds ==
  /\ component = "record" =>
       NoComments' \/ (births' <= 1 /\ (review' # R!None => review'.check = "unchecked"))
  /\ component = "projection" =>
       /\ Things(review') <= 3
       /\ assignment' # assignment =>
            /\ ~rewritten /\ Things(review) = 2
            /\ Cardinality({x \in DOMAIN assignment : assignment'[x] # assignment[x]}) = 1

-----------------------------------------------------------------------------
(* Properties: each of its component, as the component's module states it *)

\* Both components' type invariants.
ReviewTypeOK == /\ component = "record" => R!TypeOK
                /\ component = "projection" => P!TypeOK

\* No legal sequence of edits leads to a record that an operation can no longer
\* change, is returned in one place and not in the other, shows an observation
\* nobody selected, disagrees with the comment bank, or keeps the results of the
\* class from being published.
RecordStaysSound ==
  /\ component = "record" =>
       R!EveryEditIsValid /\ R!ReturnedIsCoherent /\ R!SelectedIsMeant /\ R!BankAgrees
  /\ component = "projection" => P!EditsStayPublishable

\* A review that is not returned publishes the texts its feedback shows, and no
\* other; of returned work both show the note.
PublishedAsShown == component = "projection" => P!PublishedAsShown
=============================================================================
