--------------------------- MODULE MCReviewRecord ---------------------------
EXTENDS ReviewRecord
NoComments == bank = NoUse /\ \A s \in Session : wants[s] \notin {"saved", "used"}
Bound ==
  \/ NoComments'
  \/ births' <= 1 /\ (review' # None => review'.check = "unchecked")
=============================================================================
