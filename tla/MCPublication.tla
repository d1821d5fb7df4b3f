---------------------------- MODULE MCPublication ----------------------------
(* A small instance of Publication for TLC.                                *)
EXTENDS Publication, FiniteSets, TLC

CONSTANT s1   \* the session that asks first

\* The sessions that have asked for something.
Asked == {s \in Session : pc[s] # "idle" \/ result[s] # "none"}
Alone == Cardinality(Asked) <= 1

Unfinished == pc[s1] # "idle" \/ result[s1] \in Retryable

\* Bounds: one caller alone may need two faults, three revisions, three
\* publications and two registrations.  At any point of its operation a second
\* session may ask for one of its own; from then on there is one fault and two
\* of each, and the registration does not change.  Sessions run the same code,
\* so it does not matter which of them asks first.
Bounds ==
  /\ Asked' # {} => s1 \in Asked'
  /\ \/ Alone'
     \/ /\ faults' <= 1 /\ producer' <= 2 /\ Len(pubs') <= 2 /\ reg'.revision = 1
        /\ req' = req \/ (Alone /\ Unfinished)

\* Beside the chain, and for a caller alone with the series: one who repeats a
\* republication after failures makes one manifest revision of it, however
\* often it is interrupted, and the catalog shows what Core has.
RepeatedOnceAndShown == CatalogShowsCore /\ (Alone => RetryAllocatesOnce)

\* Whoever repeats an operation that ended in partial success, or died after it
\* changed something, gets it done, unless others changed something meanwhile;
\* stated of the session that asks first, which may be any.
FirstRetrySucceeds == RetrySucceeds(s1)
=============================================================================
