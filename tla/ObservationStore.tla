-------------------------- MODULE ObservationStore --------------------------
(***************************************************************************)
(* What persisting scanned pages promises: a store that gains pages, each  *)
(* with the routed evidence it was recorded with, in one step and for      *)
(* good.  A page that is there is never changed and never taken out.       *)
(***************************************************************************)
CONSTANTS
  Page,       \* the scanned pages of one work
  Rendering,  \* what a page's evidence may contain
  Absent      \* no rendering

VARIABLE store

Init == store = [p \in Page |-> Absent]

Record(p, content) ==
  /\ store[p] = Absent
  /\ store' = [store EXCEPT ![p] = content]

Next == \E p \in Page : \E content \in Rendering : Record(p, content)

Spec == Init /\ [][Next]_store
=============================================================================
