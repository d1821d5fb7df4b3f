---------------------------- MODULE MCSubmission ----------------------------
(* Two sessions over one student's manifest. *)
EXTENDS Submission, TLC
Sessions == Permutations(Session)
\* Bound: two sessions over two scans of two pages, racing over decisions on the
\* first page and over assemblies of both; or one session over one page that is
\* scanned three times, or twice around a second packet.
Scanned == {o \in Obs : observed[o] # Unobserved}
FirstPageAlone ==
  OnPage(Scanned, 1) = Scanned /\ manifest.page[2] = EmptyPage
Alone == \E s \in Session : \A t \in Session \ {s} : pc[t] = "idle"
Cases == \/ issued = 1 /\ 3 \notin Scanned
         \/ FirstPageAlone /\ Alone /\ (issued = 1 \/ 3 \notin Scanned)

RaceOverFirstPage ==
  \A s, t \in Session : s # t /\ job[s].page = 2 => pc[t] = "idle"
StaysInCases == Cases' /\ RaceOverFirstPage'
=============================================================================
