-------------------------- MODULE StudentWorkProofs --------------------------
(***************************************************************************)
(* Theorems about the records of one student's work: the submission        *)
(* manifest (Submission); the review record and what is published of it    *)
(* (MCReview); its feedback and the reader of published results            *)
(* (MCFeedback).  For any number of pages, scans, units, standards and     *)
(* processes.                                                              *)
(***************************************************************************)
EXTENDS Submission, MCReview, MCFeedback, FiniteSetTheorems, WellFoundedInduction, TLAPS


Manifest ==
  [kind : {"none", "plain", "digital"}, issuance : Issuance \cup {None},
   page : [Page -> PageRecord]]

\* What is excluded in role is excluded in state, and was when it was kept.
Coherent(e) ==
  /\ e.role = "excluded" => e.state = "excluded"
  /\ e.kept.role = "excluded" => e.kept.state = "excluded"

\* A page under a teacher's hands: numbers never run ahead of the evidence, and
\* excluding keeps at most one role that restoring would select.
SoundPage(pg) ==
  /\ ValidPage(pg) /\ Numbered(pg)
  /\ \A o \in EvidenceOf(pg) :
       Coherent(pg.ev[o]) /\ pg.ev[o].dup <= Cardinality(EvidenceOf(pg))
  /\ pg.state = "excluded" =>
       /\ pg.selected = None
       /\ \A o, x \in EvidenceOf(pg) :
            pg.ev[o].kept.role = "selected" /\ pg.ev[x].kept.role = "selected" => o = x

\* The evidence of a page is observations of that page and the manifest's issuance.
Belongs(m, scans) ==
  \A p \in Page : \A o \in EvidenceOf(m.page[p]) :
    scans[o] = [page |-> p, issuance |-> m.issuance]

Sound(m, scans) ==
  /\ m \in Manifest
  /\ m.kind # "digital" => \A p \in Page : m.page[p] = EmptyPage
  /\ m.kind = "digital" =>
       m.issuance \in Issuance /\ Belongs(m, scans) /\ \A p \in Page : SoundPage(m.page[p])

-----------------------------------------------------------------------------
(* Sets of scans and numbers.                                              *)

LEMMA ScansFinite ==
  ASSUME NEW S \in SUBSET Obs, NEW T \in SUBSET S
  PROVE  /\ IsFiniteSet(S) /\ Cardinality(S) \in Nat /\ Cardinality(T) \in Nat
         /\ Cardinality(T) <= Cardinality(S) /\ Cardinality(S) <= MaxObs
         /\ Cardinality(S) = Cardinality(T) => S = T
<1>1. IsFiniteSet(Obs) /\ Cardinality(Obs) = MaxObs
  BY FS_Interval, SubmissionAssumption DEF Obs
<1>2. IsFiniteSet(S) /\ Cardinality(S) <= MaxObs
  BY <1>1, FS_Subset
<1>3. IsFiniteSet(T) /\ Cardinality(T) <= Cardinality(S) /\ (Cardinality(S) = Cardinality(T) => S = T)
  BY <1>2, FS_Subset
<1> QED
  BY <1>2, <1>3, FS_CardinalityType

(* Scans that are not several are none or one.                             *)
LEMMA AtMostOne ==
  ASSUME NEW S \in SUBSET Obs
  PROVE  /\ S = {} <=> Cardinality(S) = 0
         /\ Cardinality(S) = 1 <=> \E o \in Obs : S = {o}
         /\ (\A o, x \in S : o = x) => ~ (Cardinality(S) > 1)
<1>1. IsFiniteSet(S) /\ Cardinality(S) \in Nat
  BY ScansFinite
<1>2. S = {} <=> Cardinality(S) = 0
  BY <1>1, FS_EmptySet
<1>3. Cardinality(S) = 1 <=> \E o \in Obs : S = {o}
  <2>1. Cardinality(S) = 1 <=> \E o : S = {o}
    BY <1>1, FS_Singleton
  <2> QED
    BY <2>1
<1>4. ASSUME \A o, x \in S : o = x PROVE ~ (Cardinality(S) > 1)
  <2>1. CASE S = {}
    BY <1>2, <2>1
  <2>2. CASE S # {}
    <3>1. PICK o \in S : TRUE
      BY <2>2
    <3>2. S = {o}
      BY <1>4, <3>1
    <3>3. Cardinality(S) = 1
      BY <1>3, <3>2
    <3> QED
      BY <3>3
  <2> QED
    BY <2>1, <2>2
<1> QED
  BY <1>2, <1>3, <1>4

(* A set of numbers has a least one.                                       *)
LEMMA HasLeast ==
  ASSUME NEW S \in SUBSET Nat, S # {}
  PROVE  Min(S) \in S /\ \A x \in S : Min(S) <= x
<1>1. PICK m \in S : \A x \in S : ~ (<<x, m>> \in OpToRel(<, Nat))
  BY NatLessThanWellFounded, WFMin
<1>2. \A x \in S : ~ (x < m)
  BY <1>1 DEF OpToRel
<1>3. \A x \in S : m <= x
  BY <1>2
<1> QED
  BY <1>3 DEF Min

(* A bounded set of numbers has a greatest one.                            *)
LEMMA HasGreatest ==
  ASSUME NEW S \in SUBSET Nat, S # {}, NEW n \in Nat, \A x \in S : x <= n
  PROVE  Max(S) \in S /\ \A x \in S : x <= Max(S)
<1> DEFINE T == {n - x : x \in S}
<1>1. T \in SUBSET Nat /\ T # {}
  OBVIOUS
<1>2. Min(T) \in T /\ \A y \in T : Min(T) <= y
  BY <1>1, HasLeast
<1>3. PICK m \in S : Min(T) = n - m
  BY <1>2
<1>4. \A x \in S : n - m <= n - x
  BY <1>2, <1>3
<1>5. \A x \in S : m >= x
  BY <1>4
<1> QED
  BY <1>5 DEF Max

(* Scans of a set are ranked differently, below its size.                  *)
LEMMA RanksDiffer ==
  ASSUME NEW S \in SUBSET Obs, NEW o \in S
  PROVE  /\ Rank(o, S) \in Nat /\ Rank(o, S) < Cardinality(S)
         /\ \A x \in S : x # o => Rank(x, S) # Rank(o, S)
<1> DEFINE Below(x) == {y \in S : y < x}
<1>1. \A x \in S : Below(x) \in SUBSET S /\ Rank(x, S) = Cardinality(Below(x))
  BY DEF Rank
<1>2. S \subseteq Nat
  BY DEF Obs
<1>3. o \notin Below(o)
  BY <1>2
<1>4. Rank(o, S) \in Nat /\ Rank(o, S) < Cardinality(S)
  <2>1. Below(o) \in SUBSET S /\ Below(o) # S
    BY <1>3
  <2> HIDE DEF Below
  <2> QED
    BY <1>1, <2>1, ScansFinite
<1>5. ASSUME NEW x \in S, NEW z \in S, x < z PROVE Rank(x, S) < Rank(z, S)
  <2>1. Below(x) \in SUBSET Below(z) /\ x \in Below(z) /\ x \notin Below(x)
    <3>1. \A y \in S : y < x => y < z
      BY <1>2, <1>5
    <3>2. ~ (x < x)
      BY <1>2
    <3> QED
      BY <1>5, <3>1, <3>2, Zenon
  <2>2. Below(z) \in SUBSET Obs
    OBVIOUS
  <2> HIDE DEF Below
  <2>3. Cardinality(Below(x)) < Cardinality(Below(z))
    BY <2>1, <2>2, ScansFinite
  <2> QED
    BY <1>1, <2>3
<1>6. ASSUME NEW x \in S, x # o PROVE Rank(x, S) # Rank(o, S)
  <2>1. x < o \/ o < x
    BY <1>2, <1>6
  <2>2. Rank(x, S) \in Nat /\ Rank(o, S) \in Nat
    BY <1>1, ScansFinite
  <2> QED
    BY <1>5, <2>1, <2>2
<1> QED
  BY <1>4, <1>6

-----------------------------------------------------------------------------
(* Pages.                                                                  *)

LEMMA PageFields ==
  ASSUME NEW pg \in PageRecord
  PROVE  /\ pg.state \in PageState /\ pg.selected \in Obs \cup {None}
         /\ EvidenceOf(pg) \in SUBSET Obs /\ pg.ev \in [EvidenceOf(pg) -> Evidence]
         /\ pg = [state |-> pg.state, selected |-> pg.selected, ev |-> pg.ev]
<1>1. pg.ev \in UNION {[os -> Evidence] : os \in SUBSET Obs}
  BY DEF PageRecord
<1>2. PICK os \in SUBSET Obs : pg.ev \in [os -> Evidence]
  BY <1>1
<1> QED
  BY <1>2 DEF PageRecord, EvidenceOf

LEMMA MakePage ==
  ASSUME NEW os \in SUBSET Obs, NEW ev \in [os -> Evidence],
         NEW state \in PageState, NEW selected \in Obs \cup {None}
  PROVE  /\ [state |-> state, selected |-> selected, ev |-> ev] \in PageRecord
         /\ EvidenceOf([state |-> state, selected |-> selected, ev |-> ev]) = os
<1>1. ev \in UNION {[x -> Evidence] : x \in SUBSET Obs}
  OBVIOUS
<1> QED
  BY <1>1 DEF PageRecord, EvidenceOf

(* A page's evidence: what each carries, and what a selection is.          *)
LEMMA EvidenceFields ==
  ASSUME NEW pg \in PageRecord, NEW o \in EvidenceOf(pg)
  PROVE  /\ o \in Obs
         /\ pg.ev[o].role \in Role /\ pg.ev[o].state \in State
         /\ pg.ev[o].dup \in 0 .. MaxObs /\ pg.ev[o].kept \in Kept \cup {NotKept}
         /\ pg.ev[o] = [role |-> pg.ev[o].role, state |-> pg.ev[o].state,
                        dup |-> pg.ev[o].dup, kept |-> pg.ev[o].kept]
<1>1. pg.ev[o] \in Evidence /\ o \in Obs
  BY PageFields
<1> QED
  BY <1>1 DEF Evidence

(* A page whose evidence has the numbers it had, and that is not excluded.  *)
LEMMA Renumbered ==
  ASSUME NEW pg \in PageRecord, SoundPage(pg), NEW q \in PageRecord, ValidPage(q),
         EvidenceOf(q) = EvidenceOf(pg), q.state # "excluded",
         \A o \in EvidenceOf(pg) : Coherent(q.ev[o]) /\ q.ev[o].dup = pg.ev[o].dup
  PROVE  SoundPage(q)
BY DEF SoundPage, Numbered

LEMMA EmptySound == EmptyPage \in PageRecord /\ SoundPage(EmptyPage) /\ EvidenceOf(EmptyPage) = {}
<1>1. <<>> \in [{} -> Evidence]
  OBVIOUS
<1>2. EmptyPage \in PageRecord /\ EvidenceOf(EmptyPage) = {}
  BY <1>1, MakePage DEF EmptyPage, PageState
<1> QED
  BY <1>2 DEF SoundPage, ValidPage, Numbered, SelectedRoles, EmptyPage

LEMMA ExcludeSound ==
  ASSUME NEW pg \in PageRecord, SoundPage(pg)
  PROVE  /\ Exclude(pg) \in PageRecord /\ SoundPage(Exclude(pg))
         /\ EvidenceOf(Exclude(pg)) = EvidenceOf(pg)
<1> DEFINE new(o) == [pg.ev[o] EXCEPT !.role = "excluded", !.state = "excluded",
                        !.kept = [role |-> pg.ev[o].role, state |-> pg.ev[o].state]]
           ev == [o \in EvidenceOf(pg) |-> new(o)]
           q == [state |-> "excluded", selected |-> None, ev |-> ev]
<1>1. Exclude(pg) = q
  BY DEF Exclude
<1>2. ASSUME NEW o \in EvidenceOf(pg)
      PROVE  /\ new(o) \in Evidence /\ new(o).role = "excluded"
             /\ new(o).dup = pg.ev[o].dup /\ new(o).kept.role = pg.ev[o].role
             /\ Coherent(new(o))
  <2>1. pg.ev[o] \in Evidence /\ "excluded" \in Role /\ "excluded" \in State
    BY PageFields DEF Role, State
  <2>2. [role |-> pg.ev[o].role, state |-> pg.ev[o].state] \in Kept \cup {NotKept}
    BY EvidenceFields DEF Kept
  <2>3. Coherent(pg.ev[o])
    BY DEF SoundPage
  <2> QED
    BY <2>1, <2>2, <2>3 DEF Evidence, Coherent
<1>3. EvidenceOf(pg) \in SUBSET Obs /\ ev \in [EvidenceOf(pg) -> Evidence]
  BY <1>2, PageFields
<1>4. q \in PageRecord /\ EvidenceOf(q) = EvidenceOf(pg)
  BY <1>3, MakePage DEF PageState
<1>5. \A o \in EvidenceOf(pg) : q.ev[o] = new(o)
  OBVIOUS
<1> HIDE DEF new, ev
<1>6. q.state = "excluded" /\ q.selected = None
  OBVIOUS
<1> HIDE DEF q
<1>7. ValidPage(q)
  BY <1>2, <1>4, <1>5, <1>6 DEF ValidPage, SelectedRoles
<1>8. \A o, x \in EvidenceOf(pg) :
        pg.ev[o].role = "selected" /\ pg.ev[x].role = "selected" => o = x
  BY DEF SoundPage, ValidPage, SelectedRoles
<1>9. SoundPage(q)
  BY <1>2, <1>4, <1>5, <1>6, <1>7, <1>8 DEF SoundPage, Numbered
<1> QED
  BY <1>1, <1>4, <1>9

LEMMA RescanSound ==
  ASSUME NEW pg \in PageRecord, SoundPage(pg)
  PROVE  /\ Rescan(pg) \in PageRecord /\ SoundPage(Rescan(pg))
         /\ EvidenceOf(Rescan(pg)) = EvidenceOf(pg)
<1> DEFINE new(o) == [pg.ev[o] EXCEPT !.role = "candidate", !.state = "needs_rescan", !.kept = NotKept]
           ev == [o \in EvidenceOf(pg) |-> new(o)]
           q == [state |-> "needs_rescan", selected |-> None, ev |-> ev]
<1>1. Rescan(pg) = q
  BY DEF Rescan
<1>2. ASSUME NEW o \in EvidenceOf(pg)
      PROVE  /\ new(o) \in Evidence /\ new(o).role = "candidate" /\ new(o).dup = pg.ev[o].dup
             /\ Coherent(new(o))
  <2>1. pg.ev[o] \in Evidence /\ "candidate" \in Role /\ "needs_rescan" \in State
    BY PageFields DEF Role, State
  <2> QED
    BY <2>1 DEF Evidence, Coherent, NotKept
<1>3. EvidenceOf(pg) \in SUBSET Obs /\ ev \in [EvidenceOf(pg) -> Evidence]
  BY <1>2, PageFields
<1>4. q \in PageRecord /\ EvidenceOf(q) = EvidenceOf(pg)
  BY <1>3, MakePage DEF PageState
<1>5. \A o \in EvidenceOf(pg) : q.ev[o] = new(o)
  OBVIOUS
<1> HIDE DEF new, ev
<1>6. q.state = "needs_rescan" /\ q.selected = None
  OBVIOUS
<1> HIDE DEF q
<1>7. ValidPage(q)
  BY <1>2, <1>4, <1>5, <1>6 DEF ValidPage, SelectedRoles
<1>8. SoundPage(q)
  BY <1>2, <1>4, <1>5, <1>6, <1>7, Renumbered
<1> QED
  BY <1>1, <1>4, <1>8

(* The state that evidence resolution gives a page suits its evidence.     *)
LEMMA ResolvedFits ==
  ASSUME NEW os \in SUBSET Obs, os # {}, NEW ev \in [os -> Evidence]
  PROVE  /\ ResolvedState(ev) \in PageState \ {"missing", "excluded"}
         /\ ResolvedState(ev) = "duplicate" => Cardinality(os) >= 2
         /\ RestoredState(ev) \in PageState \ {"missing", "excluded"}
         /\ RestoredState(ev) = "duplicate" => Cardinality(os) >= 2
<1>1. DOMAIN ev = os /\ Cardinality(os) \in Nat
  BY ScansFinite
<1> QED
  BY <1>1 DEF ResolvedState, RestoredState, PageState

LEMMA SelectSound ==
  ASSUME NEW pg \in PageRecord, SoundPage(pg), NEW e, ActiveCandidate(pg, e)
  PROVE  /\ Select(pg, e) \in PageRecord /\ SoundPage(Select(pg, e))
         /\ EvidenceOf(Select(pg, e)) = EvidenceOf(pg)
<1> DEFINE new(o) == IF o = e THEN [pg.ev[o] EXCEPT !.role = "selected", !.state = "active"]
                     ELSE IF pg.ev[o].role = "selected" THEN [pg.ev[o] EXCEPT !.role = "candidate"]
                     ELSE pg.ev[o]
           ev == [o \in EvidenceOf(pg) |-> new(o)]
           q == [state |-> ResolvedState(ev), selected |-> e, ev |-> ev]
<1>1. Select(pg, e) = q
  BY DEF Select
<1>2. ASSUME NEW o \in EvidenceOf(pg)
      PROVE  /\ new(o) \in Evidence /\ new(o).dup = pg.ev[o].dup
             /\ (new(o).role = "selected" <=> o = e) /\ Coherent(new(o))
  <2>1. pg.ev[o] \in Evidence /\ {"selected", "candidate"} \subseteq Role /\ "active" \in State
    BY PageFields DEF Role, State
  <2>2. Coherent(pg.ev[o])
    BY DEF SoundPage
  <2> QED
    BY <2>1, <2>2 DEF Evidence, Coherent
<1>3. EvidenceOf(pg) \in SUBSET Obs /\ ev \in [EvidenceOf(pg) -> Evidence] /\ e \in EvidenceOf(pg)
  BY <1>2, PageFields DEF ActiveCandidate
<1>4. /\ ResolvedState(ev) \in PageState \ {"missing", "excluded"}
      /\ ResolvedState(ev) = "duplicate" => Cardinality(EvidenceOf(pg)) >= 2
  BY <1>3, ResolvedFits
<1>5. q \in PageRecord /\ EvidenceOf(q) = EvidenceOf(pg)
  BY <1>3, <1>4, MakePage
<1>6. \A o \in EvidenceOf(pg) : q.ev[o] = new(o)
  OBVIOUS
<1> HIDE DEF new, ev
<1>7. q.state = ResolvedState(ev) /\ q.selected = e /\ e # None
  <2>1. e \in Obs
    BY <1>3
  <2> QED
    BY <2>1 DEF Obs, None
<1> HIDE DEF q
<1>8. SelectedRoles(q) = {e}
  BY <1>2, <1>3, <1>5, <1>6 DEF SelectedRoles
<1>9. ValidPage(q)
  BY <1>3, <1>4, <1>5, <1>7, <1>8 DEF ValidPage
<1>10. SoundPage(q)
  BY <1>2, <1>4, <1>5, <1>6, <1>7, <1>9, Renumbered
<1> QED
  BY <1>1, <1>5, <1>10

LEMMA KeepSelection ==
  ASSUME NEW pg \in PageRecord, NEW state, NEW ev
  PROVE  [pg EXCEPT !.state = state, !.ev = ev] = [state |-> state, selected |-> pg.selected, ev |-> ev]
<1> DEFINE f == [pg EXCEPT !.state = state, !.ev = ev]
           value(x) == IF x = "ev" THEN ev ELSE IF x = "state" THEN state ELSE pg[x]
<1>1. DOMAIN pg = {"state", "selected", "ev"}
  BY DEF PageRecord
<1>2. f = [x \in DOMAIN pg |-> value(x)]
  BY Zenon
<1>3. [state |-> state, selected |-> pg.selected, ev |-> ev] = [x \in {"state", "selected", "ev"} |-> value(x)]
  OBVIOUS
<1> QED
  BY <1>1, <1>2, <1>3

LEMMA DismissSound ==
  ASSUME NEW pg \in PageRecord, SoundPage(pg), NEW e, ActiveCandidate(pg, e)
  PROVE  /\ Dismiss(pg, e) \in PageRecord /\ SoundPage(Dismiss(pg, e))
         /\ EvidenceOf(Dismiss(pg, e)) = EvidenceOf(pg)
<1> DEFINE new == [pg.ev[e] EXCEPT !.role = "excluded", !.state = "excluded"]
           ev == [pg.ev EXCEPT ![e] = new]
           q == [state |-> ResolvedState(ev), selected |-> pg.selected, ev |-> ev]
<1>1. EvidenceOf(pg) \in SUBSET Obs /\ pg.ev \in [EvidenceOf(pg) -> Evidence] /\ e \in EvidenceOf(pg)
  BY PageFields DEF ActiveCandidate
<1>2. new \in Evidence /\ new.role = "excluded" /\ new.dup = pg.ev[e].dup /\ Coherent(new)
  <2>1. pg.ev[e] \in Evidence /\ "excluded" \in Role /\ "excluded" \in State
    BY <1>1 DEF Role, State
  <2>2. Coherent(pg.ev[e])
    BY <1>1 DEF SoundPage
  <2> QED
    BY <2>1, <2>2 DEF Evidence, Coherent
<1>3. Dismiss(pg, e) = q
  <2>1. [pg.ev EXCEPT ![e].role = "excluded", ![e].state = "excluded"] = ev
    BY <1>1, EvidenceFields
  <2>2. Dismiss(pg, e) = [pg EXCEPT !.state = ResolvedState(ev), !.ev = ev]
    BY <2>1 DEF Dismiss
  <2> HIDE DEF ev
  <2> QED
    BY <2>2, KeepSelection
<1> HIDE DEF new
<1>4. ev \in [EvidenceOf(pg) -> Evidence] /\ \A o \in EvidenceOf(pg) : ev[o] = IF o = e THEN new ELSE pg.ev[o]
  BY <1>1, <1>2
<1> HIDE DEF ev
<1>5. /\ ResolvedState(ev) \in PageState \ {"missing", "excluded"}
      /\ ResolvedState(ev) = "duplicate" => Cardinality(EvidenceOf(pg)) >= 2
  BY <1>1, <1>4, ResolvedFits
<1>6. q \in PageRecord /\ EvidenceOf(q) = EvidenceOf(pg)
  BY <1>1, <1>4, <1>5, MakePage, PageFields
<1>7. q.state = ResolvedState(ev) /\ q.selected = pg.selected /\ q.ev = ev
  OBVIOUS
<1> HIDE DEF q
<1>8. SelectedRoles(q) = SelectedRoles(pg)
  BY <1>1, <1>2, <1>4, <1>6, <1>7 DEF SelectedRoles, ActiveCandidate
<1>9. ValidPage(q)
  BY <1>1, <1>5, <1>6, <1>7, <1>8 DEF ValidPage, SoundPage
<1>10. \A o \in EvidenceOf(pg) : Coherent(q.ev[o])
  BY <1>2, <1>4, <1>7 DEF SoundPage
<1>11. SoundPage(q)
  BY <1>2, <1>4, <1>5, <1>6, <1>7, <1>9, <1>10, Renumbered
<1> QED
  BY <1>3, <1>6, <1>11

(* Restoring never selects two, and gives a sound page.                     *)
LEMMA RestoreSound ==
  ASSUME NEW pg \in PageRecord, SoundPage(pg), pg.state = "excluded"
  PROVE  /\ ~ Canceled("restore", pg)
         /\ Restore(pg) \in PageRecord /\ SoundPage(Restore(pg))
         /\ EvidenceOf(Restore(pg)) = EvidenceOf(pg)
<1> DEFINE role(o) == IF pg.ev[o].kept # NotKept THEN pg.ev[o].kept.role
                      ELSE IF Cardinality(EvidenceOf(pg)) = 1 THEN "selected" ELSE "candidate"
           state(o) == IF pg.ev[o].kept # NotKept THEN pg.ev[o].kept.state ELSE "active"
           new(o) == [pg.ev[o] EXCEPT !.role = role(o), !.state = state(o), !.kept = NotKept]
           ev == RestoredEvidence(pg)
           chosen == {o \in EvidenceOf(pg) : ev[o].role = "selected"}
<1>1. EvidenceOf(pg) \in SUBSET Obs /\ pg.ev \in [EvidenceOf(pg) -> Evidence]
  BY PageFields
<1>2. ASSUME NEW o \in EvidenceOf(pg)
      PROVE  /\ new(o) \in Evidence /\ new(o).role = role(o) /\ new(o).dup = pg.ev[o].dup
             /\ Coherent(new(o))
  <2>1. pg.ev[o] \in Evidence /\ pg.ev[o].kept \in Kept \cup {NotKept}
    BY EvidenceFields, PageFields
  <2>2. role(o) \in Role /\ state(o) \in State
    BY <2>1 DEF Kept, Role, State
  <2>3. role(o) = "excluded" => state(o) = "excluded"
    BY DEF SoundPage, Coherent
  <2> HIDE DEF role, state
  <2> QED
    BY <2>1, <2>2, <2>3 DEF Evidence, Coherent, NotKept
<1>3. ev = [o \in EvidenceOf(pg) |-> new(o)]
  BY DEF RestoredEvidence
<1>4. ASSUME NEW o \in EvidenceOf(pg), NEW x \in EvidenceOf(pg),
             role(o) = "selected", role(x) = "selected"
      PROVE  o = x
  <2>1. CASE Cardinality(EvidenceOf(pg)) = 1
    <3>1. \E y \in Obs : EvidenceOf(pg) = {y}
      BY <1>1, <2>1, AtMostOne
    <3> QED
      BY <3>1
  <2>2. CASE Cardinality(EvidenceOf(pg)) # 1
    <3>1. pg.ev[o].kept.role = "selected" /\ pg.ev[x].kept.role = "selected"
      BY <1>4, <2>2
    <3> QED
      BY <3>1 DEF SoundPage
  <2> QED
    BY <2>1, <2>2
<1> HIDE DEF role, new, ev
<1>5. /\ ev \in [EvidenceOf(pg) -> Evidence]
      /\ \A o \in EvidenceOf(pg) :
           ev[o].role = role(o) /\ ev[o].dup = pg.ev[o].dup /\ Coherent(ev[o])
  BY <1>2, <1>3
<1>6. \A o, x \in chosen : o = x
  BY <1>4, <1>5
<1>7. chosen \in SUBSET EvidenceOf(pg) /\ chosen \in SUBSET Obs
  BY <1>1
<1>8. ~ Canceled("restore", pg)
  <2>1. ~ (Cardinality(chosen) > 1)
    BY <1>6, <1>7, AtMostOne
  <2> QED
    BY <2>1 DEF Canceled, ev
<1>9. CASE EvidenceOf(pg) = {}
  <2>1. Restore(pg) = EmptyPage
    BY <1>9 DEF Restore
  <2> QED
    BY <1>8, <1>9, <2>1, EmptySound
<1>10. CASE EvidenceOf(pg) # {}
  <2> DEFINE pick == IF chosen = {} THEN None ELSE Min(chosen)
             q == [state |-> RestoredState(ev), selected |-> pick, ev |-> ev]
  <2>1. Restore(pg) = q
    <3>1. DOMAIN ev = EvidenceOf(pg)
      BY <1>5
    <3> QED
      BY <1>10, <3>1 DEF Restore, ev
  <2>2. chosen = IF pick = None THEN {} ELSE {pick}
    <3>1. CASE chosen = {}
      BY <3>1
    <3>2. CASE chosen # {}
      <4>1. Obs \subseteq Nat /\ None \notin Obs
        BY DEF Obs, None
      <4>2. chosen \in SUBSET Nat
        BY <1>7, <4>1
      <4> HIDE DEF chosen
      <4>3. Min(chosen) \in chosen
        BY <3>2, <4>2, HasLeast
      <4> QED
        BY <1>6, <1>7, <3>2, <4>1, <4>3
    <3> QED
      BY <3>1, <3>2
  <2>3. pick \in Obs \cup {None}
    BY <1>7, <2>2
  <2>4. /\ RestoredState(ev) \in PageState \ {"missing", "excluded"}
        /\ RestoredState(ev) = "duplicate" => Cardinality(EvidenceOf(pg)) >= 2
    BY <1>1, <1>5, <1>10, ResolvedFits
  <2> HIDE DEF pick
  <2>5. q \in PageRecord /\ EvidenceOf(q) = EvidenceOf(pg)
    BY <1>1, <1>5, <2>3, <2>4, MakePage
  <2>6. q.state = RestoredState(ev) /\ q.selected = pick /\ q.ev = ev
    OBVIOUS
  <2> HIDE DEF q
  <2>7. SelectedRoles(q) = chosen
    BY <2>5, <2>6 DEF SelectedRoles
  <2>8. ValidPage(q)
    BY <1>10, <2>2, <2>4, <2>5, <2>6, <2>7 DEF ValidPage
  <2>9. SoundPage(q)
    BY <1>5, <2>4, <2>5, <2>6, <2>8, Renumbered
  <2> QED
    BY <1>8, <2>1, <2>5, <2>9
<1> QED
  BY <1>9, <1>10

-----------------------------------------------------------------------------
(* Pages that gain scans.                                                  *)

LEMMA NewSound ==
  ASSUME NEW os \in SUBSET Obs
  PROVE  NewPage(os) \in PageRecord /\ SoundPage(NewPage(os)) /\ EvidenceOf(NewPage(os)) = os
<1>1. CASE os = {}
  BY <1>1, EmptySound DEF NewPage
<1>2. CASE os # {}
  <2> DEFINE single == Cardinality(os) = 1
             new(o) == Projection(IF single THEN "selected" ELSE "candidate", "active", Rank(o, os))
             ev == [o \in os |-> new(o)]
             pick == IF single THEN Min(os) ELSE None
             q == [state |-> IF single THEN "present" ELSE "duplicate", selected |-> pick, ev |-> ev]
  <2>1. NewPage(os) = q
    BY <1>2 DEF NewPage
  <2>2. Cardinality(os) \in Nat /\ Cardinality(os) # 0 /\ Cardinality(os) <= MaxObs
    BY <1>2, ScansFinite, AtMostOne
  <2>3. ASSUME NEW o \in os
        PROVE  /\ new(o) \in Evidence /\ new(o).dup = Rank(o, os) /\ Rank(o, os) <= Cardinality(os)
               /\ new(o).role = (IF single THEN "selected" ELSE "candidate") /\ Coherent(new(o))
    <3>1. Rank(o, os) \in Nat /\ Rank(o, os) < Cardinality(os)
      BY RanksDiffer
    <3>2. Rank(o, os) \in 0 .. MaxObs
      BY <2>2, <3>1, SubmissionAssumption
    <3> HIDE DEF single
    <3>3. (IF single THEN "selected" ELSE "candidate") \in Role /\ "active" \in State
      BY DEF Role, State
    <3> QED
      BY <2>2, <3>1, <3>2, <3>3 DEF Projection, Evidence, Coherent, NotKept
  <2>4. single => os = {pick} /\ pick # None
    <3>1. ASSUME single PROVE os = {pick} /\ pick # None
      <4>1. PICK o \in Obs : os = {o}
        BY <3>1, AtMostOne
      <4>2. os \in SUBSET Nat /\ None \notin Obs
        BY DEF Obs, None
      <4>3. Min(os) \in os
        BY <1>2, <4>2, HasLeast
      <4> QED
        BY <3>1, <4>1, <4>2, <4>3
    <3> QED
      BY <3>1
  <2>5. ~single => pick = None
    OBVIOUS
  <2> HIDE DEF single, new, pick
  <2>6. ev \in [os -> Evidence] /\ pick \in Obs \cup {None}
    BY <2>3, <2>4, <2>5
  <2>7. q \in PageRecord /\ EvidenceOf(q) = os
    BY <2>6, MakePage DEF PageState
  <2>8. /\ q.state = (IF single THEN "present" ELSE "duplicate") /\ q.selected = pick
        /\ \A o \in os : q.ev[o] = new(o)
    OBVIOUS
  <2> HIDE DEF ev, q
  <2>9. SelectedRoles(q) = IF pick = None THEN {} ELSE {pick}
    BY <2>3, <2>4, <2>5, <2>7, <2>8 DEF SelectedRoles
  <2>10. ~single => Cardinality(os) >= 2
    BY <2>2 DEF single
  <2>11. ValidPage(q)
    BY <1>2, <2>7, <2>8, <2>9, <2>10 DEF ValidPage
  <2>12. Numbered(q)
    BY <2>3, <2>7, <2>8, RanksDiffer DEF Numbered
  <2>13. SoundPage(q)
    BY <2>3, <2>7, <2>8, <2>11, <2>12 DEF SoundPage
  <2> QED
    BY <2>1, <2>7, <2>13
<1> QED
  BY <1>1, <1>2

(* New evidence takes numbers that no evidence of the page has, and none    *)
(* that is beyond the amount of evidence.                                   *)
LEMMA JoinSound ==
  ASSUME NEW pg \in PageRecord, SoundPage(pg), NEW os \in SUBSET Obs
  PROVE  LET q == WithEvidence(pg, os) IN
         /\ q \in PageRecord /\ EvidenceOf(q) = EvidenceOf(pg) \cup os
         /\ q.state = pg.state /\ q.selected = pg.selected
         /\ \A o \in EvidenceOf(pg) : q.ev[o] = pg.ev[o]
         /\ \A o \in os \ EvidenceOf(pg) : q.ev[o].role = "candidate" /\ q.ev[o].kept = NotKept
         /\ Numbered(q)
         /\ \A o \in EvidenceOf(q) : Coherent(q.ev[o]) /\ q.ev[o].dup <= Cardinality(EvidenceOf(q))
<1> DEFINE old == EvidenceOf(pg)
           new == os \ old
           dups == {pg.ev[o].dup : o \in old} \cup {0}
           next == Max(dups) + 1
           number(o) == IF old = {} /\ Cardinality(os) = 1 THEN 0 ELSE next + Rank(o, new)
           item(o) == IF o \in new THEN Projection("candidate", "active", number(o)) ELSE pg.ev[o]
           ev == [o \in old \cup new |-> item(o)]
           q == [state |-> pg.state, selected |-> pg.selected, ev |-> ev]
<1>1. WithEvidence(pg, os) = q
  <2>1. [pg EXCEPT !.ev = ev] = q
    <3> HIDE DEF ev
    <3> QED
      BY DEF PageRecord
  <2> QED
    BY <2>1 DEF WithEvidence
<1>2. old \in SUBSET Obs /\ new \in SUBSET Obs /\ pg.ev \in [old -> Evidence]
  BY PageFields
<1>3. /\ Cardinality(old) \in Nat /\ Cardinality(new) \in Nat /\ Cardinality(old \cup new) \in Nat
      /\ Cardinality(old \cup new) = Cardinality(old) + Cardinality(new)
      /\ Cardinality(old \cup new) <= MaxObs
  <2>1. old \cup new \in SUBSET Obs /\ old \cap new = {}
    BY <1>2
  <2>2. IsFiniteSet(old) /\ IsFiniteSet(new) /\ Cardinality(old \cap new) = 0
    BY <1>2, <2>1, ScansFinite, FS_EmptySet
  <2> HIDE DEF old, new
  <2>3. Cardinality(old \cup new) = Cardinality(old) + Cardinality(new) - Cardinality(old \cap new)
    BY <2>2, FS_Union
  <2>4. /\ Cardinality(old) \in Nat /\ Cardinality(new) \in Nat
        /\ Cardinality(old \cup new) \in Nat /\ Cardinality(old \cup new) <= MaxObs
    BY <1>2, <2>1, ScansFinite
  <2> QED
    BY <2>2, <2>3, <2>4
<1>4. \A o \in old : pg.ev[o].dup \in Nat /\ pg.ev[o].dup <= Cardinality(old)
  <2>1. \A o \in old : pg.ev[o].dup \in 0 .. MaxObs
    BY EvidenceFields
  <2>2. \A o \in old : pg.ev[o].dup <= Cardinality(old)
    BY DEF SoundPage
  <2> HIDE DEF old
  <2> QED
    BY <2>1, <2>2, SubmissionAssumption
<1>5. Max(dups) \in Nat /\ Max(dups) <= Cardinality(old) /\ \A o \in old : pg.ev[o].dup <= Max(dups)
  <2>1. dups \in SUBSET Nat /\ dups # {} /\ \A x \in dups : x <= Cardinality(old)
    BY <1>3, <1>4
  <2>2. \A o \in old : pg.ev[o].dup \in dups
    OBVIOUS
  <2> HIDE DEF dups
  <2> QED
    BY <1>3, <2>1, <2>2, HasGreatest
<1> HIDE DEF dups
<1>6. next \in Nat /\ next <= Cardinality(old) + 1 /\ \A o \in old : pg.ev[o].dup < next
  BY <1>3, <1>4, <1>5
<1> HIDE DEF next
<1>7. ASSUME NEW o \in new
      PROVE  /\ number(o) \in Nat /\ number(o) <= Cardinality(old \cup new)
             /\ \A x \in old : pg.ev[x].dup # number(o)
             /\ \A x \in new : x # o => number(x) # number(o)
  <2>1. CASE old = {} /\ Cardinality(os) = 1
    <3>1. \E y \in Obs : os = {y}
      BY <2>1, AtMostOne
    <3> QED
      BY <1>3, <2>1, <3>1
  <2>2. CASE ~ (old = {} /\ Cardinality(os) = 1)
    <3>1. /\ Rank(o, new) \in Nat /\ Rank(o, new) < Cardinality(new)
          /\ \A x \in new : x # o => Rank(x, new) \in Nat /\ Rank(x, new) # Rank(o, new)
      BY <1>2, RanksDiffer
    <3>2. number(o) = next + Rank(o, new) /\ \A x \in new : number(x) = next + Rank(x, new)
      BY <2>2
    <3> HIDE DEF number, old, new
    <3>3. number(o) \in Nat /\ number(o) <= Cardinality(old \cup new)
      BY <1>3, <1>6, <3>1, <3>2
    <3>4. \A x \in old : pg.ev[x].dup # number(o)
      BY <1>4, <1>6, <3>1, <3>2
    <3>5. \A x \in new : x # o => number(x) # number(o)
      BY <1>6, <3>1, <3>2
    <3> QED
      BY <3>3, <3>4, <3>5
  <2> QED
    BY <2>1, <2>2
<1> HIDE DEF number
<1>8. ASSUME NEW o \in new
      PROVE  /\ item(o) \in Evidence /\ item(o).dup = number(o)
             /\ item(o).role = "candidate" /\ item(o).kept = NotKept /\ Coherent(item(o))
  <2>1. number(o) \in Nat /\ number(o) <= Cardinality(old \cup new)
    BY <1>7, <1>8
  <2>2. number(o) \in 0 .. MaxObs
    <3> HIDE DEF old, new
    <3> QED
      BY <1>3, <2>1, SubmissionAssumption
  <2>3. "candidate" \in Role /\ "active" \in State
    BY DEF Role, State
  <2> QED
    BY <1>8, <2>2, <2>3 DEF Projection, Evidence, Coherent, NotKept
<1>9. \A o \in old : item(o) = pg.ev[o]
  OBVIOUS
<1> HIDE DEF item
<1>10. ev \in [old \cup new -> Evidence]
  BY <1>2, <1>8, <1>9
<1>11. q \in PageRecord /\ EvidenceOf(q) = old \cup new
  BY <1>2, <1>10, MakePage, PageFields
<1>12. q.state = pg.state /\ q.selected = pg.selected /\ \A o \in old \cup new : q.ev[o] = item(o)
  OBVIOUS
<1> HIDE DEF ev, q
<1>13. Numbered(q)
  <2> SUFFICES ASSUME NEW o \in old \cup new, NEW x \in old \cup new, o # x,
                      q.ev[o].dup # 0, q.ev[o].dup = q.ev[x].dup
               PROVE  FALSE
    BY <1>11 DEF Numbered
  <2>1. CASE o \in old /\ x \in old
    BY <1>9, <1>12, <2>1 DEF SoundPage, Numbered
  <2>2. CASE o \in new \/ x \in new
    BY <1>7, <1>8, <1>9, <1>12, <2>2
  <2> QED
    BY <2>1, <2>2
<1>14. \A o \in old \cup new : q.ev[o].dup <= Cardinality(old \cup new)
  <2>1. ASSUME NEW o \in old PROVE q.ev[o].dup <= Cardinality(old \cup new)
    <3>1. q.ev[o].dup = pg.ev[o].dup
      BY <1>9, <1>12
    <3> QED
      BY <1>3, <1>4, <3>1
  <2>2. ASSUME NEW o \in new PROVE q.ev[o].dup <= Cardinality(old \cup new)
    BY <1>7, <1>8, <1>12
  <2> QED
    BY <2>1, <2>2
<1>15. \A o \in old \cup new : Coherent(q.ev[o])
  BY <1>8, <1>9, <1>12 DEF SoundPage
<1>16. old \cup new = EvidenceOf(pg) \cup os
  OBVIOUS
<1> QED
  BY <1>1, <1>8, <1>9, <1>11, <1>12, <1>13, <1>14, <1>15, <1>16

(* Records a page becomes when some of its fields are replaced.            *)
LEMMA ReplacedFields ==
  ASSUME NEW pg \in PageRecord, NEW state, NEW ev
  PROVE  /\ [pg EXCEPT !.state = state] = [state |-> state, selected |-> pg.selected, ev |-> pg.ev]
         /\ [pg EXCEPT !.ev = ev] = [state |-> pg.state, selected |-> pg.selected, ev |-> ev]
<1>1. [pg EXCEPT !.state = state] = [state |-> state, selected |-> pg.selected, ev |-> pg.ev]
  BY DEF PageRecord
<1>2. [pg EXCEPT !.ev = ev] = [state |-> pg.state, selected |-> pg.selected, ev |-> ev]
  BY DEF PageRecord
<1> QED
  BY <1>1, <1>2

LEMMA ReplacedSelection ==
  ASSUME NEW pg \in PageRecord, NEW o
  PROVE  [pg EXCEPT !.state = "present", !.selected = o, !.ev[o].role = "selected"]
         = [state |-> "present", selected |-> o, ev |-> [pg.ev EXCEPT ![o].role = "selected"]]
<1> DEFINE f == [pg EXCEPT !.state = "present", !.selected = o, !.ev[o].role = "selected"]
           ev == [pg.ev EXCEPT ![o].role = "selected"]
           value(x) == IF x = "ev" THEN ev ELSE IF x = "state" THEN "present" ELSE o
<1>1. DOMAIN pg = {"state", "selected", "ev"}
  BY DEF PageRecord
<1>2. f = [x \in DOMAIN pg |->
             IF x = "ev" THEN ev ELSE IF x = "selected" THEN o ELSE IF x = "state" THEN "present" ELSE pg[x]]
  BY Zenon
<1> HIDE DEF ev
<1>3. f = [x \in {"state", "selected", "ev"} |-> value(x)]
  <2> HIDE DEF f
  <2> QED
    BY <1>1, <1>2
<1>4. [state |-> "present", selected |-> o, ev |-> ev] = [x \in {"state", "selected", "ev"} |-> value(x)]
  OBVIOUS
<1> QED
  BY <1>3, <1>4 DEF ev

(* A page that gained scans: sound again, and what was decided stands.      *)
Gained(pg, os, q) ==
  /\ q \in PageRecord /\ SoundPage(q) /\ EvidenceOf(q) = EvidenceOf(pg) \cup os
  /\ \A o \in EvidenceOf(pg) : /\ q.ev[o].state = pg.ev[o].state
                               /\ q.ev[o].dup = pg.ev[o].dup
                               /\ q.ev[o].kept = pg.ev[o].kept
  /\ pg.selected # None => q.selected = pg.selected
  /\ pg.state \in {"excluded", "needs_rescan"} => q = [pg EXCEPT !.ev = q.ev]

LEMMA SettledSound ==
  ASSUME NEW pg \in PageRecord, SoundPage(pg), NEW os \in SUBSET Obs, ~ (os \subseteq EvidenceOf(pg))
  PROVE  Gained(pg, os, Settled(WithEvidence(pg, os)))
<1> DEFINE w == WithEvidence(pg, os)
           q == Settled(w)
           old == EvidenceOf(pg)
           all == EvidenceOf(w)
<1>1. /\ w \in PageRecord /\ all = old \cup os /\ w.state = pg.state /\ w.selected = pg.selected
      /\ \A o \in old : w.ev[o] = pg.ev[o]
      /\ \A o \in os \ old : w.ev[o].role = "candidate" /\ w.ev[o].kept = NotKept
      /\ Numbered(w) /\ \A o \in all : Coherent(w.ev[o]) /\ w.ev[o].dup <= Cardinality(all)
  BY JoinSound
<1> HIDE DEF w, q
<1> SUFFICES Gained(pg, os, q)
  BY DEF w, q
<1>2. SelectedRoles(w) = SelectedRoles(pg)
  BY <1>1 DEF SelectedRoles
<1>3. SelectedRoles(w) = IF w.selected = None THEN {} ELSE {w.selected}
  BY <1>1, <1>2 DEF SoundPage, ValidPage
<1>4. /\ all \in SUBSET Obs /\ all # {} /\ w.ev \in [all -> Evidence] /\ w.selected \in Obs \cup {None}
      /\ Cardinality(all) \in Nat /\ Cardinality(all) # 0
  <2>1. all \in SUBSET Obs /\ all # {} /\ w.ev \in [all -> Evidence] /\ w.selected \in Obs \cup {None}
    BY <1>1, PageFields
  <2> QED
    BY <2>1, ScansFinite, AtMostOne
<1>5. CASE pg.state \in {"needs_rescan", "excluded"}
  <2>1. q = w
    BY <1>1, <1>5 DEF Settled, q
  <2>2. w = [pg EXCEPT !.ev = w.ev]
    <3>1. w = [state |-> w.state, selected |-> w.selected, ev |-> w.ev]
      BY <1>1, PageFields
    <3>2. [pg EXCEPT !.ev = w.ev] = [state |-> pg.state, selected |-> pg.selected, ev |-> w.ev]
      BY DEF PageRecord
    <3> QED
      BY <1>1, <3>1, <3>2
  <2>3. ValidPage(w)
    BY <1>1, <1>3, <1>5 DEF ValidPage
  <2>4. SoundPage(w)
    <3>1. ASSUME w.state = "excluded"
          PROVE  /\ w.selected = None
                 /\ \A o, x \in all :
                      w.ev[o].kept.role = "selected" /\ w.ev[x].kept.role = "selected" => o = x
      <4>1. \A o \in all : w.ev[o].kept.role = "selected" => o \in old
        BY <1>1 DEF NotKept
      <4>2. /\ pg.selected = None
            /\ \A o, x \in old :
                 pg.ev[o].kept.role = "selected" /\ pg.ev[x].kept.role = "selected" => o = x
        BY <1>1, <3>1 DEF SoundPage
      <4> QED
        BY <1>1, <4>1, <4>2
    <3> QED
      BY <1>1, <2>3, <3>1 DEF SoundPage
  <2> QED
    BY <1>1, <2>1, <2>2, <2>4 DEF Gained
<1>6. CASE pg.state \notin {"needs_rescan", "excluded"} /\ (Cardinality(all) > 1 \/ w.selected # None)
  <2> DEFINE st == IF Cardinality(all) > 1 THEN "duplicate" ELSE "present"
             v == [state |-> st, selected |-> w.selected, ev |-> w.ev]
  <2>1. q = v
    <3>1. q = [w EXCEPT !.state = st]
      BY <1>1, <1>6 DEF Settled, q
    <3> HIDE DEF st
    <3> QED
      BY <1>1, <3>1, ReplacedFields
  <2>2. v \in PageRecord /\ EvidenceOf(v) = all
    <3>1. st \in PageState
      BY DEF PageState
    <3> HIDE DEF st
    <3> QED
      BY <1>4, <3>1, MakePage
  <2>3. v.state = st /\ v.selected = w.selected /\ v.ev = w.ev
    OBVIOUS
  <2>4. st = "duplicate" => Cardinality(all) >= 2
    BY <1>4
  <2>5. st \in {"present", "duplicate"}
    OBVIOUS
  <2> HIDE DEF v, st
  <2>6. SelectedRoles(v) = SelectedRoles(w)
    BY <2>2, <2>3 DEF SelectedRoles
  <2>7. ValidPage(v)
    BY <1>3, <1>4, <2>2, <2>3, <2>4, <2>5, <2>6 DEF ValidPage
  <2>8. SoundPage(v)
    <3>1. Numbered(v)
      BY <1>1, <2>2, <2>3 DEF Numbered
    <3>2. \A o \in all : Coherent(v.ev[o]) /\ v.ev[o].dup <= Cardinality(all)
      BY <1>1, <2>3
    <3> QED
      BY <2>2, <2>3, <2>5, <2>7, <3>1, <3>2 DEF SoundPage
  <2> QED
    BY <1>1, <1>6, <2>1, <2>2, <2>3, <2>8 DEF Gained
<1>7. CASE pg.state \notin {"needs_rescan", "excluded"} /\ ~ (Cardinality(all) > 1) /\ w.selected = None
  <2> DEFINE only == CHOOSE o \in all : TRUE
             ev == [w.ev EXCEPT ![only].role = "selected"]
             v == [state |-> "present", selected |-> only, ev |-> ev]
  <2>1. q = v
    <3>1. q = [w EXCEPT !.state = "present", !.selected = only, !.ev[only].role = "selected"]
      BY <1>1, <1>7 DEF Settled, q
    <3> HIDE DEF only
    <3> QED
      BY <1>1, <3>1, ReplacedSelection
  <2>2. only \in all
    BY <1>4
  <2> HIDE DEF only
  <2>3. all = {only} /\ only \in Obs /\ only # None /\ Cardinality(all) = 1
    <3>1. Cardinality(all) = 1
      BY <1>4, <1>7
    <3>2. PICK o \in Obs : all = {o}
      BY <1>4, <3>1, AtMostOne
    <3> QED
      BY <1>4, <2>2, <3>1, <3>2 DEF Obs, None
  <2>4. old = {}
    BY <1>1, <2>3
  <2>5. /\ ev \in [all -> Evidence] /\ ev[only].role = "selected" /\ ev[only].dup = w.ev[only].dup
        /\ Coherent(ev[only])
    <3>1. w.ev[only] \in Evidence /\ "selected" \in Role
      BY <1>4, <2>2 DEF Role
    <3>2. [w.ev[only] EXCEPT !.role = "selected"] \in Evidence
      BY <3>1 DEF Evidence
    <3>3. /\ [w.ev[only] EXCEPT !.role = "selected"].role = "selected"
          /\ [w.ev[only] EXCEPT !.role = "selected"].dup = w.ev[only].dup
          /\ Coherent([w.ev[only] EXCEPT !.role = "selected"])
      BY <1>1, <2>2, <3>1 DEF Evidence, Coherent
    <3>4. ev = [w.ev EXCEPT ![only] = [w.ev[only] EXCEPT !.role = "selected"]]
      BY Zenon
    <3> HIDE DEF ev
    <3> DEFINE new == [w.ev[only] EXCEPT !.role = "selected"]
    <3> HIDE DEF new
    <3>5. /\ ev = [w.ev EXCEPT ![only] = new] /\ new \in Evidence /\ Coherent(new)
          /\ new.role = "selected" /\ new.dup = w.ev[only].dup
      BY <3>2, <3>3, <3>4 DEF new
    <3> QED
      BY <1>4, <2>2, <3>5
  <2> HIDE DEF ev
  <2>6. v \in PageRecord /\ EvidenceOf(v) = all
    BY <1>4, <2>3, <2>5, MakePage DEF PageState
  <2>7. v.state = "present" /\ v.selected = only /\ v.ev = ev
    OBVIOUS
  <2> HIDE DEF v
  <2>8. SelectedRoles(v) = {only}
    BY <2>3, <2>5, <2>6, <2>7 DEF SelectedRoles
  <2>9. ValidPage(v)
    BY <2>3, <2>6, <2>7, <2>8 DEF ValidPage
  <2>10. SoundPage(v)
    BY <1>1, <2>2, <2>3, <2>5, <2>6, <2>7, <2>9 DEF SoundPage, Numbered
  <2> QED
    BY <1>1, <1>7, <2>1, <2>4, <2>6, <2>10 DEF Gained
<1> QED
  BY <1>5, <1>6, <1>7

-----------------------------------------------------------------------------
(* Manifests.                                                              *)

Scan == [page : Page, issuance : Issuance]

LEMMA ManifestFields ==
  ASSUME NEW m \in Manifest
  PROVE  /\ m.kind \in {"none", "plain", "digital"} /\ m.issuance \in Issuance \cup {None}
         /\ m.page \in [Page -> PageRecord]
         /\ m = [kind |-> m.kind, issuance |-> m.issuance, page |-> m.page]
BY DEF Manifest

(* A manifest with one page replaced.                                      *)
LEMMA ReplacedPage ==
  ASSUME NEW m \in Manifest, NEW p \in Page, NEW q \in PageRecord
  PROVE  LET n == [m EXCEPT !.page[p] = q] IN
         /\ n \in Manifest /\ n.kind = m.kind /\ n.issuance = m.issuance
         /\ \A x \in Page : n.page[x] = IF x = p THEN q ELSE m.page[x]
<1> DEFINE page == [m.page EXCEPT ![p] = q]
           value(x) == IF x = "page" THEN page ELSE m[x]
           n == [m EXCEPT !.page[p] = q]
           r == [kind |-> m.kind, issuance |-> m.issuance, page |-> page]
<1>1. DOMAIN m = {"kind", "issuance", "page"}
  BY DEF Manifest
<1>2. n = [x \in DOMAIN m |-> value(x)]
  BY Zenon
<1>3. page \in [Page -> PageRecord] /\ \A x \in Page : page[x] = IF x = p THEN q ELSE m.page[x]
  BY ManifestFields
<1> HIDE DEF page
<1>4. r = [x \in {"kind", "issuance", "page"} |-> value(x)]
  OBVIOUS
<1>5. r \in Manifest /\ r.kind = m.kind /\ r.issuance = m.issuance /\ r.page = page
  BY <1>3, ManifestFields DEF Manifest
<1>6. n = r
  <2> HIDE DEF n, r
  <2> QED
    BY <1>1, <1>2, <1>4
<1> HIDE DEF n, r
<1>7. n \in Manifest /\ n.kind = m.kind /\ n.issuance = m.issuance
      /\ \A x \in Page : n.page[x] = IF x = p THEN q ELSE m.page[x]
  BY <1>3, <1>5, <1>6
<1> QED
  BY <1>7 DEF n

(* A manifest that is sound is valid, and stays sound when scans join.      *)
LEMMA SoundIsValid ==
  ASSUME NEW m, Sound(m, observed)
  PROVE  Valid(m) /\ \A p \in Page : Numbered(m.page[p])
<1>1. CASE m.kind = "digital"
  BY <1>1 DEF Sound, Belongs, SoundPage, Valid
<1>2. CASE m.kind # "digital"
  BY <1>2, EmptySound DEF Sound, SoundPage, Valid
<1> QED
  BY <1>1, <1>2

LEMMA SoundGrows ==
  ASSUME NEW m, NEW scans, NEW later, Sound(m, scans),
         \A o \in Obs : scans[o] # Unobserved => later[o] = scans[o]
  PROVE  Sound(m, later)
<1>1. ASSUME m.kind = "digital" PROVE Belongs(m, later)
  <2> SUFFICES ASSUME NEW p \in Page, NEW o \in EvidenceOf(m.page[p])
               PROVE  later[o] = [page |-> p, issuance |-> m.issuance]
    BY DEF Belongs
  <2>1. scans[o] = [page |-> p, issuance |-> m.issuance]
    BY <1>1 DEF Sound, Belongs
  <2>2. o \in Obs
    BY ManifestFields, PageFields DEF Sound
  <2>3. p # None
    BY DEF Page, None
  <2>4. scans[o] # Unobserved
    BY <2>1, <2>3 DEF Unobserved
  <2> QED
    BY <2>1, <2>2, <2>4
<1> QED
  BY <1>1 DEF Sound

LEMMA NoManifestSound ==
  ASSUME NEW scans
  PROVE  /\ Sound(NoManifest, scans) /\ Sound(PlainManifest, scans)
         /\ NoManifest.kind = "none" /\ PlainManifest.kind = "plain"
<1> DEFINE pages == [p \in Page |-> EmptyPage]
<1>1. pages \in [Page -> PageRecord] /\ \A p \in Page : pages[p] = EmptyPage
  BY EmptySound
<1>2. NoManifest = [kind |-> "none", issuance |-> None, page |-> pages]
  BY DEF NoManifest
<1>3. PlainManifest = [kind |-> "plain", issuance |-> None, page |-> pages]
  BY DEF NoManifest, PlainManifest
<1> HIDE DEF pages
<1>4. /\ [kind |-> "none", issuance |-> None, page |-> pages] \in Manifest
      /\ [kind |-> "plain", issuance |-> None, page |-> pages] \in Manifest
  BY <1>1 DEF Manifest
<1> QED
  BY <1>1, <1>2, <1>3, <1>4 DEF Sound

(* Scans of one issuance: what their manifest's issuance is.               *)
LEMMA OneIssuance ==
  ASSUME NEW os \in SUBSET Obs, os # {}, \A o \in os : observed[o] \in Scan,
         Cardinality(IssuancesOf(os)) = 1
  PROVE  /\ observed[Min(os)].issuance \in Issuance
         /\ IssuancesOf(os) = {observed[Min(os)].issuance}
<1>1. IssuancesOf(os) \in SUBSET Issuance
  BY DEF IssuancesOf, Scan
<1>2. IsFiniteSet(Issuance)
  BY FS_Interval, SubmissionAssumption DEF Issuance
<1>3. IsFiniteSet(IssuancesOf(os))
  BY <1>1, <1>2, FS_Subset
<1>4. PICK i : IssuancesOf(os) = {i}
  BY <1>3, FS_Singleton
<1>5. Min(os) \in os
  <2>1. os \in SUBSET Nat
    BY DEF Obs
  <2> QED
    BY <2>1, HasLeast
<1>6. observed[Min(os)].issuance \in IssuancesOf(os)
  BY <1>5 DEF IssuancesOf
<1> QED
  BY <1>1, <1>4, <1>6

(* Assembling gives a sound manifest, in which a page either stays or gains *)
(* scans.                                                                  *)
LEMMA MergedSound ==
  ASSUME NEW m, Sound(m, observed), NEW os \in SUBSET Obs, os # {},
         \A o \in os : observed[o] \in Scan, ~ Conflict(m, os)
  PROVE  /\ Sound(Merged(m, os), observed)
         /\ \A p \in Page :
              LET new == Merged(m, os).page[p]
              IN m.page[p] = EmptyPage \/ new = m.page[p] \/ Gained(m.page[p], OnPage(os, p), new)
<1> DEFINE i == observed[Min(os)].issuance
           part(p) == OnPage(os, p)
           new(p) == IF m.kind = "none" THEN NewPage(part(p))
                     ELSE IF part(p) \subseteq EvidenceOf(m.page[p]) THEN m.page[p]
                     ELSE Settled(WithEvidence(m.page[p], part(p)))
           pages == [p \in Page |-> new(p)]
           n == [kind |-> "digital", issuance |-> i, page |-> pages]
<1>1. Merged(m, os) = n
  BY DEF Merged
<1>2. i \in Issuance /\ IssuancesOf(os) = {i}
  BY OneIssuance DEF Conflict
<1>3. m \in Manifest /\ m.kind \in {"none", "digital"} /\ (m.kind = "digital" => m.issuance = i)
  BY <1>2, ManifestFields DEF Sound, Conflict
<1>4. \A p \in Page : part(p) \in SUBSET Obs /\ \A o \in part(p) : observed[o] = [page |-> p, issuance |-> i]
  <2> SUFFICES ASSUME NEW p \in Page, NEW o \in part(p)
               PROVE  observed[o] = [page |-> p, issuance |-> i]
    BY DEF OnPage
  <2>1. o \in os /\ observed[o].page = p
    BY DEF OnPage
  <2>2. observed[o].issuance = i
    <3>1. observed[o].issuance \in IssuancesOf(os)
      BY <2>1 DEF IssuancesOf
    <3> QED
      BY <1>2, <3>1
  <2>3. observed[o] = [page |-> observed[o].page, issuance |-> observed[o].issuance]
    BY <2>1 DEF Scan
  <2> QED
    BY <2>1, <2>2, <2>3
<1> HIDE DEF i, part
<1>5. ASSUME NEW p \in Page
      PROVE  /\ new(p) \in PageRecord /\ SoundPage(new(p))
             /\ \A o \in EvidenceOf(new(p)) : observed[o] = [page |-> p, issuance |-> i]
             /\ m.page[p] = EmptyPage \/ new(p) = m.page[p] \/ Gained(m.page[p], part(p), new(p))
  <2>1. CASE m.kind = "none"
    <3>1. /\ new(p) \in PageRecord /\ SoundPage(new(p)) /\ EvidenceOf(new(p)) = part(p)
      BY <1>4, <2>1, NewSound
    <3> QED
      BY <1>4, <2>1, <3>1 DEF Sound
  <2>2. CASE m.kind = "digital"
    <3>1. /\ m.page[p] \in PageRecord /\ SoundPage(m.page[p])
          /\ \A o \in EvidenceOf(m.page[p]) : observed[o] = [page |-> p, issuance |-> i]
      BY <1>3, <2>2, ManifestFields DEF Sound, Belongs
    <3>2. CASE part(p) \subseteq EvidenceOf(m.page[p])
      BY <2>2, <3>1, <3>2
    <3>3. CASE ~ (part(p) \subseteq EvidenceOf(m.page[p]))
      <4>1. new(p) = Settled(WithEvidence(m.page[p], part(p)))
        BY <2>2, <3>3
      <4>2. Gained(m.page[p], part(p), new(p))
        BY <1>4, <3>1, <3>3, <4>1, SettledSound
      <4> HIDE DEF new
      <4>3. /\ new(p) \in PageRecord /\ SoundPage(new(p))
            /\ EvidenceOf(new(p)) = EvidenceOf(m.page[p]) \cup part(p)
        BY <4>2 DEF Gained
      <4> QED
        BY <1>4, <3>1, <4>2, <4>3
    <3> QED
      BY <3>2, <3>3
  <2> QED
    BY <1>3, <2>1, <2>2
<1> HIDE DEF new
<1>6. pages \in [Page -> PageRecord] /\ \A p \in Page : pages[p] = new(p)
  BY <1>5
<1> HIDE DEF pages
<1>7. n \in Manifest /\ n.kind = "digital" /\ n.issuance = i /\ n.page = pages
  BY <1>2, <1>6 DEF Manifest
<1> HIDE DEF n
<1>8. Sound(n, observed)
  BY <1>2, <1>5, <1>6, <1>7 DEF Sound, Belongs
<1>9. \A p \in Page :
        m.page[p] = EmptyPage \/ n.page[p] = m.page[p] \/ Gained(m.page[p], OnPage(os, p), n.page[p])
  BY <1>5, <1>6, <1>7 DEF part
<1> QED
  BY <1>1, <1>8, <1>9

LEMMA DecidedSound ==
  ASSUME NEW op \in PageOps \cup EvidenceOps, NEW pg \in PageRecord, SoundPage(pg), NEW e, NEW os,
         Permitted(op, pg, e, os)
  PROVE  /\ Decided(op, pg, e) \in PageRecord /\ SoundPage(Decided(op, pg, e))
         /\ EvidenceOf(Decided(op, pg, e)) = EvidenceOf(pg)
         /\ ~ Canceled(op, pg)
<1>1. CASE op = "exclude"
  BY <1>1, ExcludeSound DEF Decided, Canceled
<1>2. CASE op = "restore"
  <2>1. pg.state = "excluded"
    BY <1>2 DEF Permitted
  <2> QED
    BY <1>2, <2>1, RestoreSound DEF Decided
<1>3. CASE op = "rescan"
  BY <1>3, RescanSound DEF Decided, Canceled
<1>4. CASE op \in EvidenceOps
  <2>1. ActiveCandidate(pg, e)
    BY <1>4 DEF Permitted, EvidenceOps
  <2>2. CASE op = "select"
    BY <2>1, <2>2, SelectSound DEF Decided, Canceled
  <2>3. CASE op = "dismiss"
    BY <2>1, <2>3, DismissSound DEF Decided, Canceled
  <2> QED
    BY <1>4, <2>2, <2>3 DEF EvidenceOps
<1> QED
  BY <1>1, <1>2, <1>3, <1>4 DEF PageOps

-----------------------------------------------------------------------------
(* The inductive invariant: a session that will write accepted a sound      *)
(* manifest, the present one if nobody wrote since, and observations that   *)
(* are persisted.                                                          *)

Types ==
  /\ observed \in [Obs -> {Unobserved} \cup Scan]
  /\ issued \in Issuance
  /\ pc \in [Session -> {"idle", "load", "authorize", "save"}]
  /\ job \in [Session -> Job]
  /\ listed \in [Session -> SUBSET Obs]
  /\ seen \in [Session -> Manifest]
  /\ fresh \in [Session -> BOOLEAN]

Listed(s) ==
  IF pc[s] = "idle" THEN listed[s] = {}
  ELSE job[s].op \notin PageOps =>
         listed[s] # {} /\ \A o \in listed[s] : observed[o] \in Scan

\* Accepted, of the scans that are persisted.
AcceptedOf(j, m, os, scans) ==
  LET issuances == {scans[o].issuance : o \in os}
  IN /\ j.op # "inbox"
     /\ j.op = "assemble" => /\ m.kind # "plain" /\ Cardinality(issuances) = 1
                             /\ m.kind = "digital" => m.issuance \in issuances
     /\ j.op # "assemble" => m.kind = "digital" /\ Permitted(j.op, m.page[j.page], j.ev, os)

Reader(s) ==
  pc[s] \in {"authorize", "save"} =>
    /\ Sound(seen[s], observed) /\ AcceptedOf(job[s], seen[s], listed[s], observed)
    /\ fresh[s] => seen[s] = manifest

IInv ==
  /\ Types /\ Sound(manifest, observed)
  /\ \A s \in Session : Listed(s) /\ Reader(s)

LEMMA AcceptedIs ==
  ASSUME NEW j, NEW m, NEW os
  PROVE  Accepted(j, m, os) <=> AcceptedOf(j, m, os, observed)
BY DEF Accepted, AcceptedOf, Conflict, IssuancesOf

(* What was accepted stays acceptable while scans join.                    *)
LEMMA AcceptedStands ==
  ASSUME NEW j, NEW m, NEW os, NEW scans, NEW later, AcceptedOf(j, m, os, scans),
         j.op = "assemble" => \A o \in os : later[o] = scans[o]
  PROVE  AcceptedOf(j, m, os, later)
<1>1. j.op = "assemble" => {scans[o].issuance : o \in os} = {later[o].issuance : o \in os}
  OBVIOUS
<1> QED
  BY <1>1 DEF AcceptedOf

(* Deciding about a page as such compares no scans.                        *)
LEMMA AcceptedAnyway ==
  ASSUME NEW j, NEW m, NEW os, NEW other, NEW scans, j.op \in PageOps, AcceptedOf(j, m, os, scans)
  PROVE  AcceptedOf(j, m, other, scans)
BY DEF AcceptedOf, PageOps, Permitted

LEMMA JobFields ==
  ASSUME NEW j \in Job
  PROVE  /\ j.op \in {"assemble", "inbox"} \cup PageOps \cup EvidenceOps
         /\ j.op \in PageOps \cup EvidenceOps => j.page \in Page
BY DEF Job, PageOps, EvidenceOps

LEMMA NoJobIsOne == NoJob \in Job
BY DEF NoJob, Job

LEMMA Scanned == Unobserved \notin Scan
BY DEF Unobserved, Scan, Page, None

(* What a session that is about to write computes.                         *)
LEMMA OutcomeSound ==
  ASSUME IInv, NEW s \in Session, pc[s] = "save"
  PROVE  Sound(Outcome(s), observed) /\ ~ LockedOut(s)
<1> DEFINE j == job[s]
           m == seen[s]
<1>1. /\ m \in Manifest /\ j \in Job /\ listed[s] \in SUBSET Obs
      /\ Sound(m, observed) /\ Accepted(j, m, listed[s])
      /\ j.op \notin PageOps => listed[s] # {} /\ \A o \in listed[s] : observed[o] \in Scan
  BY AcceptedIs DEF IInv, Types, Reader, Listed
<1>2. j.op # "inbox"
  BY <1>1 DEF Accepted
<1>3. CASE j.op = "assemble"
  <2>1. ~ Conflict(m, listed[s]) /\ j.op \notin PageOps
    BY <1>1, <1>3 DEF Accepted, PageOps
  <2>2. Sound(Merged(m, listed[s]), observed)
    BY <1>1, <2>1, MergedSound
  <2>3. Outcome(s) = Merged(m, listed[s])
    BY <1>3 DEF Outcome
  <2>4. ~ Canceled(j.op, m.page[j.page])
    BY <1>3 DEF Canceled
  <2> QED
    BY <2>2, <2>3, <2>4, SoundIsValid DEF LockedOut
<1>4. CASE j.op # "assemble"
  <2>1. j.op \in PageOps \cup EvidenceOps /\ j.page \in Page
    BY <1>1, <1>2, <1>4, JobFields
  <2>2. m.kind = "digital" /\ Permitted(j.op, m.page[j.page], j.ev, listed[s])
    BY <1>1, <1>4 DEF Accepted
  <2> DEFINE pg == m.page[j.page]
             q == Decided(j.op, pg, j.ev)
  <2>3. pg \in PageRecord /\ SoundPage(pg)
    BY <1>1, <2>1, <2>2, ManifestFields DEF Sound
  <2>4. q \in PageRecord /\ SoundPage(q) /\ EvidenceOf(q) = EvidenceOf(pg) /\ ~ Canceled(j.op, pg)
    BY <2>1, <2>2, <2>3, DecidedSound
  <2> DEFINE n == [m EXCEPT !.page[j.page] = q]
  <2>5. Outcome(s) = n
    BY <1>4 DEF Outcome
  <2> HIDE DEF q
  <2>6. /\ n \in Manifest /\ n.kind = m.kind /\ n.issuance = m.issuance
        /\ \A x \in Page : n.page[x] = IF x = j.page THEN q ELSE m.page[x]
    BY <1>1, <2>1, <2>4, ReplacedPage
  <2> HIDE DEF n
  <2>7. Sound(n, observed)
    BY <1>1, <2>2, <2>4, <2>6 DEF Sound, Belongs
  <2> QED
    BY <2>4, <2>5, <2>7, SoundIsValid DEF LockedOut
<1> QED
  BY <1>3, <1>4

LEMMA InitInv == Init => IInv
<1> SUFFICES ASSUME Init PROVE IInv
  OBVIOUS
<1>1. Types
  <2>1. NoManifest \in Manifest /\ NoJob \in Job /\ 1 \in Issuance
    BY NoManifestSound, NoJobIsOne, SubmissionAssumption DEF Sound, Issuance
  <2> QED
    BY <2>1 DEF Init, Types
<1>2. Sound(manifest, observed)
  BY NoManifestSound DEF Init
<1>3. \A s \in Session : Listed(s) /\ Reader(s)
  BY DEF Init, Listed, Reader
<1> QED
  BY <1>1, <1>2, <1>3 DEF IInv

LEMMA StepInv == IInv /\ [Next]_vars => IInv'
<1> SUFFICES ASSUME IInv, [Next]_vars PROVE IInv'
  OBVIOUS
<1> USE DEF IInv
<1>1. ASSUME NEW o \in Obs, NEW p \in Page, Observe(o, p) PROVE IInv'
  <2>1. observed' \in [Obs -> {Unobserved} \cup Scan]
    BY <1>1 DEF Observe, Types, Scan
  <2>2. \A x \in Obs : observed[x] # Unobserved => observed'[x] = observed[x]
    BY <1>1 DEF Observe, Types
  <2>3. ASSUME NEW m, Sound(m, observed) PROVE Sound(m, observed')
    BY <2>2, <2>3, SoundGrows
  <2>4. Types'
    BY <1>1, <2>1 DEF Observe, Types, session
  <2>5. Sound(manifest, observed)'
    BY <1>1, <2>3 DEF Observe
  <2>6. ASSUME NEW s \in Session PROVE Listed(s)' /\ Reader(s)'
    <3>1. \A x \in listed[s] : observed[x] \in Scan => observed'[x] \in Scan
      BY <2>2, Scanned DEF Types
    <3>2. Listed(s) /\ Reader(s)
      OBVIOUS
    <3>3. Listed(s)'
      BY <1>1, <3>1, <3>2 DEF Observe, session, Listed
    <3>4. ASSUME pc[s] \in {"authorize", "save"}
          PROVE  AcceptedOf(job[s], seen[s], listed[s], observed')
      <4>1. AcceptedOf(job[s], seen[s], listed[s], observed)
        BY <3>2, <3>4 DEF Reader
      <4>2. job[s].op = "assemble" => \A x \in listed[s] : observed'[x] = observed[x]
        BY <2>2, <3>2, <3>4, Scanned DEF Types, Listed, PageOps
      <4> QED
        BY <4>1, <4>2, AcceptedStands
    <3>5. Reader(s)'
      BY <1>1, <2>3, <3>2, <3>4 DEF Observe, session, Reader
    <3> QED
      BY <3>3, <3>5
  <2> QED
    BY <2>4, <2>5, <2>6
<1>2. CASE Supersede
  <2>1. issued' \in Issuance
    BY <1>2, SubmissionAssumption DEF Supersede, Types, Issuance
  <2> QED
    BY <1>2, <2>1 DEF Supersede, session, Types, Listed, Reader
<1>3. CASE PlainPaperStep
  <2>1. Sound(manifest, observed)'
    BY <1>3, NoManifestSound DEF PlainPaperStep
  <2>2. fresh' = [s \in Session |-> FALSE] /\ UNCHANGED <<observed, issued, pc, job, listed, seen>>
    BY <1>3 DEF PlainPaperStep
  <2>3. Types'
    BY <2>2 DEF Types
  <2> QED
    BY <2>1, <2>2, <2>3 DEF Listed, Reader
<1>4. ASSUME NEW s \in Session, NEW j \in Job, List(s, j) PROVE IInv'
  <2> DEFINE os == {o \in Obs : observed[o] # Unobserved}
  <2>1. /\ pc[s] = "idle" /\ j.op \notin PageOps /\ os # {}
        /\ job' = [job EXCEPT ![s] = j] /\ listed' = [listed EXCEPT ![s] = os]
        /\ pc' = [pc EXCEPT ![s] = "load"]
        /\ UNCHANGED <<observed, issued, manifest, seen, fresh>>
    BY <1>4 DEF List, Go
  <2>2. \A o \in os : observed[o] \in Scan
    BY DEF Types
  <2> HIDE DEF os
  <2>3. Types'
    BY <2>1 DEF Types, os
  <2>4. Listed(s)' /\ Reader(s)'
    BY <2>1, <2>2 DEF Types, Listed, Reader
  <2>5. ASSUME NEW t \in Session, t # s PROVE Listed(t)' /\ Reader(t)'
    BY <2>1, <2>5 DEF Types, Listed, Reader
  <2> QED
    BY <2>1, <2>3, <2>4, <2>5
<1>5. ASSUME NEW s \in Session, NEW j \in Job, LoadPage(s, j) PROVE IInv'
  <2>1. /\ pc[s] = "idle" /\ j.op \in PageOps /\ Accepted(j, manifest, {})
        /\ job' = [job EXCEPT ![s] = j] /\ pc' = [pc EXCEPT ![s] = "save"]
        /\ seen' = [seen EXCEPT ![s] = manifest] /\ fresh' = [fresh EXCEPT ![s] = TRUE]
        /\ UNCHANGED <<observed, issued, manifest, listed>>
    BY <1>5 DEF LoadPage, Read, Go
  <2>2. listed[s] = {} /\ manifest \in Manifest /\ AcceptedOf(j, manifest, {}, observed)
    BY <2>1, AcceptedIs DEF Listed, Sound
  <2>3. Types'
    BY <2>1, <2>2 DEF Types
  <2>4. Listed(s)' /\ Reader(s)'
    BY <2>1, <2>2 DEF Types, Listed, Reader
  <2>5. ASSUME NEW t \in Session, t # s PROVE Listed(t)' /\ Reader(t)'
    BY <2>1, <2>5 DEF Types, Listed, Reader
  <2> QED
    BY <2>1, <2>3, <2>4, <2>5
<1>6. ASSUME NEW s \in Session, End(s), manifest' = manifest, observed' = observed, issued' = issued,
             fresh' \in [Session -> BOOLEAN], \A t \in Session \ {s} : fresh'[t] = fresh[t]
      PROVE  IInv'
  <2>1. Types'
    BY <1>6, NoJobIsOne, NoManifestSound DEF Types, End, Go, Sound
  <2>2. Listed(s)' /\ Reader(s)'
    BY <1>6 DEF Types, Listed, Reader, End, Go
  <2>3. ASSUME NEW t \in Session, t # s PROVE Listed(t)' /\ Reader(t)'
    BY <1>6, <2>3 DEF Types, Listed, Reader, End, Go
  <2> QED
    BY <1>6, <2>1, <2>2, <2>3
<1>7. ASSUME NEW s \in Session, Load(s) PROVE IInv'
  <2>1. CASE Accepted(job[s], manifest, listed[s])
    <3> DEFINE next == IF job[s].op = "assemble" THEN "authorize" ELSE "save"
    <3>1. /\ pc[s] = "load" /\ pc' = [pc EXCEPT ![s] = next]
          /\ seen' = [seen EXCEPT ![s] = manifest] /\ fresh' = [fresh EXCEPT ![s] = TRUE]
          /\ UNCHANGED <<observed, issued, manifest, listed, job>>
      BY <1>7, <2>1 DEF Load, Read, Go
    <3>2. /\ next \in {"authorize", "save"} /\ manifest \in Manifest
          /\ AcceptedOf(job[s], manifest, listed[s], observed)
      BY <2>1, AcceptedIs DEF Sound
    <3> HIDE DEF next
    <3>3. Types'
      BY <3>1, <3>2 DEF Types
    <3>4. Listed(s)' /\ Reader(s)'
      BY <2>1, <3>1, <3>2 DEF Types, Listed, Reader
    <3>5. ASSUME NEW t \in Session, t # s PROVE Listed(t)' /\ Reader(t)'
      BY <3>1, <3>5 DEF Types, Listed, Reader
    <3> QED
      BY <3>1, <3>3, <3>4, <3>5
  <2>2. CASE ~ Accepted(job[s], manifest, listed[s])
    <3>1. End(s) /\ UNCHANGED <<observed, issued, manifest, fresh>>
      BY <1>7, <2>2 DEF Load
    <3> QED
      BY <1>6, <3>1 DEF Types
  <2> QED
    BY <2>1, <2>2
<1>8. ASSUME NEW s \in Session, Authorize(s) PROVE IInv'
  <2>1. CASE IssuancesOf(listed[s]) = {issued}
    <3>1. /\ pc[s] = "authorize" /\ pc' = [pc EXCEPT ![s] = "save"]
          /\ UNCHANGED <<job, listed, seen, fresh, observed, issued, manifest>>
      BY <1>8, <2>1 DEF Authorize, Go
    <3>2. Types'
      BY <3>1 DEF Types
    <3>3. \A t \in Session : Listed(t)' /\ Reader(t)'
      BY <3>1 DEF Types, Listed, Reader
    <3> QED
      BY <3>1, <3>2, <3>3
  <2>2. CASE IssuancesOf(listed[s]) # {issued}
    <3>1. End(s) /\ fresh' = [fresh EXCEPT ![s] = FALSE] /\ UNCHANGED <<observed, issued, manifest>>
      BY <1>8, <2>2 DEF Authorize
    <3> QED
      BY <1>6, <3>1 DEF Types
  <2> QED
    BY <2>1, <2>2
<1>9. ASSUME NEW s \in Session, Save(s) PROVE IInv'
  <2>1. pc[s] = "save" /\ End(s) /\ UNCHANGED <<observed, issued>>
    BY <1>9 DEF Save
  <2>2. CASE NoWrite(s)
    BY <1>6, <2>1, <2>2 DEF NoWrite, Types
  <2>3. CASE Write(s)
    <3>1. manifest' = Outcome(s) /\ fresh' = [t \in Session |-> FALSE]
      BY <2>3 DEF Write
    <3>2. Sound(Outcome(s), observed)
      BY <2>1, OutcomeSound
    <3>3. Types'
      BY <2>1, <3>1, NoJobIsOne, NoManifestSound DEF Types, End, Go, Sound
    <3>4. \A t \in Session : Listed(t)' /\ Reader(t)'
      BY <2>1, <3>1 DEF Types, Listed, Reader, End, Go
    <3> QED
      BY <2>1, <3>1, <3>2, <3>3, <3>4
  <2> QED
    BY <1>9, <2>2, <2>3 DEF Save
<1>10. CASE UNCHANGED vars
  BY <1>10 DEF vars, Types, Listed, Reader
<1> QED
  BY <1>1, <1>2, <1>3, <1>4, <1>5, <1>7, <1>8, <1>9, <1>10 DEF Next, Step

(* Every operation of every session keeps the invariant.                    *)
THEOREM Invariant == Spec => []IInv
BY InitInv, StepInv, PTL DEF Spec

-----------------------------------------------------------------------------
(* What the invariant shows.                                               *)

LEMMA TypesAreTypeOK == IInv => TypeOK
<1> SUFFICES ASSUME IInv PROVE TypeOK
  OBVIOUS
<1>1. /\ manifest \in Manifest
      /\ manifest.kind = "digital" => manifest.issuance \in Issuance
  BY DEF IInv, Sound
<1>2. ASSUME NEW p \in Page
      PROVE  /\ manifest.page[p].state \in PageState
             /\ manifest.page[p].selected \in Obs \cup {None}
             /\ EvidenceOf(manifest.page[p]) \subseteq Obs
             /\ \A o \in EvidenceOf(manifest.page[p]) : manifest.page[p].ev[o] \in Evidence
  <2>1. manifest.page[p] \in PageRecord
    BY <1>1, ManifestFields
  <2> DEFINE pg == manifest.page[p]
  <2> HIDE DEF pg
  <2>2. /\ pg.state \in PageState /\ pg.selected \in Obs \cup {None}
        /\ EvidenceOf(pg) \in SUBSET Obs /\ pg.ev \in [EvidenceOf(pg) -> Evidence]
    BY <2>1, PageFields DEF pg
  <2> QED
    BY <2>2 DEF pg
<1>3. manifest.kind \in {"none", "plain", "digital"}
  BY <1>1, ManifestFields
<1> QED
  BY <1>1, <1>2, <1>3 DEF IInv, Types, TypeOK, Scan

(* Whatever sessions do in whatever order, every record has its type.       *)
THEOREM TypeCorrect == Spec => []TypeOK
BY Invariant, TypesAreTypeOK, PTL

(* The manifest on disk always validates, no two pieces of evidence of a    *)
(* page share a number, and no session that is about to write computed a    *)
(* manifest its own validation refuses: nobody is locked out of a page.     *)
THEOREM ManifestStaysSound == Spec => []ManifestSound
<1>1. IInv => ManifestSound
  <2> SUFFICES ASSUME IInv PROVE ManifestSound
    OBVIOUS
  <2>1. Valid(manifest) /\ \A p \in Page : Numbered(manifest.page[p])
    BY SoundIsValid DEF IInv
  <2>2. \A s \in Session : pc[s] = "save" => ~ LockedOut(s)
    BY OutcomeSound
  <2> QED
    BY <2>1, <2>2 DEF ManifestSound
<1> QED
  BY <1>1, Invariant, PTL

(* What an assembly writes is merged into the manifest it replaces.         *)
LEMMA AssemblyMerges ==
  ASSUME IInv, [Next]_vars, NEW s \in Session, pc[s] = "save", pc'[s] = "idle",
         job[s].op = "assemble", manifest' # manifest
  PROVE  /\ Sound(manifest, observed) /\ manifest' = Merged(manifest, listed[s])
         /\ listed[s] \in SUBSET Obs /\ listed[s] # {}
         /\ \A o \in listed[s] : observed[o] \in Scan
         /\ ~ Conflict(manifest, listed[s])
<1>1. Save(s)
  <2>1. ASSUME NEW t \in Session, t # s,
               \/ \E j \in Job : List(t, j) \/ LoadPage(t, j)
               \/ Load(t) \/ Authorize(t) \/ Save(t)
        PROVE  FALSE
    <3>1. pc'[s] = pc[s]
      BY <2>1 DEF IInv, Types, List, LoadPage, Load, Authorize, Save, End, Go
    <3> QED
      BY <3>1
  <2>2. ASSUME \E j \in Job : List(s, j) \/ LoadPage(s, j) PROVE FALSE
    BY <2>2 DEF List, LoadPage
  <2>3. ~ Load(s) /\ ~ Authorize(s)
    BY DEF Load, Authorize
  <2>4. /\ ~ UNCHANGED vars /\ ~ Supersede /\ ~ PlainPaperStep
        /\ ~ \E o \in Obs, p \in Page : Observe(o, p)
    BY DEF vars, Supersede, PlainPaperStep, Observe, session
  <2>5. PICK t \in Session : Step(t)
    BY <2>4 DEF Next
  <2> QED
    BY <2>1, <2>2, <2>3, <2>5 DEF Step
<1>2. Write(s) /\ fresh[s]
  BY <1>1 DEF Save, NoWrite
<1>3. seen[s] = manifest /\ AcceptedOf(job[s], manifest, listed[s], observed)
  BY <1>2 DEF IInv, Reader
<1>4. manifest' = Merged(manifest, listed[s])
  BY <1>2, <1>3 DEF Write, Outcome
<1>5. ~ Conflict(manifest, listed[s])
  BY <1>3, AcceptedIs DEF Accepted
<1>6. /\ listed[s] \in SUBSET Obs /\ listed[s] # {}
      /\ \A o \in listed[s] : observed[o] \in Scan
  BY DEF IInv, Types, Listed, PageOps
<1> QED
  BY <1>4, <1>5, <1>6 DEF IInv

(* Assembling later scans takes back no decision of a teacher.              *)
THEOREM DecisionsSurvive == Spec => AssemblyKeepsDecisions
<1> DEFINE KeptOn(s, p) ==
       LET old == manifest.page[p]
           new == manifest'.page[p]
       IN pc[s] = "save" /\ pc'[s] = "idle" /\ job[s].op = "assemble"
          /\ manifest' # manifest =>
            /\ EvidenceOf(old) \subseteq EvidenceOf(new)
            /\ \A o \in EvidenceOf(old) : /\ new.ev[o].state = old.ev[o].state
                                          /\ new.ev[o].dup = old.ev[o].dup
                                          /\ new.ev[o].kept = old.ev[o].kept
            /\ old.selected # None => new.selected = old.selected
            /\ old.state \in {"excluded", "needs_rescan"} => new = [old EXCEPT !.ev = new.ev]
<1>1. IInv /\ [Next]_vars => [\A s \in Session, p \in Page : KeptOn(s, p)]_vars
  <2> SUFFICES ASSUME IInv, [Next]_vars, NEW s \in Session, NEW p \in Page,
                      pc[s] = "save", pc'[s] = "idle", job[s].op = "assemble", manifest' # manifest
               PROVE  KeptOn(s, p)
    BY Zenon
  <2> DEFINE old == manifest.page[p]
             new == manifest'.page[p]
  <2>1. old = EmptyPage \/ new = old \/ Gained(old, OnPage(listed[s], p), new)
    BY AssemblyMerges, MergedSound
  <2>2. old \in PageRecord
    BY ManifestFields DEF IInv, Sound
  <2>3. /\ EvidenceOf(old) \subseteq EvidenceOf(new)
        /\ \A o \in EvidenceOf(old) : /\ new.ev[o].state = old.ev[o].state
                                      /\ new.ev[o].dup = old.ev[o].dup
                                      /\ new.ev[o].kept = old.ev[o].kept
        /\ old.selected # None => new.selected = old.selected
        /\ old.state \in {"excluded", "needs_rescan"} => new = [old EXCEPT !.ev = new.ev]
    <3> HIDE DEF old, new
    <3>1. CASE old = EmptyPage
      BY <3>1, EmptySound DEF EmptyPage
    <3>2. CASE new = old
      <4>1. [old EXCEPT !.ev = old.ev] = [state |-> old.state, selected |-> old.selected, ev |-> old.ev]
        BY <2>2 DEF PageRecord
      <4>2. old = [state |-> old.state, selected |-> old.selected, ev |-> old.ev]
        BY <2>2, PageFields
      <4> QED
        BY <3>2, <4>1, <4>2
    <3>3. CASE Gained(old, OnPage(listed[s], p), new)
      BY <3>3 DEF Gained
    <3> QED
      BY <2>1, <3>1, <3>2, <3>3
  <2> QED
    BY <2>3
<1>2. (\A s \in Session, p \in Page : KeptOn(s, p)) <=>
      (\A s \in Session, p \in Page :
         LET old == manifest.page[p]
             new == manifest'.page[p]
         IN pc[s] = "save" /\ pc'[s] = "idle" /\ job[s].op = "assemble"
            /\ manifest' # manifest =>
              /\ EvidenceOf(old) \subseteq EvidenceOf(new)
              /\ \A o \in EvidenceOf(old) : /\ new.ev[o].state = old.ev[o].state
                                            /\ new.ev[o].dup = old.ev[o].dup
                                            /\ new.ev[o].kept = old.ev[o].kept
              /\ old.selected # None => new.selected = old.selected
              /\ old.state \in {"excluded", "needs_rescan"} => new = [old EXCEPT !.ev = new.ev])
  OBVIOUS
<1> HIDE DEF KeptOn
<1> QED
  BY <1>1, Invariant, PTL DEF AssemblyKeepsDecisions, Spec, KeptOn

(* The newest listed scan of a page is selected, was put aside, or is in the *)
(* inbox: no scan waits where no teacher looks.                             *)
THEOREM InboxShowsNewest == Spec => []InboxCoversNewest
<1>1. IInv => InboxCoversNewest
  <2> SUFFICES ASSUME IInv, NEW s \in Session, pc[s] = "load", job[s].op = "inbox", NEW p \in Page
               PROVE  LET os == OnPage(listed[s], p)
                          pg == manifest.page[p]
                          o  == Max(os)
                      IN \/ os = {}
                         \/ pg.selected = o
                         \/ o \in EvidenceOf(pg) /\ pg.ev[o].state # "active"
                         \/ \E x \in Obs : <<p, x>> \in Inbox(manifest, listed[s])
                         \/ manifest.kind = "none" /\ Cardinality(os) = 1
                         \/ manifest.kind = "plain"
    BY DEF InboxCoversNewest
  <2> DEFINE os == OnPage(listed[s], p)
             pg == manifest.page[p]
             o  == Max(os)
  <2>1. /\ listed[s] \in SUBSET Obs /\ os \in SUBSET Obs /\ Sound(manifest, observed)
        /\ os \subseteq listed[s] /\ \A x \in os : observed[x].page = p
    BY DEF IInv, Types, OnPage
  <2> SUFFICES ASSUME os # {}, manifest.kind # "plain",
                      ~ (manifest.kind = "none" /\ Cardinality(os) = 1),
                      pg.selected # o, ~ (o \in EvidenceOf(pg) /\ pg.ev[o].state # "active")
               PROVE  \E x \in Obs : <<p, x>> \in Inbox(manifest, listed[s])
    OBVIOUS
  <2>2. o \in os /\ (\A x \in os : x <= o) /\ o \in Obs
    <3>1. os \in SUBSET Nat /\ \A x \in os : x <= MaxObs
      BY <2>1, SubmissionAssumption DEF Obs
    <3> HIDE DEF os
    <3>2. o \in os /\ \A x \in os : x <= o
      BY <3>1, HasGreatest, SubmissionAssumption
    <3> QED
      BY <2>1, <3>2
  <2> HIDE DEF os, o
  <2>3. CASE manifest.kind = "none"
    <3>1. PICK y \in os : y # o
      <4>1. os # {o}
        BY <2>1, <2>2, <2>3, AtMostOne
      <4> QED
        BY <2>2, <4>1
    <3>2. y < o
      BY <2>1, <2>2, <3>1 DEF Obs
    <3>3. <<p, o>> \in {<<observed[x].page, x>> : x \in {x \in listed[s] :
              \E z \in listed[s] : z < x /\ observed[z].page = observed[x].page}}
      BY <2>1, <2>2, <3>1, <3>2
    <3> QED
      BY <2>2, <2>3, <3>3 DEF Inbox
  <2>4. CASE manifest.kind = "digital"
    <3> DEFINE waiting == UNION {{<<q, x>> : x \in Waiting(manifest.page[q], listed[s])} : q \in Page}
               unknown == {<<observed[x].page, x>> : x \in listed[s] \ UNION {EvidenceOf(manifest.page[q]) : q \in Page}}
    <3>1. Inbox(manifest, listed[s]) = waiting \cup unknown
      <4>1. manifest.kind # "none" /\ manifest.kind # "plain"
        BY <2>4
      <4> QED
        BY <4>1 DEF Inbox
    <3>2. \A q \in Page : \A x \in EvidenceOf(manifest.page[q]) : observed[x].page = q
      <4> SUFFICES ASSUME NEW q \in Page, NEW x \in EvidenceOf(manifest.page[q])
                   PROVE  observed[x].page = q
        OBVIOUS
      <4>1. observed[x] = [page |-> q, issuance |-> manifest.issuance]
        BY <2>1, <2>4 DEF Sound, Belongs
      <4> QED
        BY <4>1
    <3>3. CASE o \notin EvidenceOf(pg)
      <4>1. o \notin UNION {EvidenceOf(manifest.page[q]) : q \in Page}
        BY <2>1, <2>2, <3>2, <3>3
      <4>2. <<p, o>> \in unknown
        BY <2>1, <2>2, <4>1
      <4> QED
        BY <2>2, <3>1, <4>2
    <3>4. CASE o \in EvidenceOf(pg)
      <4>1. /\ pg \in PageRecord /\ SoundPage(pg)
        BY <2>1, <2>4, ManifestFields DEF Sound
      <4>2. pg.ev[o].role = "candidate"
        <5>1. pg.ev[o].role \in Role /\ pg.ev[o].state = "active"
          BY <3>4, <4>1, EvidenceFields
        <5>2. pg.ev[o].role # "excluded"
          BY <3>4, <4>1, <5>1 DEF SoundPage, Coherent
        <5>3. pg.ev[o].role # "selected"
          BY <3>4, <4>1 DEF SoundPage, ValidPage, SelectedRoles
        <5> QED
          BY <5>1, <5>2, <5>3 DEF Role
      <4>3. \E x \in Obs : x \in Waiting(pg, listed[s])
        <5>1. CASE pg.selected # None /\ pg.selected \notin listed[s]
          <6>1. pg.selected \in Obs
            BY <4>1, <5>1, PageFields
          <6> QED
            BY <5>1, <6>1 DEF Waiting
        <5>2. CASE ~ (pg.selected # None /\ pg.selected \notin listed[s])
          <6>1. pg.selected < o
            <7>1. CASE pg.selected = None
              BY <2>2, <7>1 DEF Obs, None
            <7>2. CASE pg.selected # None
              <8>1. pg.selected \in SelectedRoles(pg)
                BY <4>1, <7>2 DEF SoundPage, ValidPage
              <8>2. pg.selected \in EvidenceOf(pg)
                BY <8>1 DEF SelectedRoles
              <8>3. pg.selected \in os
                BY <3>2, <5>2, <7>2, <8>2 DEF os, OnPage
              <8> HIDE DEF pg
              <8>4. pg.selected \in Obs /\ pg.selected <= o
                BY <2>1, <2>2, <8>3
              <8> QED
                BY <2>2, <8>4 DEF Obs
            <7> QED
              BY <7>1, <7>2
          <6>2. ActiveCandidate(pg, o)
            BY <3>4, <4>2 DEF ActiveCandidate
          <6> QED
            BY <2>2, <3>4, <5>2, <6>1, <6>2 DEF Waiting
        <5> QED
          BY <5>1, <5>2
      <4>4. PICK x \in Obs : x \in Waiting(pg, listed[s])
        BY <4>3
      <4>5. <<p, x>> \in waiting
        BY <4>4
      <4> QED
        BY <3>1, <4>5
    <3> QED
      BY <3>3, <3>4
  <2> QED
    BY <2>1, <2>3, <2>4, ManifestFields DEF Sound
<1> QED
  BY <1>1, Invariant, PTL

-----------------------------------------------------------------------------
(***************************************************************************)
(* The review record.                                                      *)
(***************************************************************************)
LEMMA RecordAssumption ==
  IsFiniteSet(Editor) /\ MaxBirths \in Nat /\ MaxSaved \in Nat
BY MCReviewAssumption

\* The module of the record counts, and takes maxima, as this one does.
LEMMA RecordCounting == \A S : R!Cardinality(S) = Cardinality(S)
BY DEF R!Cardinality, Cardinality

LEMMA RecordMaximum == \A S : R!Max(S) = Max(S)
BY DEF R!Max, Max

\* A record of these fields, with observations named by different ids.
Fields(r) ==
  r = [state |-> r.state, check |-> r.check, outcome |-> r.outcome, units |-> r.units,
       picked |-> r.picked, saved |-> r.saved, used |-> r.used]

Counts == [saved : 0 .. MaxSaved, used : 0 .. MaxSaved]

ObservationOf(o, n) ==
  \/ o = R!Nothing
  \/ /\ o = [id |-> o.id, include |-> o.include, birth |-> o.birth]
     /\ o.id \in 1 .. n /\ o.include \in BOOLEAN /\ o.birth \in 1 .. n

Units(units, n) ==
  /\ DOMAIN units \subseteq Unit
  /\ \A u \in DOMAIN units : ObservationOf(units[u], n)
  /\ \A u, v \in DOMAIN units : units[u] # R!Nothing /\ units[u].id = units[v].id => u = v

SoundRecord(r, n) ==
  /\ Fields(r)
  /\ r.state \in R!State /\ r.outcome \in R!Outcome /\ r.check \in {"unchecked", "met", "not_met"}
  /\ (r.state = R!Returned) <=> (r.outcome = R!Returned)
  /\ Units(r.units, n)
  /\ r.picked \subseteq R!Ids(r)
  /\ r.saved \in 0 .. MaxSaved /\ r.used \in 0 .. MaxSaved

Means(r, m) ==
  \A u \in DOMAIN r.units :
    r.units[u] # R!Nothing /\ r.units[u].id \in r.picked => r.units[u].birth = m[r.units[u].id]

EditorStep == {"idle", "outcome", "bank", "append", "write", "count", "increment"}
Wanted == [outcome |-> R!Outcome \ {"not_checked"}, bank |-> {"saved"}, append |-> {"saved"},
           write |-> {"saved", "used"}, count |-> {"used"}, increment |-> {"used"},
           idle |-> {"nothing"}]

Loaded(s) ==
  current[s] /\ step[s] \in {"bank", "append", "write"} =>
    /\ review # R!None
    /\ wants[s] = "saved" => review.saved < MaxSaved
    /\ wants[s] = "used" => review.used < MaxSaved

Pending == {s \in Editor : step[s] \in {"count", "increment"}}
Used == IF review = R!None THEN 0 ELSE review.used
Saved == IF review = R!None THEN 0 ELSE review.saved

UsageBehind ==
  /\ bank.used + Cardinality(Pending) <= Used
  /\ \A s \in Editor :
       step[s] \in {"append", "increment"} => copy[s].used + Cardinality(Pending) <= Used

SavedFirst ==
  /\ Saved <= bank.saved
  /\ \A s \in Editor :
       /\ step[s] \in {"append", "increment"} => copy[s].saved = bank.saved
       /\ step[s] = "write" /\ wants[s] = "saved" => Saved + 1 <= bank.saved

RecordInv ==
  /\ births \in 0 .. MaxBirths /\ bank \in Counts /\ copy \in [Editor -> Counts]
  /\ step \in [Editor -> EditorStep] /\ current \in [Editor -> BOOLEAN]
  /\ wants \in [Editor -> R!Outcome \cup {"nothing", "saved", "used"}]
  /\ \A s \in Editor : wants[s] \in Wanted[step[s]]
  /\ DOMAIN meant = R!Id
  /\ review = R!None \/ (SoundRecord(review, births) /\ Means(review, meant))
  /\ \A s \in Editor : Loaded(s)
  /\ UsageBehind
  /\ R!OneSession => SavedFirst

-----------------------------------------------------------------------------
-----------------------------------------------------------------------------
(* Records *)

\* Ids name observations one by one, within the births.
LEMMA IdsName ==
  ASSUME NEW r, NEW n \in Nat, Units(r.units, n)
  PROVE  /\ R!Ids(r) \subseteq 1 .. n
         /\ \A i \in R!Ids(r) : \E u \in DOMAIN r.units : r.units[u] # R!Nothing /\ r.units[u].id = i
         /\ \A u \in DOMAIN r.units : r.units[u] # R!Nothing => r.units[u].id \in R!Ids(r)
         /\ \A o, p \in R!Observations(r) : o.id = p.id => o = p
BY DEF R!Ids, R!Observations, Units, ObservationOf

\* What is not an observation has no id.
LEMMA NamedIsThere ==
  ASSUME NEW units, NEW n \in Nat, Units(units, n), NEW u \in DOMAIN units
  PROVE  units[u] # R!Nothing <=> units[u].id \in 1 .. n
BY DEF Units, ObservationOf, R!Nothing

LEMMA SoundRecordIsValid ==
  ASSUME NEW r, NEW n \in Nat, SoundRecord(r, n)
  PROVE  R!Valid(r)
<1>1. Units(r.units, n)
  BY DEF SoundRecord
<1>2. R!Ids(r) \subseteq 1 .. n /\ \A o, p \in R!Observations(r) : o.id = p.id => o = p
  BY <1>1, IdsName
<1>3. IsFiniteSet(R!Ids(r))
  BY <1>2, FS_Interval, FS_Subset
<1> DEFINE f == [i \in R!Ids(r) |-> CHOOSE o \in R!Observations(r) : o.id = i]
<1>4. \A i \in R!Ids(r) : f[i] \in R!Observations(r) /\ f[i].id = i
  BY DEF R!Ids
<1>5. f \in Bijection(R!Ids(r), R!Observations(r))
  <2>1. f \in [R!Ids(r) -> R!Observations(r)]
    BY <1>4
  <2>2. \A i, k \in R!Ids(r) : f[i] = f[k] => i = k
    BY <1>4
  <2>3. \A o \in R!Observations(r) : \E i \in R!Ids(r) : f[i] = o
    <3>1. ASSUME NEW o \in R!Observations(r) PROVE o.id \in R!Ids(r) /\ f[o.id] = o
      BY <1>2, <1>4 DEF R!Ids
    <3> QED BY <3>1
  <2> HIDE DEF f
  <2> QED BY <2>1, <2>2, <2>3 DEF Bijection, Injection, Surjection, IsInjective
<1>6. Cardinality(R!Ids(r)) = Cardinality(R!Observations(r))
  BY <1>3, <1>5, FS_Bijection DEF ExistsBijection
<1> QED BY <1>6, RecordCounting DEF SoundRecord, R!Valid

\* A record whose units stay.
LEMMA SameUnits ==
  ASSUME NEW r, NEW n \in Nat, SoundRecord(r, n), NEW v, Fields(v), v.units = r.units,
         v.picked \subseteq R!Ids(r), v.state \in R!State, v.outcome \in R!Outcome,
         v.check \in {"unchecked", "met", "not_met"},
         (v.state = R!Returned) <=> (v.outcome = R!Returned),
         v.saved \in 0 .. MaxSaved, v.used \in 0 .. MaxSaved
  PROVE  SoundRecord(v, n) /\ R!Ids(v) = R!Ids(r)
BY DEF SoundRecord, R!Ids, R!Observations

\* An edit moves the state, and neither into the returned one nor out of it.
LEMMA StatesMove ==
  ASSUME NEW state \in R!State
  PROVE  /\ R!InProgress(state) \in R!State /\ R!Rerated(state) \in R!State
         /\ R!Recomposed(state) \in R!State /\ R!Checked(state) \in R!State
         /\ (R!InProgress(state) = R!Returned) <=> (state = R!Returned)
         /\ (R!Rerated(state) = R!Returned) <=> (state = R!Returned)
         /\ (R!Recomposed(state) = R!Returned) <=> (state = R!Returned)
         /\ (R!Checked(state) = R!Returned) <=> (state = R!Returned)
BY DEF R!State, R!InProgress, R!Rerated, R!Recomposed, R!Checked, R!Returned

LEMMA EmptyIsSound ==
  ASSUME NEW n \in Nat, MaxSaved \in Nat, NEW m
  PROVE  SoundRecord(R!Empty, n) /\ Means(R!Empty, m)
<1>1. DOMAIN <<>> = {}
  OBVIOUS
<1> QED
  BY <1>1 DEF R!Empty, SoundRecord, Fields, R!State, R!Outcome, R!Returned, Units, Means

\* A unit that stays keeps its observation, and only what stays stays selected.
LEMMA UnitsSound ==
  ASSUME NEW r, NEW n \in Nat, SoundRecord(r, n), NEW us \in SUBSET Unit, NEW m, Means(r, m)
  PROVE  /\ SoundRecord(R!WithUnits(r, us), n) /\ Means(R!WithUnits(r, us), m)
         /\ R!WithUnits(r, us).used = r.used /\ R!WithUnits(r, us).saved = r.saved
<1> DEFINE v == R!WithUnits(r, us)
           units == [u \in us |-> IF u \in DOMAIN r.units THEN r.units[u] ELSE R!Nothing]
<1>1. v = [r EXCEPT !.units = units, !.picked = R!DropReferences(r, units), !.state = R!InProgress(@)]
  BY DEF R!WithUnits
<1>2. /\ DOMAIN units = us
      /\ \A u \in us : units[u] = R!Nothing \/ (u \in DOMAIN r.units /\ units[u] = r.units[u])
  OBVIOUS
<1> HIDE DEF units, v
<1>8. /\ v.state = R!InProgress(r.state) /\ v.check = r.check /\ v.outcome = r.outcome
      /\ v.units = units /\ v.picked = R!DropReferences(r, units)
      /\ v.saved = r.saved /\ v.used = r.used /\ Fields(v)
  BY <1>1 DEF SoundRecord, Fields
<1>3. Units(r.units, n) /\ r.picked \subseteq R!Ids(r)
  BY DEF SoundRecord
<1>4. Units(units, n)
  <2>1. DOMAIN units \subseteq Unit /\ \A u \in DOMAIN units : ObservationOf(units[u], n)
    BY <1>2, <1>3 DEF Units, ObservationOf
  <2>2. ASSUME NEW x \in DOMAIN units, NEW y \in DOMAIN units, units[x] # R!Nothing,
               units[x].id = units[y].id
        PROVE  x = y
    <3>1. units[x] = r.units[x] /\ x \in DOMAIN r.units /\ units[x].id \in 1 .. n
      BY <1>2, <1>3, <2>2, NamedIsThere
    <3>2. units[y] # R!Nothing
      BY <2>2, <3>1 DEF R!Nothing
    <3>3. units[y] = r.units[y] /\ y \in DOMAIN r.units
      BY <1>2, <3>2
    <3> QED BY <1>3, <2>2, <3>1, <3>3 DEF Units
  <2> QED BY <2>1, <2>2 DEF Units
<1>5. v.picked \subseteq R!Ids(v)
  <2> SUFFICES ASSUME NEW i \in v.picked PROVE i \in R!Ids(v)
    OBVIOUS
  <2>1. i \in r.picked /\ \E u \in DOMAIN units : units[u].id = i
    BY <1>8 DEF R!DropReferences
  <2>2. i \in 1 .. n
    BY <1>3, <2>1, IdsName
  <2>3. PICK u \in DOMAIN units : units[u].id = i
    BY <2>1
  <2>4. units[u] # R!Nothing
    BY <1>4, <2>2, <2>3, NamedIsThere
  <2> QED BY <1>8, <1>4, <2>3, <2>4, IdsName
<1>6. Means(v, m)
  <2> SUFFICES ASSUME NEW u \in DOMAIN units, units[u] # R!Nothing, units[u].id \in v.picked
               PROVE  units[u].birth = m[units[u].id]
    BY <1>8 DEF Means
  <2>1. units[u].id \in r.picked
    BY <1>8 DEF R!DropReferences
  <2> QED BY <1>2, <2>1 DEF Means
<1>7. SoundRecord(v, n)
  BY <1>8, <1>4, <1>5, StatesMove DEF SoundRecord
<1> QED BY <1>8, <1>6, <1>7 DEF v

\* The next id names no other observation.
LEMMA NextIdIsFree ==
  ASSUME NEW r, NEW n \in Nat, Units(r.units, n)
  PROVE  R!NextId(r) \in 1 .. n + 1 /\ R!NextId(r) \notin R!Ids(r)
<1> DEFINE S == R!Ids(r) \cup {0}
<1>1. S \in SUBSET Nat /\ S # {} /\ \A i \in S : i <= n
  BY IdsName
<1> HIDE DEF S
<1>2. Max(S) \in S /\ \A i \in S : i <= Max(S)
  BY <1>1, HasGreatest
<1>3. R!NextId(r) = 1 + Max(S)
  BY RecordMaximum DEF R!NextId, S
<1>4. Max(S) \in Nat /\ Max(S) <= n
  BY <1>1, <1>2
<1>5. ASSUME R!NextId(r) \in S PROVE FALSE
  BY <1>2, <1>3, <1>4, <1>5
<1> QED BY <1>3, <1>4, <1>5 DEF S

\* An observation is created with an id of its own, or changed in place.
LEMMA ObservationSound ==
  ASSUME NEW r, NEW n \in Nat, SoundRecord(r, n), NEW u \in DOMAIN r.units, NEW include \in BOOLEAN,
         NEW m, Means(r, m)
  PROVE  LET v == R!WithObservation(r, u, include, n + 1) IN
         /\ SoundRecord(v, IF r.units[u] = R!Nothing THEN n + 1 ELSE n) /\ Means(v, m)
         /\ v.used = r.used /\ v.saved = r.saved
<1> DEFINE v == R!WithObservation(r, u, include, n + 1)
           old == r.units[u]
           new == IF old = R!Nothing THEN [id |-> R!NextId(r), include |-> include, birth |-> n + 1]
                  ELSE [old EXCEPT !.include = include]
           units == [r.units EXCEPT ![u] = new]
           k == IF old = R!Nothing THEN n + 1 ELSE n
<1>1. v = [r EXCEPT !.units = units, !.state = R!InProgress(@)]
  BY DEF R!WithObservation, SoundRecord, Fields
<1>2. Units(r.units, n) /\ r.picked \subseteq R!Ids(r) /\ ObservationOf(old, n) /\ k \in Nat
  BY DEF SoundRecord, Units
<1>3. /\ new = [id |-> new.id, include |-> new.include, birth |-> new.birth]
      /\ new.id \in 1 .. k /\ new.include \in BOOLEAN /\ new.birth \in 1 .. k
      /\ IF old = R!Nothing THEN new.id \notin R!Ids(r) ELSE new.id = old.id /\ new.birth = old.birth
  <2>1. CASE old = R!Nothing
    BY <2>1, <1>2, NextIdIsFree
  <2>2. CASE old # R!Nothing
    <3>1. /\ old = [id |-> old.id, include |-> old.include, birth |-> old.birth]
          /\ old.id \in 1 .. n /\ old.birth \in 1 .. n
      BY <1>2, <2>2 DEF ObservationOf
    <3>2. new = [old EXCEPT !.include = include] /\ k = n
      BY <2>2
    <3> HIDE DEF new, old
    <3>3. new.id = old.id /\ new.include = include /\ new.birth = old.birth
      BY <3>1, <3>2
    <3>4. new = [id |-> new.id, include |-> new.include, birth |-> new.birth]
      BY <3>1, <3>2
    <3> QED BY <2>2, <3>1, <3>2, <3>3, <3>4
  <2> QED BY <2>1, <2>2
<1>4. /\ DOMAIN units = DOMAIN r.units /\ units[u] = new
      /\ \A x \in DOMAIN r.units : x # u => units[x] = r.units[x]
  OBVIOUS
<1> HIDE DEF units, v, new
<1>5. /\ v.state = R!InProgress(r.state) /\ v.check = r.check /\ v.outcome = r.outcome
      /\ v.units = units /\ v.picked = r.picked /\ v.saved = r.saved /\ v.used = r.used /\ Fields(v)
  BY <1>1 DEF SoundRecord, Fields
<1>6. new # R!Nothing
  BY <1>2, <1>3 DEF R!Nothing
<1>7. \A x \in DOMAIN r.units : x # u /\ r.units[x] # R!Nothing => r.units[x].id # new.id
  <2>1. CASE old = R!Nothing
    BY <2>1, <1>2, <1>3, IdsName
  <2>2. CASE old # R!Nothing
    BY <2>2, <1>2, <1>3 DEF Units
  <2> QED BY <2>1, <2>2
<1> HIDE DEF k
<1>8. Units(units, k)
  <2>1. DOMAIN units \subseteq Unit
    BY <1>2, <1>4 DEF Units
  <2>2. \A x \in DOMAIN units : ObservationOf(units[x], k)
    <3>1. ObservationOf(new, k)
      BY <1>3 DEF ObservationOf
    <3>2. \A x \in DOMAIN r.units : ObservationOf(r.units[x], k)
      BY <1>2 DEF Units, ObservationOf, k
    <3> QED BY <1>4, <3>1, <3>2
  <2>3. ASSUME NEW x \in DOMAIN units, NEW y \in DOMAIN units, units[x] # R!Nothing,
               units[x].id = units[y].id
        PROVE  x = y
    <3>1. units[x].id \in 1 .. k
      BY <1>2, <2>2, <2>3 DEF ObservationOf
    <3>2. units[y] # R!Nothing
      BY <2>3, <3>1, <1>2 DEF R!Nothing
    <3> QED BY <1>2, <1>4, <1>7, <2>3, <3>2 DEF Units
  <2> QED BY <2>1, <2>2, <2>3 DEF Units
<1>9. v.picked \subseteq R!Ids(v) /\ Means(v, m)
  <2>1. ASSUME NEW i \in r.picked PROVE \E x \in DOMAIN units : units[x] # R!Nothing /\ units[x].id = i
    <3>1. PICK x \in DOMAIN r.units : r.units[x] # R!Nothing /\ r.units[x].id = i
      BY <1>2, <2>1, IdsName
    <3> QED BY <1>3, <1>4, <1>6, <3>1
  <2>2. ASSUME NEW x \in DOMAIN units, units[x] # R!Nothing, units[x].id \in r.picked
        PROVE  units[x].birth = m[units[x].id]
    <3>1. CASE x # u
      BY <1>4, <2>2, <3>1 DEF Means
    <3>2. CASE x = u
      <4>1. old # R!Nothing
        BY <1>2, <1>3, <1>4, <2>2, <3>2
      <4> QED BY <1>3, <1>4, <2>2, <3>2, <4>1 DEF Means
    <3> QED BY <3>1, <3>2
  <2>3. \A i \in r.picked : i \in R!Ids(v)
    BY <1>2, <1>5, <1>8, <2>1, IdsName
  <2> QED BY <1>5, <2>2, <2>3 DEF Means
<1>10. SoundRecord(v, k)
  BY <1>2, <1>5, <1>8, <1>9, StatesMove DEF SoundRecord
<1> QED BY <1>5, <1>9, <1>10 DEF v, k

-----------------------------------------------------------------------------
(* Steps *)

LEMMA LoadedIsSound ==
  ASSUME RecordInv
  PROVE  /\ births \in Nat /\ births <= MaxBirths
         /\ SoundRecord(R!OrEmpty(review), births) /\ Means(R!OrEmpty(review), meant)
         /\ R!OrEmpty(review).used = Used /\ R!OrEmpty(review).saved = Saved
<1>1. births \in Nat /\ births <= MaxBirths
  BY RecordAssumption DEF RecordInv
<1>2. CASE review = R!None
  <2>1. R!Empty.used = 0 /\ R!Empty.saved = 0
    BY DEF R!Empty
  <2> QED BY <1>1, <1>2, <2>1, EmptyIsSound, RecordAssumption DEF R!OrEmpty, Used, Saved
<1>3. CASE review # R!None
  BY <1>1, <1>3 DEF RecordInv, R!OrEmpty, Used, Saved
<1> QED BY <1>2, <1>3

LEMMA RecordStart == R!Init => RecordInv
<1> SUFFICES ASSUME R!Init PROVE RecordInv
  OBVIOUS
<1>1. R!NoUse \in Counts /\ R!NoUse.used = 0 /\ R!NoUse.saved = 0
  BY RecordAssumption DEF Counts, R!NoUse
<1>2. /\ review = R!None /\ bank = R!NoUse /\ births = 0 /\ meant = [i \in R!Id |-> 0]
      /\ copy = [s \in Editor |-> R!NoUse] /\ step = [s \in Editor |-> "idle"]
      /\ wants = [s \in Editor |-> "nothing"] /\ current = [s \in Editor |-> FALSE]
  BY DEF R!Init
<1>3. UsageBehind
  <2>1. Pending = {}
    BY <1>2 DEF Pending
  <2>2. Cardinality(Pending) = 0
    BY <2>1, FS_EmptySet
  <2> QED BY <1>1, <1>2, <2>2 DEF UsageBehind, Used
<1>4. SavedFirst
  BY <1>1, <1>2 DEF SavedFirst, Saved
<1>5. \A s \in Editor : Loaded(s)
  BY <1>2 DEF Loaded
<1>6. \A s \in Editor : wants[s] \in Wanted[step[s]]
  BY <1>2 DEF Wanted
<1>7. step \in [Editor -> EditorStep] /\ wants \in [Editor -> R!Outcome \cup {"nothing", "saved", "used"}]
  BY <1>2 DEF EditorStep
<1> QED BY <1>1, <1>2, <1>3, <1>4, <1>5, <1>6, <1>7, RecordAssumption DEF RecordInv

\* Whatever one call edits, it leaves the calls of many steps and the comment set
\* alone, and everybody who has loaded the record is refused from then on.
LEMMA EditKeeps ==
  ASSUME RecordInv, NEW v, R!Put(v), SoundRecord(v, births'), Means(v, meant'),
         v.used = Used, v.saved = Saved, R!Idle,
         births' \in 0 .. MaxBirths, DOMAIN meant' = R!Id
  PROVE  RecordInv'
<1>1. /\ review' = v /\ current' = [s \in Editor |-> FALSE] /\ UNCHANGED <<bank, copy, step, wants>>
  BY DEF R!Put, R!Idle
<1>2. v # R!None
  BY DEF SoundRecord, R!State, R!Returned, R!None
<1>3. Used' = Used /\ Saved' = Saved /\ Pending' = Pending
  BY <1>1, <1>2 DEF Used, Saved, Pending
<1>4. \A s \in Editor : Loaded(s)'
  BY <1>1 DEF Loaded
<1>5. UsageBehind'
  BY <1>1, <1>3 DEF RecordInv, UsageBehind
<1>6. R!OneSession => SavedFirst'
  BY <1>1, <1>3 DEF RecordInv, SavedFirst
<1>7. SoundRecord(review, births)' /\ Means(review, meant)'
  BY <1>1
<1>8. current' \in [Editor -> BOOLEAN]
  BY <1>1
<1> QED BY <1>1, <1>4, <1>5, <1>6, <1>7, <1>8 DEF RecordInv

\* What an edit of the other fields leaves is still meant.
LEMMA SameMeaning ==
  ASSUME NEW r, NEW v, NEW m, Means(r, m), v.units = r.units, v.picked = r.picked
  PROVE  Means(v, m)
BY DEF Means

LEMMA UnitsStep ==
  ASSUME RecordInv, NEW us \in SUBSET Unit, R!SetReviewUnits(us)
  PROVE  RecordInv'
<1> DEFINE r == R!OrEmpty(review)
<1>1. R!Put(R!WithUnits(r, us)) /\ R!Idle /\ births' = births /\ meant' = meant
  BY DEF R!SetReviewUnits
<1>2. births \in Nat /\ births <= MaxBirths /\ SoundRecord(r, births) /\ Means(r, meant)
  BY LoadedIsSound
<1>3. r.used = Used /\ r.saved = Saved
  BY LoadedIsSound
<1>4. births \in 0 .. MaxBirths /\ DOMAIN meant = R!Id
  BY DEF RecordInv
<1> HIDE DEF r
<1>5. /\ SoundRecord(R!WithUnits(r, us), births') /\ Means(R!WithUnits(r, us), meant')
      /\ R!WithUnits(r, us).used = Used /\ R!WithUnits(r, us).saved = Saved
  BY <1>1, <1>2, <1>3, UnitsSound
<1> QED BY <1>1, <1>4, <1>5, EditKeeps

LEMMA ObservationStep ==
  ASSUME RecordInv, NEW u \in Unit, NEW include \in BOOLEAN, R!SetReviewUnitObservation(u, include)
  PROVE  RecordInv'
<1> DEFINE v == R!WithObservation(review, u, include, births + 1)
<1>1. /\ review # R!None /\ u \in DOMAIN review.units /\ R!Put(v) /\ R!Idle /\ meant' = meant
      /\ births < MaxBirths \/ review.units[u] # R!Nothing
      /\ births' = IF review.units[u] = R!Nothing THEN births + 1 ELSE births
  BY DEF R!SetReviewUnitObservation, R!Existing
<1>2. /\ births \in Nat /\ births <= MaxBirths /\ SoundRecord(review, births) /\ Means(review, meant)
      /\ review.used = Used /\ review.saved = Saved
  BY <1>1, LoadedIsSound DEF R!OrEmpty
<1>3. /\ SoundRecord(v, births') /\ Means(v, meant') /\ v.used = Used /\ v.saved = Saved
  BY <1>1, <1>2, ObservationSound
<1>4. births' \in 0 .. MaxBirths
  BY <1>1, <1>2, RecordAssumption
<1>5. DOMAIN meant' = R!Id
  BY <1>1 DEF RecordInv
<1> HIDE DEF v
<1> QED BY <1>1, <1>3, <1>4, <1>5, EditKeeps

\* The edits that move the state and set one field beside it.
LEMMA FieldStep ==
  ASSUME RecordInv, NEW v, R!Put(v), R!Idle, births' = births, meant' = meant, Fields(v),
         v.units = R!OrEmpty(review).units, v.picked = R!OrEmpty(review).picked,
         v.used = R!OrEmpty(review).used, v.saved = R!OrEmpty(review).saved,
         v.state \in R!State, v.outcome \in R!Outcome, v.check \in {"unchecked", "met", "not_met"},
         (v.state = R!Returned) <=> (v.outcome = R!Returned)
  PROVE  RecordInv'
<1> DEFINE r == R!OrEmpty(review)
<1>1. births \in Nat /\ births <= MaxBirths /\ SoundRecord(r, births) /\ Means(r, meant)
  BY LoadedIsSound
<1>2. r.used = Used /\ r.saved = Saved
  BY LoadedIsSound
<1>3. r.picked \subseteq R!Ids(r) /\ r.used \in 0 .. MaxSaved /\ r.saved \in 0 .. MaxSaved
  BY <1>1 DEF SoundRecord
<1>4. SoundRecord(v, births)
  BY <1>1, <1>3, SameUnits
<1>5. Means(v, meant)
  BY <1>1, SameMeaning
<1> QED BY <1>1, <1>2, <1>4, <1>5, EditKeeps DEF RecordInv

LEMMA StateSteps ==
  ASSUME RecordInv,
         \/ R!MarkObservationsComplete \/ R!SetOverallStandardRating \/ R!AddReviewNote
         \/ R!MarkRatingsComplete \/ R!MarkFeedbackComposed
  PROVE  RecordInv'
<1> DEFINE r == R!OrEmpty(review)
<1>1. SoundRecord(r, births) /\ births' = births /\ meant' = meant /\ R!Idle
  BY LoadedIsSound
  DEF R!MarkObservationsComplete, R!SetOverallStandardRating, R!AddReviewNote,
       R!MarkRatingsComplete,
      R!MarkFeedbackComposed
<1>2. /\ Fields(r) /\ r.state \in R!State /\ r.outcome \in R!Outcome
      /\ r.check \in {"unchecked", "met", "not_met"}
      /\ (r.state = R!Returned) <=> (r.outcome = R!Returned)
  BY <1>1 DEF SoundRecord
<1>3. CASE R!AddReviewNote
  <2>1. R!Put(r)
    BY <1>3 DEF R!AddReviewNote
  <2> QED BY <1>1, <1>2, <2>1, FieldStep
<1>4. ASSUME ~R!AddReviewNote
      PROVE  \E state \in R!State : /\ R!Put([r EXCEPT !.state = state])
                                    /\ (state = R!Returned) <=> (r.outcome = R!Returned)
  <2>1. /\ r.state # R!Returned
        /\ \E state \in {"observations_complete", R!Rerated(r.state), "ratings_complete",
                         "feedback_composed"} : R!Put([r EXCEPT !.state = state])
    BY <1>4
    DEF R!MarkObservationsComplete, R!SetOverallStandardRating, R!MarkRatingsComplete,
        R!MarkFeedbackComposed, R!Existing, R!Reviewable, R!OrEmpty
  <2>2. \A state \in {"observations_complete", R!Rerated(r.state), "ratings_complete",
                      "feedback_composed"} : state \in R!State /\ state # R!Returned
    BY <1>2, <2>1, StatesMove DEF R!State, R!Returned
  <2> QED BY <1>2, <2>1, <2>2
<1>5. CASE ~R!AddReviewNote
  <2>1. PICK state \in R!State : /\ R!Put([r EXCEPT !.state = state])
                                 /\ (state = R!Returned) <=> (r.outcome = R!Returned)
    BY <1>4, <1>5
  <2> DEFINE v == [r EXCEPT !.state = state]
  <2>2. /\ v.state = state /\ v.outcome = r.outcome /\ v.check = r.check /\ v.units = r.units
        /\ v.picked = r.picked /\ v.used = r.used /\ v.saved = r.saved /\ Fields(v)
    BY <1>2 DEF Fields
  <2>3. R!Put(v)
    BY <2>1
  <2> HIDE DEF v
  <2> QED BY <1>1, <1>2, <2>1, <2>2, <2>3, FieldStep
<1> QED BY <1>3, <1>5

LEMMA CheckStep ==
  ASSUME RecordInv, NEW met \in {"met", "not_met"}, R!SetRequirementCheck(met)
  PROVE  RecordInv'
<1> DEFINE r == R!OrEmpty(review)
           v == R!WithCheck(r, met)
<1>1. SoundRecord(r, births) /\ R!Put(v) /\ R!Idle /\ births' = births /\ meant' = meant
  BY LoadedIsSound DEF R!SetRequirementCheck
<1>2. /\ Fields(r) /\ r.state \in R!State /\ r.outcome \in R!Outcome
      /\ (r.state = R!Returned) <=> (r.outcome = R!Returned)
  BY <1>1 DEF SoundRecord
<1>3. v = [r EXCEPT !.check = met, !.state = R!Checked(r.state)]
  BY DEF R!WithCheck
<1> HIDE DEF v
<1>4. /\ v.state = R!Checked(r.state) /\ v.outcome = r.outcome /\ v.check = met
      /\ v.units = r.units /\ v.picked = r.picked /\ v.used = r.used /\ v.saved = r.saved
      /\ Fields(v)
  BY <1>2, <1>3 DEF Fields
<1> QED BY <1>1, <1>2, <1>4, StatesMove, FieldStep

LEMMA WorkflowStep ==
  ASSUME RecordInv, NEW state \in R!State, R!SetReviewWorkflowState(state)
  PROVE  RecordInv'
<1> DEFINE r == R!OrEmpty(review)
           v == [r EXCEPT !.state = state]
<1>1. SoundRecord(r, births) /\ R!Put(v) /\ R!Idle /\ births' = births /\ meant' = meant
  BY LoadedIsSound DEF R!SetReviewWorkflowState
<1>2. /\ Fields(r) /\ r.outcome \in R!Outcome /\ r.check \in {"unchecked", "met", "not_met"}
      /\ (r.state = R!Returned) <=> (r.outcome = R!Returned)
  BY <1>1 DEF SoundRecord
<1>3. /\ v.state = state /\ v.outcome = r.outcome /\ v.check = r.check
      /\ v.units = r.units /\ v.picked = r.picked /\ v.used = r.used /\ v.saved = r.saved
      /\ Fields(v)
  BY <1>2 DEF Fields
<1>4. (state = R!Returned) <=> (r.outcome = R!Returned)
  <2>1. R!Empty.outcome # R!Returned
    BY DEF R!Empty, R!Returned
  <2> QED BY <2>1 DEF R!SetReviewWorkflowState, R!OrEmpty
<1> HIDE DEF v
<1> QED BY <1>1, <1>2, <1>3, <1>4, FieldStep

LEMMA SelectStep ==
  ASSUME RecordInv, NEW ids \in SUBSET R!Id, R!SetStandardFeedbackOptions(ids)
  PROVE  RecordInv'
<1> DEFINE v == R!WithPicked(review, ids)
           birth(i) == (CHOOSE o \in R!Observations(review) : o.id = i).birth
<1>1. /\ review # R!None /\ R!Put(v) /\ R!Idle /\ births' = births
      /\ ids \subseteq {o.id : o \in {p \in R!Observations(review) : p.include}}
      /\ meant' = [i \in R!Id |-> IF i \notin ids THEN 0 ELSE birth(i)]
  BY DEF R!SetStandardFeedbackOptions, R!Existing
<1>2. /\ births \in Nat /\ births <= MaxBirths /\ SoundRecord(review, births)
      /\ review.used = Used /\ review.saved = Saved
  BY <1>1, LoadedIsSound DEF R!OrEmpty
<1>3. /\ Fields(review) /\ review.state \in R!State /\ review.outcome \in R!Outcome
      /\ review.check \in {"unchecked", "met", "not_met"} /\ Units(review.units, births)
      /\ review.used \in 0 .. MaxSaved /\ review.saved \in 0 .. MaxSaved
      /\ (review.state = R!Returned) <=> (review.outcome = R!Returned)
  BY <1>2 DEF SoundRecord
<1>4. v = [review EXCEPT !.picked = ids, !.state = R!Recomposed(review.state)]
  BY DEF R!WithPicked
<1> HIDE DEF v
<1>5. /\ v.state = R!Recomposed(review.state) /\ v.outcome = review.outcome /\ v.check = review.check
      /\ v.units = review.units /\ v.picked = ids /\ v.used = review.used
      /\ v.saved = review.saved /\ Fields(v)
  BY <1>3, <1>4 DEF Fields
<1>6. ids \subseteq R!Ids(review)
  BY <1>1 DEF R!Ids
<1>7. SoundRecord(v, births)
  BY <1>2, <1>3, <1>5, <1>6, StatesMove, SameUnits
<1>8. Means(v, meant')
  <2> SUFFICES ASSUME NEW u \in DOMAIN review.units, review.units[u] # R!Nothing,
                      review.units[u].id \in ids
               PROVE  review.units[u].birth = meant'[review.units[u].id]
    BY <1>5 DEF Means
  <2> DEFINE o == review.units[u]
  <2>1. o \in R!Observations(review)
    BY DEF R!Observations
  <2>2. \A p \in R!Observations(review) : p.id = o.id => p = o
    BY <1>2, <1>3, <2>1, IdsName
  <2>3. (CHOOSE p \in R!Observations(review) : p.id = o.id) = o
    BY <2>1, <2>2
  <2>4. meant'[o.id] = birth(o.id)
    BY <1>1
  <2> QED BY <2>3, <2>4
<1>9. births' \in 0 .. MaxBirths /\ DOMAIN meant' = R!Id
  BY <1>1 DEF RecordInv
<1> QED BY <1>1, <1>2, <1>5, <1>7, <1>8, <1>9, EditKeeps

\* The assignment's policy is no part of the record.
LEMMA PolicyStep == RecordInv /\ R!EditPolicy => RecordInv'
BY DEF R!EditPolicy, RecordInv, SoundRecord, Means, Loaded, UsageBehind, SavedFirst, Pending, Used,
     Saved,
       Fields, Units, R!Ids, R!Observations

-----------------------------------------------------------------------------
(* Calls of many steps *)

Counting == {"count", "increment"}

\* How a go of a call changes the number of usages still to be counted.
LEMMA PendingCounts ==
  ASSUME RecordInv, NEW s \in Editor, NEW go, step' = [step EXCEPT ![s] = go]
  PROVE  /\ Cardinality(Pending) \in Nat
         /\ (go \in Counting <=> step[s] \in Counting) => Cardinality(Pending') = Cardinality(Pending)
         /\ go \in Counting /\ step[s] \notin Counting =>
              Cardinality(Pending') = Cardinality(Pending) + 1
         /\ go \notin Counting /\ step[s] \in Counting =>
              Cardinality(Pending') = Cardinality(Pending) - 1
<1>1. IsFiniteSet(Pending)
  BY RecordAssumption, FS_Subset DEF Pending
<1>2. step' \in [Editor -> {step[t] : t \in Editor} \cup {go}] /\ step'[s] = go
      /\ \A t \in Editor : t # s => step'[t] = step[t]
  BY DEF RecordInv
<1>3. Pending' = {t \in Editor : step'[t] \in Counting} /\ Pending = {t \in Editor : step[t] \in Counting}
  BY DEF Pending, Counting
<1>4. (go \in Counting <=> step[s] \in Counting) => Pending' = Pending
  BY <1>2, <1>3
<1>5. go \in Counting /\ step[s] \notin Counting => Pending' = Pending \cup {s} /\ s \notin Pending
  BY <1>2, <1>3
<1>6. go \notin Counting /\ step[s] \in Counting => Pending' = Pending \ {s} /\ s \in Pending
  BY <1>2, <1>3
<1> QED BY <1>1, <1>4, <1>5, <1>6, FS_AddElement, FS_RemoveElement, FS_CardinalityType

LEMMA Numbers ==
  ASSUME RecordInv
  PROVE  /\ MaxSaved \in Nat /\ Used \in Nat /\ Saved \in Nat
         /\ Used <= MaxSaved /\ Saved <= MaxSaved
         /\ bank.saved \in Nat /\ bank.used \in Nat
         /\ \A s \in Editor :
              /\ copy[s] = [saved |-> copy[s].saved, used |-> copy[s].used]
              /\ copy[s].saved \in Nat /\ copy[s].used \in Nat
              /\ copy[s].saved <= MaxSaved /\ copy[s].used <= MaxSaved
BY RecordAssumption DEF RecordInv, SoundRecord, Used, Saved, Counts

\* The parts of the invariant that a go of a call may touch.
LEMMA CallKeeps ==
  ASSUME RecordInv, NEW s \in Editor, UNCHANGED <<births, meant>>,
         NEW go \in EditorStep, NEW want \in Wanted[go],
         step' = [step EXCEPT ![s] = go], wants' = [wants EXCEPT ![s] = want],
         bank' \in Counts, copy' \in [Editor -> Counts], current' \in [Editor -> BOOLEAN],
         review' = R!None \/ (SoundRecord(review', births) /\ Means(review', meant)),
         \A t \in Editor : Loaded(t)', UsageBehind', R!OneSession => SavedFirst'
  PROVE  RecordInv'
<1>1. step' \in [Editor -> EditorStep] /\ wants' \in [Editor -> R!Outcome \cup {"nothing", "saved", "used"}]
  BY DEF RecordInv, EditorStep, Wanted
<1>2. \A t \in Editor : wants'[t] \in Wanted[step'[t]]
  BY DEF RecordInv
<1> QED BY <1>1, <1>2 DEF RecordInv

LEMMA StepsWanted ==
  /\ "bank" \in EditorStep /\ "saved" \in Wanted["bank"]
  /\ "append" \in EditorStep /\ "saved" \in Wanted["append"]
  /\ "write" \in EditorStep /\ "saved" \in Wanted["write"] /\ "used" \in Wanted["write"]
  /\ "count" \in EditorStep /\ "used" \in Wanted["count"]
  /\ "increment" \in EditorStep /\ "used" \in Wanted["increment"]
  /\ "idle" \in EditorStep /\ "nothing" \in Wanted["idle"]
  /\ "outcome" \in EditorStep /\ Wanted["outcome"] = R!Outcome \ {"not_checked"}
BY DEF EditorStep, Wanted

LEMMA BeginStep ==
  ASSUME RecordInv, NEW s \in Editor, NEW go \in {"outcome", "bank", "write"},
         NEW want \in Wanted[go], R!Begin(s, go, want),
         go \in {"bank", "write"} =>
           /\ review # R!None
           /\ want = "saved" => review.saved < MaxSaved
           /\ want = "used" => review.used < MaxSaved,
         ~(go = "write" /\ want = "saved")
  PROVE  RecordInv'
<1>1. /\ step[s] = "idle" /\ step' = [step EXCEPT ![s] = go] /\ wants' = [wants EXCEPT ![s] = want]
      /\ current' = [current EXCEPT ![s] = go \in {"bank", "write"}]
      /\ UNCHANGED <<review, allowed, bank, copy, births, meant>>
  BY DEF R!Begin
<1>2. /\ step'[s] = go /\ wants'[s] = want
      /\ \A t \in Editor : t # s => step'[t] = step[t] /\ wants'[t] = wants[t] /\ current'[t] = current[t]
  BY <1>1 DEF RecordInv
<1>3. \A t \in Editor : Loaded(t)'
  BY <1>1, <1>2 DEF RecordInv, Loaded
<1>4. Used' = Used /\ Saved' = Saved
  BY <1>1 DEF Used, Saved
<1>5. Cardinality(Pending') = Cardinality(Pending)
  BY <1>1, PendingCounts DEF Counting
<1>6. UsageBehind'
  BY <1>1, <1>2, <1>4, <1>5 DEF RecordInv, UsageBehind
<1>7. R!OneSession => SavedFirst'
  BY <1>1, <1>2, <1>4 DEF RecordInv, SavedFirst
<1>8. current' \in [Editor -> BOOLEAN] /\ bank' \in Counts /\ copy' \in [Editor -> Counts]
  BY <1>1 DEF RecordInv
<1>9. go \in EditorStep
  BY DEF EditorStep
<1>10. review' = R!None \/ (SoundRecord(review', births) /\ Means(review', meant))
  BY <1>1 DEF RecordInv
<1> QED BY <1>1, <1>3, <1>6, <1>7, <1>8, <1>9, <1>10, CallKeeps

LEMMA BeginSteps ==
  ASSUME RecordInv, NEW s \in Editor,
         R!SetOutcome(s) \/ R!AddCustomComment(s) \/ R!SelectReusableComment(s)
  PROVE  RecordInv'
<1>1. CASE R!SetOutcome(s)
  <2>1. PICK status \in R!Available(R!OrEmpty(review), allowed) : R!Begin(s, "outcome", status)
    BY <1>1 DEF R!SetOutcome
  <2>2. status \in Wanted["outcome"]
    BY StepsWanted DEF R!Available, R!AvailableOutcomes, R!Outcome, R!Returned
  <2> QED BY <2>1, <2>2, BeginStep
<1>2. CASE R!AddCustomComment(s)
  <2>1. R!Begin(s, "bank", "saved") /\ review # R!None /\ review.saved < MaxSaved
    BY <1>2 DEF R!AddCustomComment, R!Existing
  <2> QED BY <2>1, StepsWanted, BeginStep
<1>3. CASE R!SelectReusableComment(s)
  <2>1. R!Begin(s, "write", "used") /\ review # R!None /\ review.used < MaxSaved
    BY <1>3 DEF R!SelectReusableComment, R!Existing
  <2> QED BY <2>1, StepsWanted, BeginStep
<1> QED BY <1>1, <1>2, <1>3

\* The record is the one that was loaded, or the call goes no further with it.
LEMMA StaysLoaded ==
  ASSUME RecordInv, NEW s \in Editor, NEW go, step' = [step EXCEPT ![s] = go],
         review' = review, current' = current,
         \A t \in Editor \ {s} : wants'[t] = wants[t],
         \/ go \notin {"bank", "append", "write"}
         \/ step[s] \in {"bank", "append", "write"} /\ wants'[s] = wants[s]
  PROVE  \A t \in Editor : Loaded(t)'
BY DEF RecordInv, Loaded

LEMMA LoadStep ==
  ASSUME RecordInv, NEW s \in Editor, R!LoadCommentSet(s)
  PROVE  RecordInv'
<1> DEFINE go == IF step[s] = "bank" THEN "append" ELSE "increment"
           want == wants[s]
<1>1. /\ step[s] \in {"bank", "count"} /\ copy' = [copy EXCEPT ![s] = bank]
      /\ step' = [step EXCEPT ![s] = go]
      /\ UNCHANGED <<review, allowed, bank, wants, current, births, meant>>
  BY DEF R!LoadCommentSet
<1>2. /\ step'[s] = go /\ copy'[s] = bank
      /\ \A t \in Editor : t # s => step'[t] = step[t] /\ copy'[t] = copy[t]
  BY <1>1 DEF RecordInv
<1>3. \A t \in Editor : Loaded(t)'
  BY <1>1, StaysLoaded
<1>4. Used' = Used /\ Saved' = Saved
  BY <1>1 DEF Used, Saved
<1>5. Cardinality(Pending') = Cardinality(Pending)
  <2>1. go \in Counting <=> step[s] \in Counting
    BY <1>1 DEF Counting
  <2> HIDE DEF go
  <2> QED BY <1>1, <2>1, PendingCounts
<1>6. UsageBehind'
  BY <1>1, <1>2, <1>4, <1>5 DEF RecordInv, UsageBehind
<1>7. R!OneSession => SavedFirst'
  BY <1>1, <1>2, <1>4 DEF RecordInv, SavedFirst
<1>8. go \in EditorStep /\ want \in Wanted[go]
  <2>1. want \in Wanted[step[s]]
    BY DEF RecordInv
  <2>2. CASE step[s] = "bank"
    BY <2>1, <2>2, StepsWanted DEF Wanted
  <2>3. CASE step[s] = "count"
    BY <2>1, <2>3, StepsWanted DEF Wanted
  <2> QED BY <1>1, <2>2, <2>3
<1>9. wants' = [wants EXCEPT ![s] = want]
  BY <1>1 DEF RecordInv
<1>10. current' \in [Editor -> BOOLEAN] /\ bank' \in Counts /\ copy' \in [Editor -> Counts]
  BY <1>1 DEF RecordInv
<1>11. review' = R!None \/ (SoundRecord(review', births) /\ Means(review', meant))
  BY <1>1 DEF RecordInv
<1> QED BY <1>1, <1>3, <1>6, <1>7, <1>8, <1>9, <1>10, <1>11, CallKeeps

LEMMA NoUseIsCounts == R!NoUse \in Counts
BY RecordAssumption DEF R!NoUse, Counts

LEMMA AppendStep ==
  ASSUME RecordInv, NEW s \in Editor, R!AppendSavedComment(s)
  PROVE  RecordInv'
<1> DEFINE c == copy[s]
<1>0. bank' = [c EXCEPT !.saved = c.saved + 1]
  BY DEF R!AppendSavedComment, R!WriteCommentSet
<1>1. /\ step[s] = "append" /\ c.saved < MaxSaved
      /\ copy' = [copy EXCEPT ![s] = R!NoUse] /\ step' = [step EXCEPT ![s] = "write"]
      /\ UNCHANGED <<review, allowed, wants, current, births, meant>>
  BY DEF R!AppendSavedComment, R!WriteCommentSet
<1>2. /\ step'[s] = "write" /\ wants[s] = "saved"
      /\ \A t \in Editor : t # s => step'[t] = step[t] /\ copy'[t] = copy[t]
  BY <1>1 DEF RecordInv, Wanted
<1>13. /\ c = [saved |-> c.saved, used |-> c.used] /\ MaxSaved \in Nat
       /\ c.saved \in Nat /\ c.used \in Nat /\ c.saved <= MaxSaved /\ c.used <= MaxSaved
  BY Numbers
<1> HIDE DEF c
<1>3. bank'.saved = c.saved + 1 /\ bank'.used = c.used /\ bank' \in Counts
  BY <1>0, <1>1, <1>13 DEF Counts
<1>4. \A t \in Editor : Loaded(t)'
  BY <1>1, StaysLoaded
<1>5. Used' = Used /\ Saved' = Saved
  BY <1>1 DEF Used, Saved
<1>6. Cardinality(Pending') = Cardinality(Pending)
  <2>1. step' = [step EXCEPT ![s] = "write"] /\ step[s] \notin Counting /\ "write" \notin Counting
    BY <1>1 DEF Counting
  <2> QED BY <2>1, PendingCounts
<1>7. UsageBehind'
  BY <1>1, <1>2, <1>3, <1>5, <1>6 DEF RecordInv, UsageBehind, c
<1>8. R!OneSession => SavedFirst'
  <2>1. ASSUME R!OneSession PROVE SavedFirst'
    <3>1. SavedFirst /\ \A t \in Editor : t = s
      BY <2>1 DEF RecordInv, R!OneSession
    <3>2. c.saved = bank.saved /\ Saved <= bank.saved
      BY <1>1, <3>1 DEF SavedFirst, c
    <3>3. Saved' <= bank'.saved /\ Saved' + 1 <= bank'.saved
      BY <1>3, <1>5, <3>2, Numbers
    <3> QED BY <1>2, <3>1, <3>3 DEF SavedFirst
  <2> QED BY <2>1
<1>9. "saved" \in Wanted["write"] /\ "write" \in EditorStep
  BY StepsWanted
<1>10. wants' = [wants EXCEPT ![s] = "saved"]
  BY <1>1, <1>2 DEF RecordInv
<1>11. current' \in [Editor -> BOOLEAN] /\ copy' \in [Editor -> Counts]
  BY <1>1, NoUseIsCounts DEF RecordInv
<1>12. review' = R!None \/ (SoundRecord(review', births) /\ Means(review', meant))
  BY <1>1 DEF RecordInv
<1> QED BY <1>1, <1>3, <1>4, <1>7, <1>8, <1>9, <1>10, <1>11, <1>12, CallKeeps

LEMMA IncrementStep ==
  ASSUME RecordInv, NEW s \in Editor, R!IncrementUsage(s)
  PROVE  RecordInv'
<1> DEFINE c == copy[s]
<1>0. bank' = [c EXCEPT !.used = c.used + 1]
  BY DEF R!IncrementUsage, R!WriteCommentSet
<1>1. /\ step[s] = "increment"
      /\ copy' = [copy EXCEPT ![s] = R!NoUse] /\ step' = [step EXCEPT ![s] = "idle"]
      /\ wants' = [wants EXCEPT ![s] = "nothing"]
      /\ UNCHANGED <<review, allowed, current, births, meant>>
  BY DEF R!IncrementUsage, R!WriteCommentSet, R!End
<1>2. /\ step'[s] = "idle"
      /\ \A t \in Editor : t # s => step'[t] = step[t] /\ copy'[t] = copy[t] /\ wants'[t] = wants[t]
  BY <1>1 DEF RecordInv
<1>3. /\ Cardinality(Pending) \in Nat /\ Cardinality(Pending) - 1 \in Nat
      /\ Cardinality(Pending') = Cardinality(Pending) - 1
  <2>1. s \in Pending /\ IsFiniteSet(Pending)
    BY <1>1, RecordAssumption, FS_Subset DEF Pending
  <2>2. Cardinality(Pending) # 0
    BY <2>1, FS_EmptySet
  <2>3. step' = [step EXCEPT ![s] = "idle"] /\ step[s] \in Counting /\ "idle" \notin Counting
    BY <1>1 DEF Counting
  <2>4. Cardinality(Pending') = Cardinality(Pending) - 1 /\ Cardinality(Pending) \in Nat
    BY <2>3, PendingCounts
  <2> QED BY <2>2, <2>4
<1>4. c.used + Cardinality(Pending) <= Used
  BY <1>1 DEF RecordInv, UsageBehind
<1>13. /\ c = [saved |-> c.saved, used |-> c.used] /\ MaxSaved \in Nat /\ Used \in Nat
       /\ c.saved \in Nat /\ c.used \in Nat /\ c.saved <= MaxSaved /\ Used <= MaxSaved
  BY Numbers
<1> HIDE DEF c
<1>5. bank'.saved = c.saved /\ bank'.used = c.used + 1 /\ bank' \in Counts
  BY <1>0, <1>3, <1>4, <1>13 DEF Counts
<1>6. \A t \in Editor : Loaded(t)'
  BY <1>1, <1>2, StaysLoaded
<1>7. Used' = Used /\ Saved' = Saved
  BY <1>1 DEF Used, Saved
<1>8. UsageBehind'
  <2>1. bank'.used + Cardinality(Pending') <= Used'
    BY <1>3, <1>4, <1>5, <1>7, <1>13
  <2>2. ASSUME NEW t \in Editor, step'[t] \in {"append", "increment"}
        PROVE  copy'[t].used + Cardinality(Pending') <= Used'
    <3>1. t # s /\ copy'[t] = copy[t] /\ copy[t].used + Cardinality(Pending) <= Used
      BY <1>2, <2>2 DEF RecordInv, UsageBehind
    <3>2. copy[t].used \in Nat /\ Used \in Nat
      BY Numbers
    <3> QED BY <1>3, <1>7, <3>1, <3>2
  <2> QED BY <2>1, <2>2 DEF UsageBehind
<1>9. R!OneSession => SavedFirst'
  BY <1>1, <1>2, <1>5, <1>7 DEF RecordInv, SavedFirst, R!OneSession, c
<1>10. "nothing" \in Wanted["idle"] /\ "idle" \in EditorStep
  BY StepsWanted
<1>11. current' \in [Editor -> BOOLEAN] /\ copy' \in [Editor -> Counts]
  BY <1>1, NoUseIsCounts DEF RecordInv
<1>12. review' = R!None \/ (SoundRecord(review', births) /\ Means(review', meant))
  BY <1>1 DEF RecordInv
<1> QED BY <1>1, <1>5, <1>6, <1>8, <1>9, <1>10, <1>11, <1>12, CallKeeps

LEMMA FailStep ==
  ASSUME RecordInv, NEW s \in Editor, R!Fail(s)
  PROVE  RecordInv'
<1>1. /\ copy' = [copy EXCEPT ![s] = R!NoUse] /\ step' = [step EXCEPT ![s] = "idle"]
      /\ wants' = [wants EXCEPT ![s] = "nothing"]
      /\ UNCHANGED <<review, allowed, bank, current, births, meant>>
  BY DEF R!Fail, R!End
<1>2. /\ step'[s] = "idle"
      /\ \A t \in Editor : t # s => step'[t] = step[t] /\ copy'[t] = copy[t] /\ wants'[t] = wants[t]
  BY <1>1 DEF RecordInv
<1>3. /\ Cardinality(Pending) \in Nat
      /\ \/ Cardinality(Pending') = Cardinality(Pending)
         \/ Cardinality(Pending') = Cardinality(Pending) - 1
  <2>1. step' = [step EXCEPT ![s] = "idle"] /\ "idle" \notin Counting
    BY <1>1 DEF Counting
  <2> QED BY <2>1, PendingCounts
<1>4. \A t \in Editor : Loaded(t)'
  BY <1>1, <1>2, StaysLoaded
<1>5. Used' = Used /\ Saved' = Saved
  BY <1>1 DEF Used, Saved
<1>6. UsageBehind'
  <2>1. bank'.used + Cardinality(Pending') <= Used'
    BY <1>1, <1>3, <1>5, Numbers DEF RecordInv, UsageBehind
  <2>2. ASSUME NEW t \in Editor, step'[t] \in {"append", "increment"}
        PROVE  copy'[t].used + Cardinality(Pending') <= Used'
    <3>1. t # s /\ copy'[t] = copy[t] /\ copy[t].used + Cardinality(Pending) <= Used
      BY <1>2, <2>2 DEF RecordInv, UsageBehind
    <3>2. copy[t].used \in Nat /\ Used \in Nat
      BY Numbers
    <3> QED BY <1>3, <1>5, <3>1, <3>2
  <2> QED BY <2>1, <2>2 DEF UsageBehind
<1>7. R!OneSession => SavedFirst'
  BY <1>1, <1>2, <1>5 DEF RecordInv, SavedFirst, R!OneSession
<1>8. "nothing" \in Wanted["idle"] /\ "idle" \in EditorStep
  BY StepsWanted
<1>9. current' \in [Editor -> BOOLEAN] /\ copy' \in [Editor -> Counts] /\ bank' \in Counts
  BY <1>1, NoUseIsCounts DEF RecordInv
<1>10. review' = R!None \/ (SoundRecord(review', births) /\ Means(review', meant))
  BY <1>1 DEF RecordInv
<1> QED BY <1>1, <1>4, <1>6, <1>7, <1>8, <1>9, <1>10, CallKeeps

LEMMA OutcomeStep ==
  ASSUME RecordInv, NEW s \in Editor, R!WriteOutcome(s)
  PROVE  RecordInv'
<1> DEFINE r == R!OrEmpty(review)
           status == wants[s]
           v == R!WithOutcome(r, status)
<1>1. /\ step[s] = "outcome" /\ R!Put(v) /\ step' = [step EXCEPT ![s] = "idle"]
      /\ wants' = [wants EXCEPT ![s] = "nothing"]
      /\ UNCHANGED <<allowed, bank, copy, births, meant>>
  BY DEF R!WriteOutcome, R!End
<1>2. /\ review' = v /\ current' = [t \in Editor |-> FALSE]
  BY <1>1 DEF R!Put
<1>3. status \in R!Outcome
  BY <1>1 DEF RecordInv, Wanted
<1>4. /\ births \in Nat /\ SoundRecord(r, births) /\ Means(r, meant)
      /\ r.used = Used /\ r.saved = Saved
  BY LoadedIsSound
<1>5. /\ Fields(r) /\ r.check \in {"unchecked", "met", "not_met"} /\ r.picked \subseteq R!Ids(r)
      /\ r.saved \in 0 .. MaxSaved /\ r.used \in 0 .. MaxSaved
  BY <1>4 DEF SoundRecord
<1>6. v = [r EXCEPT !.outcome = status, !.state = R!Decided(status)]
  BY DEF R!WithOutcome
<1> HIDE DEF v, status
<1>7. /\ v.state = R!Decided(status) /\ v.outcome = status /\ v.check = r.check
      /\ v.units = r.units /\ v.picked = r.picked /\ v.used = r.used /\ v.saved = r.saved
      /\ Fields(v)
  BY <1>5, <1>6 DEF Fields
<1>8. /\ R!Decided(status) \in R!State
      /\ (R!Decided(status) = R!Returned) <=> (status = R!Returned)
  BY DEF R!Decided, R!State, R!Returned
<1> HIDE DEF r
<1>9. SoundRecord(v, births) /\ Means(v, meant)
  BY <1>3, <1>4, <1>5, <1>7, <1>8, SameUnits, SameMeaning
<1>10. v # R!None
  BY <1>7, <1>8 DEF R!State, R!Returned, R!None
<1>11. Used' = Used /\ Saved' = Saved
  BY <1>2, <1>4, <1>7, <1>10 DEF Used, Saved
<1>12. /\ step'[s] = "idle"
       /\ \A t \in Editor : t # s => step'[t] = step[t] /\ wants'[t] = wants[t]
  BY <1>1 DEF RecordInv
<1>13. Cardinality(Pending') = Cardinality(Pending)
  <2>1. step' = [step EXCEPT ![s] = "idle"] /\ step[s] \notin Counting /\ "idle" \notin Counting
    BY <1>1 DEF Counting
  <2> QED BY <2>1, PendingCounts
<1>14. \A t \in Editor : Loaded(t)'
  BY <1>2 DEF Loaded
<1>15. UsageBehind'
  BY <1>1, <1>11, <1>12, <1>13 DEF RecordInv, UsageBehind
<1>16. R!OneSession => SavedFirst'
  BY <1>1, <1>11, <1>12 DEF RecordInv, SavedFirst
<1>17. "nothing" \in Wanted["idle"] /\ "idle" \in EditorStep
  BY StepsWanted
<1>18. current' \in [Editor -> BOOLEAN] /\ copy' \in [Editor -> Counts] /\ bank' \in Counts
  BY <1>1, <1>2 DEF RecordInv
<1> QED BY <1>1, <1>2, <1>9, <1>14, <1>15, <1>16, <1>17, <1>18, CallKeeps

LEMMA WriteStep ==
  ASSUME RecordInv, NEW s \in Editor, R!Write(s)
  PROVE  RecordInv'
<1> DEFINE v == R!WithComment(review, s)
           go == IF wants[s] = "used" THEN "count" ELSE "idle"
           want == IF wants[s] = "used" THEN "used" ELSE "nothing"
<1>1. /\ step[s] = "write" /\ current[s] /\ R!Put(v)
      /\ UNCHANGED <<allowed, bank, copy, births, meant>>
  BY DEF R!Write
<1>2. step' = [step EXCEPT ![s] = go] /\ wants' = [wants EXCEPT ![s] = want]
  <2>1. CASE wants[s] = "used"
    BY <2>1 DEF R!Write, RecordInv
  <2>2. CASE wants[s] # "used"
    BY <2>2 DEF R!Write, R!End
  <2> QED BY <2>1, <2>2
<1>3. review' = v /\ current' = [t \in Editor |-> FALSE]
  BY <1>1 DEF R!Put
<1>4. wants[s] \in {"saved", "used"}
  BY <1>1 DEF RecordInv, Wanted
<1>5. /\ review # R!None
      /\ wants[s] = "saved" => review.saved < MaxSaved
      /\ wants[s] = "used" => review.used < MaxSaved
  BY <1>1 DEF RecordInv, Loaded
<1>6. /\ births \in Nat /\ SoundRecord(review, births) /\ Means(review, meant)
      /\ Used = review.used /\ Saved = review.saved /\ MaxSaved \in Nat
  BY <1>5, LoadedIsSound, RecordAssumption DEF R!OrEmpty
<1>7. /\ Fields(review) /\ review.check \in {"unchecked", "met", "not_met"}
      /\ review.picked \subseteq R!Ids(review) /\ review.state \in R!State /\ review.outcome \in R!Outcome
      /\ (review.state = R!Returned) <=> (review.outcome = R!Returned)
  BY <1>6 DEF SoundRecord
<1>8. /\ review.saved \in Nat /\ review.used \in Nat
      /\ review.saved <= MaxSaved /\ review.used <= MaxSaved
  BY <1>6 DEF SoundRecord
<1> DEFINE saved == IF wants[s] = "saved" THEN review.saved + 1 ELSE review.saved
           used == IF wants[s] = "used" THEN review.used + 1 ELSE review.used
<1>9. v = [review EXCEPT !.saved = saved, !.used = used, !.state = R!Recomposed(review.state)]
  BY DEF R!WithComment
<1>10. saved \in 0 .. MaxSaved /\ used \in 0 .. MaxSaved
  BY <1>5, <1>6, <1>8
<1> HIDE DEF v, saved, used
<1>11. /\ v.state = R!Recomposed(review.state) /\ v.outcome = review.outcome
       /\ v.check = review.check /\ v.units = review.units /\ v.picked = review.picked
       /\ v.used = used /\ v.saved = saved /\ Fields(v)
  BY <1>7, <1>9 DEF Fields
<1>12. SoundRecord(v, births) /\ Means(v, meant)
  BY <1>6, <1>7, <1>10, <1>11, StatesMove, SameUnits, SameMeaning
<1>13. v # R!None
  BY <1>7, <1>11, StatesMove DEF R!State, R!Returned, R!None
<1>14. Used' = used /\ Saved' = saved
  BY <1>3, <1>11, <1>13 DEF Used, Saved
<1>15. /\ step'[s] = go
       /\ \A t \in Editor : t # s => step'[t] = step[t] /\ wants'[t] = wants[t]
  BY <1>2 DEF RecordInv
<1>16. Cardinality(Pending') = IF wants[s] = "used" THEN Cardinality(Pending) + 1 ELSE Cardinality(Pending)
  <2>1. step' = [step EXCEPT ![s] = go] /\ step[s] \notin Counting
        /\ (go \in Counting <=> wants[s] = "used")
    BY <1>1, <1>2 DEF Counting
  <2> HIDE DEF go
  <2> QED BY <2>1, PendingCounts
<1>17. \A t \in Editor : Loaded(t)'
  BY <1>3 DEF Loaded
<1>18. Cardinality(Pending) \in Nat /\ bank.used \in Nat
  BY <1>2, PendingCounts, Numbers
<1>19. UsageBehind'
  <2>1. bank'.used + Cardinality(Pending') <= Used'
    BY <1>1, <1>6, <1>8, <1>14, <1>16, <1>18 DEF RecordInv, UsageBehind, used
  <2>2. ASSUME NEW t \in Editor, step'[t] \in {"append", "increment"}
        PROVE  copy'[t].used + Cardinality(Pending') <= Used'
    <3>1. /\ copy'[t] = copy[t] /\ copy[t].used + Cardinality(Pending) <= Used
          /\ copy[t].used \in Nat
      BY <1>1, <1>15, <2>2, Numbers DEF RecordInv, UsageBehind
    <3> QED BY <1>6, <1>8, <1>14, <1>16, <1>18, <3>1 DEF used
  <2> QED BY <2>1, <2>2 DEF UsageBehind
<1>20. R!OneSession => SavedFirst'
  <2>1. ASSUME R!OneSession PROVE SavedFirst'
    <3>1. SavedFirst /\ \A t \in Editor : t = s
      BY <2>1 DEF RecordInv, R!OneSession
    <3>2. Saved' <= bank'.saved
      BY <1>1, <1>6, <1>8, <1>14, <3>1, Numbers DEF SavedFirst, saved
    <3> QED BY <1>15, <3>1, <3>2 DEF SavedFirst
  <2> QED BY <2>1
<1>21. go \in EditorStep /\ want \in Wanted[go]
  BY StepsWanted
<1>22. current' \in [Editor -> BOOLEAN] /\ copy' \in [Editor -> Counts] /\ bank' \in Counts
  BY <1>1, <1>3 DEF RecordInv
<1> QED BY <1>1, <1>2, <1>3, <1>12, <1>17, <1>19, <1>20, <1>21, <1>22, CallKeeps

LEMMA RecordStep == RecordInv /\ [R!Next]_(R!vars) => RecordInv'
<1> SUFFICES ASSUME RecordInv, [R!Next]_(R!vars) PROVE RecordInv'
  OBVIOUS
<1>1. CASE UNCHANGED R!vars
  BY <1>1
  DEF R!vars, RecordInv, SoundRecord, Means, Loaded, UsageBehind, SavedFirst, Pending, Used, Saved,
      Fields, Units, R!Ids, R!Observations
<1> QED
  BY <1>1, UnitsStep, ObservationStep, StateSteps, SelectStep, CheckStep, WorkflowStep, PolicyStep,
     BeginSteps, OutcomeStep, LoadStep, AppendStep, WriteStep, IncrementStep, FailStep
  DEF R!Next

-----------------------------------------------------------------------------
(* What the invariant says *)

LEMMA RecordTyped == RecordInv => R!TypeOK
<1> SUFFICES ASSUME RecordInv PROVE R!TypeOK
  OBVIOUS
<1>1. births \in Nat /\ births <= MaxBirths /\ MaxBirths \in Nat
  BY LoadedIsSound, RecordAssumption
<1>2. ASSUME review # R!None
      PROVE  /\ review.state \in R!State /\ review.outcome \in R!Outcome
             /\ review.check \in {"unchecked", "met", "not_met"}
             /\ DOMAIN review.units \subseteq Unit /\ review.picked \subseteq R!Id
             /\ \A o \in R!Observations(review) :
                  o.id \in R!Id /\ o.include \in BOOLEAN /\ o.birth \in 1 .. births
             /\ review.saved \in 0 .. MaxSaved /\ review.used \in 0 .. MaxSaved
  <2>1. SoundRecord(review, births) /\ Units(review.units, births)
    BY <1>2 DEF RecordInv, SoundRecord
  <2>2. R!Ids(review) \subseteq 1 .. births /\ 1 .. births \subseteq R!Id
    BY <1>1, <2>1, IdsName DEF R!Id
  <2>3. \A o \in R!Observations(review) :
          o.id \in R!Id /\ o.include \in BOOLEAN /\ o.birth \in 1 .. births
    BY <2>1, <2>2 DEF R!Observations, Units, ObservationOf
  <2> QED BY <2>1, <2>2, <2>3 DEF SoundRecord, Units
<1>3. bank.saved \in 0 .. MaxSaved /\ bank.used \in 0 .. MaxSaved
  BY DEF RecordInv, Counts
<1> QED BY <1>2, <1>3 DEF RecordInv, R!TypeOK, EditorStep

LEMMA EditsAreValid == RecordInv => R!EveryEditIsValid
<1> SUFFICES ASSUME RecordInv PROVE R!EveryEditIsValid
  OBVIOUS
<1> DEFINE r == R!OrEmpty(review)
<1>1. births \in Nat /\ SoundRecord(r, births) /\ Means(r, meant)
  BY LoadedIsSound
<1>2. review # R!None => R!Valid(review)
  BY <1>1, SoundRecordIsValid DEF R!OrEmpty
<1>3. \A us \in SUBSET Unit : R!Valid(R!WithUnits(r, us))
  BY <1>1, UnitsSound, SoundRecordIsValid
<1>4. ASSUME R!Existing(review), NEW u \in DOMAIN review.units, NEW include \in BOOLEAN
      PROVE  R!Valid(R!WithObservation(review, u, include, births + 1))
  <2>1. SoundRecord(review, births) /\ Means(review, meant)
    BY <1>1, <1>4 DEF R!Existing, R!OrEmpty
  <2> DEFINE n == IF review.units[u] = R!Nothing THEN births + 1 ELSE births
  <2>2. SoundRecord(R!WithObservation(review, u, include, births + 1), n) /\ n \in Nat
    BY <1>1, <2>1, ObservationSound
  <2> HIDE DEF n
  <2> QED BY <2>2, SoundRecordIsValid
<1>5. ASSUME NEW status \in R!Available(r, TRUE) PROVE R!Valid(R!WithOutcome(r, status))
  <2> DEFINE v == R!WithOutcome(r, status)
  <2>1. Fields(r) /\ R!Valid(r)
    BY <1>1, SoundRecordIsValid DEF SoundRecord
  <2>2. v = [r EXCEPT !.outcome = status, !.state = R!Decided(status)]
    BY DEF R!WithOutcome
  <2> HIDE DEF v, r
  <2>3. v.picked = r.picked /\ v.units = r.units /\ v.outcome = status /\ v.state = R!Decided(status)
    BY <2>1, <2>2 DEF Fields
  <2>4. R!Ids(v) = R!Ids(r) /\ R!Observations(v) = R!Observations(r)
    BY <2>3 DEF R!Ids, R!Observations
  <2> QED BY <2>1, <2>3, <2>4 DEF R!Valid, R!Decided, v
<1> QED BY <1>2, <1>3, <1>4, <1>5 DEF R!EveryEditIsValid

LEMMA ReturnsCohere == RecordInv => R!ReturnedIsCoherent
BY DEF RecordInv, SoundRecord, R!ReturnedIsCoherent

LEMMA SelectionsAreMeant == RecordInv => R!SelectedIsMeant
<1> SUFFICES ASSUME RecordInv, review # R!None, NEW o \in R!Appearing(review)
             PROVE  o.birth = meant[o.id]
  BY DEF R!SelectedIsMeant
<1>1. PICK u \in DOMAIN review.units : review.units[u] = o /\ o # R!Nothing /\ o.id \in review.picked
  BY DEF R!Appearing, R!Observations
<1> QED BY <1>1 DEF RecordInv, Means

LEMMA BankIsBehind == RecordInv => R!BankAgrees
<1> SUFFICES ASSUME RecordInv, review # R!None
             PROVE  bank.used <= review.used /\ (R!OneSession => review.saved <= bank.saved)
  BY DEF R!BankAgrees
<1>1. IsFiniteSet(Pending) /\ Cardinality(Pending) \in Nat
  BY RecordAssumption, FS_Subset, FS_CardinalityType DEF Pending
<1>2. bank.used \in Nat /\ Used \in Nat
  BY Numbers
<1> QED BY <1>1, <1>2 DEF RecordInv, UsageBehind, SavedFirst, Used, Saved

-----------------------------------------------------------------------------
(***************************************************************************)
(* What is published of the review.                                        *)
(***************************************************************************)
\* The review is a record of these fields.
Shape ==
  review = [state |-> review.state, outcome |-> review.outcome, note |-> review.note,
            unmet |-> review.unmet, units |-> review.units, kind |-> review.kind,
            observed |-> review.observed, rated |-> review.rated, options |-> review.options,
            comments |-> review.comments, showObservations |-> review.showObservations]

\* The signals of a return agree also when the assignment was written over.
ProjectionInv ==
  Shape /\ P!TypeOK /\ P!ReturnedSignalsAgree(review) /\ P!EditsStayPublishable

\* The type invariant, field by field of a review that was edited.
LEMMA TypedAfter ==
  ASSUME ProjectionInv, assignment' = assignment, rewritten' = rewritten,
         review'.state \in {"open", P!Returned}, review'.outcome \in P!Outcome,
         review'.units \subseteq FewUnits,
         DOMAIN review'.observed \subseteq review'.units \X Standard,
         \A s \in DOMAIN review'.options : review'.options[s] \in P!Options,
         DOMAIN review'.rated \subseteq Standard, DOMAIN review'.options \subseteq Standard
  PROVE  P!TypeOK'
BY DEF ProjectionInv, P!TypeOK

LEMMA Typed ==
  ASSUME ProjectionInv
  PROVE  /\ review.state \in {"open", P!Returned} /\ review.outcome \in P!Outcome
         /\ review.units \subseteq FewUnits
         /\ \A o \in DOMAIN review.observed : o \in review.units \X Standard
         /\ \A s \in DOMAIN review.options : review.options[s] \in P!Options
         /\ DOMAIN review.rated \subseteq Standard /\ DOMAIN review.options \subseteq Standard
BY DEF ProjectionInv, P!TypeOK

LEMMA ProjectionStart == P!Init => ProjectionInv
<1> SUFFICES ASSUME P!Init PROVE ProjectionInv
  OBVIOUS
<1>1. /\ review = P!Empty /\ rewritten = FALSE /\ assignment \in P!Assignment
  BY DEF P!Init
<1>2. Shape
  BY <1>1 DEF Shape, P!Empty
<1>3. DOMAIN <<>> = {}
  OBVIOUS
<1>4. P!TypeOK
  BY <1>1, <1>3 DEF P!TypeOK, P!Empty, P!Outcome
<1>5. P!ReturnedSignalsAgree(review)
  BY <1>1 DEF P!ReturnedSignalsAgree, P!Empty, P!Returned
<1>6. P!Publishable(review, assignment)
  BY <1>1, <1>3, <1>5 DEF P!Publishable, P!Empty, P!ObservationsFit, P!RatingsFit, P!FeedbackFits,
       P!Returned
<1> QED BY <1>2, <1>4, <1>5, <1>6 DEF ProjectionInv, P!EditsStayPublishable

\* What an edit leaves alone stays as it was; what it writes it writes so that the
\* generator still accepts it.
LEMMA DefinedStep ==
  ASSUME ProjectionInv, NEW us \in SUBSET FewUnits, us # {}, P!SetReviewUnits(us)
  PROVE  ProjectionInv'
<1> DEFINE kept == IF review.kind = assignment.kind
                   THEN {o \in DOMAIN review.observed : o[1] \in us} ELSE {}
<1>1. /\ review.state # P!Returned /\ assignment' = assignment /\ rewritten' = rewritten
      /\ review' = [review EXCEPT !.units = us, !.kind = assignment.kind,
                         !.observed = [o \in kept |-> review.observed[o]],
                         !.options = P!Dropped(review, kept)]
  BY DEF P!SetReviewUnits, P!Edit, P!Open
<1>2. /\ review'.state = review.state /\ review'.outcome = review.outcome
      /\ review'.units = us /\ review'.kind = assignment.kind /\ review'.rated = review.rated
      /\ review'.observed = [o \in kept |-> review.observed[o]]
      /\ review'.options = P!Dropped(review, kept) /\ review'.comments = review.comments
      /\ Shape'
  BY <1>1 DEF ProjectionInv, Shape
<1> HIDE DEF kept
<1>3. kept \subseteq DOMAIN review.observed /\ \A o \in kept : o[1] \in us
  BY DEF kept
<1>4. /\ DOMAIN review'.observed = kept
      /\ \A o \in kept : review'.observed[o] = review.observed[o]
  BY <1>2
<1>5. /\ DOMAIN review'.options = DOMAIN review.options
      /\ \A s \in DOMAIN review.options :
           review'.options[s] = [review.options[s] EXCEPT !.picked = @ \cap kept]
  BY <1>2 DEF P!Dropped
<1>6. \A s \in DOMAIN review.options :
        /\ review'.options[s] \in P!Options
        /\ review'.options[s].picked = review.options[s].picked \cap kept
  <2> SUFFICES ASSUME NEW s \in DOMAIN review.options
               PROVE  /\ review'.options[s] \in P!Options
                      /\ review'.options[s].picked = review.options[s].picked \cap kept
    OBVIOUS
  <2> DEFINE old == review.options[s]
  <2>1. old \in P!Options
    BY Typed
  <2>2. review'.options[s] = [old EXCEPT !.picked = old.picked \cap kept]
    BY <1>5
  <2> HIDE DEF old
  <2>3. /\ [old EXCEPT !.picked = old.picked \cap kept] \in P!Options
        /\ [old EXCEPT !.picked = old.picked \cap kept].picked = old.picked \cap kept
    BY <2>1 DEF P!Options
  <2> QED BY <2>2, <2>3 DEF old
<1>7. P!TypeOK'
  <2>1. \A o \in kept : o \in us \X Standard
    BY <1>3, Typed
  <2> QED BY <1>1, <1>2, <1>4, <1>5, <1>6, <2>1, Typed, TypedAfter
<1>8. P!ReturnedSignalsAgree(review)'
  BY <1>2 DEF ProjectionInv, P!ReturnedSignalsAgree
<1>9. ~rewritten => P!Publishable(review, assignment)'
  <2> SUFFICES ASSUME ~rewritten PROVE P!Publishable(review, assignment)'
    OBVIOUS
  <2>1. P!Publishable(review, assignment)
    BY DEF ProjectionInv, P!EditsStayPublishable
  <2>2. P!ObservationsFit(review, assignment)'
    BY <1>1, <1>2, <1>3, <1>4, <2>1 DEF P!Publishable, P!ObservationsFit
  <2>3. P!RatingsFit(review, assignment)'
    BY <1>1, <1>2, <2>1 DEF P!Publishable, P!RatingsFit
  <2>4. P!FeedbackFits(review, assignment)'
    BY <1>1, <1>2, <1>4, <1>5, <1>6, <2>1 DEF P!Publishable, P!FeedbackFits
  <2> QED BY <1>1, <1>2, <1>8, <2>1, <2>2, <2>3, <2>4 DEF P!Publishable
<1> QED BY <1>1, <1>2, <1>7, <1>8, <1>9 DEF ProjectionInv, P!EditsStayPublishable

LEMMA ObservedStep ==
  ASSUME ProjectionInv, NEW o \in P!Observation, NEW text \in BOOLEAN, P!SetObservation(o, text)
  PROVE  ProjectionInv'
<1> DEFINE new == [text |-> text, scale |-> assignment.scale]
<1>1. /\ o[1] \in review.units /\ o[2] \in assignment.focus
      /\ assignment' = assignment /\ rewritten' = rewritten
      /\ review' = [review EXCEPT !.observed = P!With(@, o, new)]
  BY DEF P!SetObservation, P!Edit
<1>2. /\ review'.state = review.state /\ review'.outcome = review.outcome
      /\ review'.units = review.units /\ review'.kind = review.kind /\ review'.rated = review.rated
      /\ review'.observed = P!With(review.observed, o, new)
      /\ review'.options = review.options /\ review'.comments = review.comments
      /\ Shape'
  BY <1>1 DEF ProjectionInv, Shape
<1>3. /\ DOMAIN review'.observed = DOMAIN review.observed \cup {o}
      /\ review'.observed[o] = new
      /\ \A x \in DOMAIN review.observed : x # o => review'.observed[x] = review.observed[x]
  BY <1>2 DEF P!With
<1>4. P!TypeOK'
  <2>1. o \in review.units \X Standard
    BY <1>1 DEF P!Observation
  <2> QED BY <1>1, <1>2, <1>3, <2>1, Typed, TypedAfter
<1>5. P!ReturnedSignalsAgree(review)'
  BY <1>2 DEF ProjectionInv, P!ReturnedSignalsAgree
<1>6. ~rewritten => P!Publishable(review, assignment)'
  <2> SUFFICES ASSUME ~rewritten PROVE P!Publishable(review, assignment)'
    OBVIOUS
  <2>1. P!Publishable(review, assignment)
    BY DEF ProjectionInv, P!EditsStayPublishable
  <2>2. P!ObservationsFit(review, assignment)'
    BY <1>1, <1>2, <1>3, <2>1 DEF P!Publishable, P!ObservationsFit
  <2>3. P!RatingsFit(review, assignment)'
    BY <1>1, <1>2, <2>1 DEF P!Publishable, P!RatingsFit
  <2>4. P!FeedbackFits(review, assignment)'
    BY <1>1, <1>2, <1>3, <2>1 DEF P!Publishable, P!FeedbackFits
  <2> QED BY <1>1, <1>2, <1>5, <2>1, <2>2, <2>3, <2>4 DEF P!Publishable
<1> QED BY <1>1, <1>2, <1>4, <1>5, <1>6 DEF ProjectionInv, P!EditsStayPublishable

LEMMA RatingStep ==
  ASSUME ProjectionInv, NEW s \in Standard, NEW text \in BOOLEAN, NEW include \in BOOLEAN,
         P!SetOverallRating(s, text, include)
  PROVE  ProjectionInv'
<1> DEFINE new == [text |-> text, include |-> include, scale |-> assignment.scale]
<1>1. /\ s \in assignment.focus /\ assignment' = assignment /\ rewritten' = rewritten
      /\ review' = [review EXCEPT !.rated = P!With(@, s, new)]
  BY DEF P!SetOverallRating, P!Edit
<1>2. /\ review'.state = review.state /\ review'.outcome = review.outcome
      /\ review'.units = review.units /\ review'.kind = review.kind
      /\ review'.rated = P!With(review.rated, s, new) /\ review'.observed = review.observed
      /\ review'.options = review.options /\ review'.comments = review.comments
      /\ Shape'
  BY <1>1 DEF ProjectionInv, Shape
<1>3. /\ DOMAIN review'.rated = DOMAIN review.rated \cup {s}
      /\ review'.rated[s].scale = assignment.scale
      /\ \A x \in DOMAIN review.rated : x # s => review'.rated[x] = review.rated[x]
  BY <1>2 DEF P!With
<1>4. P!TypeOK'
  BY <1>1, <1>2, <1>3, Typed, TypedAfter
<1>5. P!ReturnedSignalsAgree(review)'
  BY <1>2 DEF ProjectionInv, P!ReturnedSignalsAgree
<1>6. ~rewritten => P!Publishable(review, assignment)'
  BY <1>1, <1>2, <1>3, <1>5
  DEF ProjectionInv, P!EditsStayPublishable, P!Publishable, P!ObservationsFit, P!RatingsFit,
       P!FeedbackFits
<1> QED BY <1>1, <1>2, <1>4, <1>5, <1>6 DEF ProjectionInv, P!EditsStayPublishable

LEMMA OptionsStep ==
  ASSUME ProjectionInv, NEW s \in Standard, NEW new \in P!Options, P!SetFeedbackOptions(s, new)
  PROVE  ProjectionInv'
<1>1. /\ s \in assignment.focus /\ assignment' = assignment /\ rewritten' = rewritten
      /\ new.picked \subseteq {o \in DOMAIN review.observed : o[2] = s}
      /\ \E show : review' = [review EXCEPT !.options = P!With(review.options, s, new),
                                            !.showObservations = show]
  BY DEF P!SetFeedbackOptions, P!Edit, P!Eligible
<1>2. /\ review'.state = review.state /\ review'.outcome = review.outcome
      /\ review'.units = review.units /\ review'.kind = review.kind
      /\ review'.rated = review.rated /\ review'.observed = review.observed
      /\ review'.options = P!With(review.options, s, new) /\ review'.comments = review.comments
      /\ Shape'
  BY <1>1 DEF ProjectionInv, Shape
<1>3. /\ DOMAIN review'.options = DOMAIN review.options \cup {s}
      /\ review'.options[s] = new
      /\ \A x \in DOMAIN review.options : x # s => review'.options[x] = review.options[x]
  BY <1>2 DEF P!With
<1>4. P!TypeOK'
  BY <1>1, <1>2, <1>3, Typed, TypedAfter
<1>5. P!ReturnedSignalsAgree(review)'
  BY <1>2 DEF ProjectionInv, P!ReturnedSignalsAgree
<1>6. ~rewritten => P!Publishable(review, assignment)'
  BY <1>1, <1>2, <1>3, <1>5
  DEF ProjectionInv, P!EditsStayPublishable, P!Publishable, P!ObservationsFit, P!RatingsFit,
       P!FeedbackFits
<1> QED BY <1>1, <1>2, <1>4, <1>5, <1>6 DEF ProjectionInv, P!EditsStayPublishable

LEMMA CommentStep ==
  ASSUME ProjectionInv, NEW s \in Standard, NEW include \in BOOLEAN, P!AddComment(s, include)
  PROVE  ProjectionInv'
<1> DEFINE new == [rating |-> TRUE, rationale |-> TRUE, picked |-> {}]
           options == IF s \in DOMAIN review.options THEN review.options
                      ELSE P!With(review.options, s, new)
<1>1. /\ s \in assignment.focus /\ assignment' = assignment /\ rewritten' = rewritten
      /\ review' = [review EXCEPT !.comments = @ \cup {[of |-> s, include |-> include]},
                                  !.options = options]
  BY DEF P!AddComment, P!Edit, ProjectionInv, Shape
<1>2. /\ review'.state = review.state /\ review'.outcome = review.outcome
      /\ review'.units = review.units /\ review'.kind = review.kind
      /\ review'.rated = review.rated /\ review'.observed = review.observed
      /\ review'.options = options
      /\ review'.comments = review.comments \cup {[of |-> s, include |-> include]}
      /\ Shape'
  BY <1>1 DEF ProjectionInv, Shape
<1>3. /\ DOMAIN options = DOMAIN review.options \cup {s}
      /\ options[s] = new \/ (s \in DOMAIN review.options /\ options[s] = review.options[s])
      /\ \A x \in DOMAIN review.options : options[x] = review.options[x]
  BY DEF P!With
<1> HIDE DEF options
<1>4. P!TypeOK'
  <2>1. new \in P!Options
    BY DEF P!Options
  <2> QED BY <1>1, <1>2, <1>3, <2>1, Typed, TypedAfter
<1>5. P!ReturnedSignalsAgree(review)'
  BY <1>2 DEF ProjectionInv, P!ReturnedSignalsAgree
<1>6. ~rewritten => P!Publishable(review, assignment)'
  <2> SUFFICES ASSUME ~rewritten PROVE P!Publishable(review, assignment)'
    OBVIOUS
  <2>1. P!Publishable(review, assignment)
    BY DEF ProjectionInv, P!EditsStayPublishable
  <2>2. P!ObservationsFit(review, assignment)' /\ P!RatingsFit(review, assignment)'
    BY <1>1, <1>2, <2>1 DEF P!Publishable, P!ObservationsFit, P!RatingsFit
  <2>3. \A x \in DOMAIN options :
          x \in assignment.focus /\ \A o \in options[x].picked : o \in DOMAIN review.observed /\ o[2] = x
    BY <1>1, <1>3, <2>1 DEF P!Publishable, P!FeedbackFits
  <2>4. \A c \in review'.comments : c.of \in assignment.focus
    BY <1>1, <1>2, <2>1 DEF P!Publishable, P!FeedbackFits
  <2> QED BY <1>1, <1>2, <1>5, <2>1, <2>2, <2>3, <2>4 DEF P!Publishable, P!FeedbackFits
<1> QED BY <1>1, <1>2, <1>4, <1>5, <1>6 DEF ProjectionInv, P!EditsStayPublishable

LEMMA RequirementStep ==
  ASSUME ProjectionInv, NEW met \in BOOLEAN, P!SetRequirementCheck(met)
  PROVE  ProjectionInv'
<1>1. /\ assignment' = assignment /\ rewritten' = rewritten
      /\ review' = [review EXCEPT !.unmet = ~met]
  BY DEF P!SetRequirementCheck, P!Edit
<1>2. /\ review'.state = review.state /\ review'.outcome = review.outcome
      /\ review'.units = review.units /\ review'.kind = review.kind
      /\ review'.rated = review.rated /\ review'.observed = review.observed
      /\ review'.options = review.options /\ review'.comments = review.comments
      /\ Shape'
  BY <1>1 DEF ProjectionInv, Shape
<1> QED
  BY <1>1, <1>2
  DEF ProjectionInv, P!TypeOK, P!EditsStayPublishable, P!ReturnedSignalsAgree, P!Publishable,
      P!ObservationsFit, P!RatingsFit, P!FeedbackFits

LEMMA DecidedStep ==
  ASSUME ProjectionInv, NEW status \in P!Outcome \ {"not_checked"}, NEW note \in BOOLEAN,
         P!SetOutcome(status, note)
  PROVE  ProjectionInv'
<1>1. /\ assignment' = assignment /\ rewritten' = rewritten
      /\ status = P!Returned => assignment.returns
      /\ review' = [review EXCEPT !.outcome = status, !.note = note, !.state = P!StateAfter(status)]
  BY DEF P!SetOutcome, P!Edit
<1>2. /\ review'.state = P!StateAfter(status) /\ review'.outcome = status
      /\ review'.units = review.units /\ review'.kind = review.kind
      /\ review'.rated = review.rated /\ review'.observed = review.observed
      /\ review'.options = review.options /\ review'.comments = review.comments
      /\ Shape'
  BY <1>1 DEF ProjectionInv, Shape
<1>3. P!ReturnedSignalsAgree(review)'
  BY <1>2 DEF P!ReturnedSignalsAgree, P!StateAfter, P!Returned
<1>4. P!TypeOK'
  BY <1>1, <1>2 DEF ProjectionInv, P!TypeOK, P!StateAfter
<1>5. ~rewritten => P!Publishable(review, assignment)'
  BY <1>1, <1>2, <1>3
  DEF ProjectionInv, P!EditsStayPublishable, P!Publishable, P!ObservationsFit, P!RatingsFit,
       P!FeedbackFits
<1> QED BY <1>1, <1>2, <1>3, <1>4, <1>5 DEF ProjectionInv, P!EditsStayPublishable

LEMMA ProjectionStep == ProjectionInv /\ [P!Next]_(P!vars) => ProjectionInv'
<1> SUFFICES ASSUME ProjectionInv, [P!Next]_(P!vars) PROVE ProjectionInv'
  OBVIOUS
<1>1. CASE P!OverwriteAssignment
  BY <1>1
  DEF P!OverwriteAssignment, ProjectionInv, Shape, P!TypeOK, P!ReturnedSignalsAgree,
       P!EditsStayPublishable
<1>2. CASE UNCHANGED P!vars
  BY <1>2
  DEF P!vars, ProjectionInv, Shape, P!TypeOK, P!ReturnedSignalsAgree, P!EditsStayPublishable,
       P!Publishable,
      P!ObservationsFit, P!RatingsFit, P!FeedbackFits
<1> QED
  BY <1>1, <1>2, DefinedStep, ObservedStep, RatingStep, OptionsStep, CommentStep, RequirementStep,
     DecidedStep
  DEF P!Next

\* The two ways of selecting texts, written down twice, select the same.
LEMMA SelectionsAgree == ProjectionInv => P!PublishedAsShown
<1> SUFFICES ASSUME ProjectionInv PROVE P!PublishedAsShown
  OBVIOUS
<1> DEFINE p == P!Projection(review)
           observations == {o \in DOMAIN p.observations : p.observations[o] = "included"}
           rationales == {s \in DOMAIN p.ratings : p.ratings[s] = "included"}
<1>1. observations = P!ShownObservations(review)
  BY DEF P!Projection, P!ObservationTexts, P!Published, P!ObservationSelected, P!ShownObservations
<1>2. rationales = P!ShownRationales(review)
  BY DEF P!Projection, P!Published, P!RationaleSelected, P!RatingSelected, P!ShownRationales
<1>3. p.comments = review.comments /\ p.note = P!NoteText(review)
  BY DEF P!Projection
<1>4. (p.note = "included") <=> (review.note /\ review.outcome = P!Returned)
  BY <1>3 DEF P!NoteText, P!Published
<1>5. (review.outcome = P!Returned) <=> (review.state = P!Returned)
  BY DEF ProjectionInv, P!ReturnedSignalsAgree
<1>6. P!IncludedTexts(p) = P!Texts(observations, rationales, p.comments, p.note = "included")
  BY DEF P!IncludedTexts
<1> HIDE DEF p, observations, rationales
<1>7. CASE review.state = P!Returned
  <2>1. ASSUME P!Exportable(review) PROVE <<"note">> \in P!IncludedTexts(p)
    <3>1. (p.note = "included") = TRUE
      BY <1>4, <1>7, <2>1 DEF P!Exportable
    <3> QED BY <1>6, <3>1 DEF P!Texts
  <2> QED BY <1>7, <2>1 DEF P!PublishedAsShown, p
<1>8. CASE review.state # P!Returned
  <2>1. (p.note = "included") = FALSE
    BY <1>4, <1>5, <1>8
  <2>2. P!IncludedTexts(p) = P!ShownTexts(review)
    BY <1>1, <1>2, <1>3, <1>6, <1>8, <2>1 DEF P!ShownTexts
  <2> QED BY <1>8, <2>2 DEF P!PublishedAsShown, p
<1> QED BY <1>7, <1>8

-----------------------------------------------------------------------------
(***************************************************************************)
(* Feedback, and the reader of published results.                          *)
(***************************************************************************)
LEMMA FeedbackAssumption ==
  MaxTime \in Nat \ {0} /\ MaxText \in Nat \ {0} /\ MaxVersion \in Nat \ {0}
BY MCFeedbackAssumption

ExportFields(j) ==
  /\ j = [want |-> j.want, time |-> j.time, text |-> j.text, selection |-> j.selection,
          current |-> j.current, left |-> j.left]
  /\ j.want = [formats |-> j.want.formats, overwrite |-> j.want.overwrite,
               planned |-> j.want.planned]
  /\ j.want.formats \subseteq A!Format /\ j.left \subseteq j.want.formats
  /\ j.time \in A!Time /\ j.text \in A!Text \cup {0} /\ j.selection \in A!Selection \cup {0}
  /\ j.current \in BOOLEAN

FeedbackTypes ==
  /\ content \in [text : A!Text, updated : A!Time, composed : BOOLEAN]
  /\ exports \in [A!Format -> [source : A!Time, selection : A!Selection \cup {A!Unbound}, there : BOOLEAN]]
  /\ \A f \in A!Format : ~exports[f].there => exports[f] = A!NoMetadata
  /\ file \in [A!Format -> [text : A!Text \cup {0}, time : A!Time]]
  /\ selection \in A!Selection /\ clock \in A!Time
  /\ at \in [Exporter -> {"idle", "preview", "load", "write", "verify"}]
  /\ doing = [e \in Exporter |-> doing[e]] /\ \A e \in Exporter : ExportFields(doing[e])
  /\ selecting \in [step : {"no", "bind", "move"}, loaded : A!Selection, fresh : BOOLEAN]
  /\ packet \in [step : {"idle", "inspected", "confirmed", "again", "read"}, updated : A!Time,
                 bytes : [text : A!Text \cup {0}, time : A!Time], then : A!Text \cup {0}]

\* No time stamp is ahead of the clock, and none of an export is of the first.
Dated(s, j, now) ==
  /\ j.time <= now /\ (s = "idle" => j.left = {})
  /\ s \in {"load", "write"} => 2 <= j.time
  /\ s = "write" => j.selection \in A!Selection

InThePast ==
  /\ 1 <= clock /\ content.updated <= clock
  /\ \A f \in A!Format : exports[f].source <= clock /\ file[f].time <= clock
  /\ \A e \in Exporter : Dated(at[e], doing[e], clock)

\* Legacy feedback that is current names the first selection, unless it slipped.
LegacyStands ==
  /\ \A f \in A!Format : exports[f].there /\ exports[f].selection = A!Unbound => exports[f].source = 1
  /\ selection = 1 \/ slipped \/ \A f \in A!Format : ~A!IsLegacy(f)
  /\ selecting.step = "move" => \A f \in A!Format : ~A!IsLegacy(f)

\* The export f claims to be of the review as it is.
OfReview(f) == exports[f].there /\ exports[f].source = content.updated

\* One export at a time: its time is new to all records, its text that of the review,
\* unless no metadata names the review any more; what it wrote is what it loaded.
Exporting(s, j) ==
  /\ s \in {"load", "write"} =>
       content.updated # j.time /\ \A f \in A!Format : exports[f].source # j.time
  /\ s = "write" =>
       /\ j.text = content.text \/ \A f \in A!Format : ~OfReview(f)
       /\ j.text <= content.text
       /\ j.current => j.text = content.text
       /\ \A f \in j.want.formats \ j.left : file[f].text = j.text
  /\ s = "load" \/ (s = "write" /\ "pdf" \in j.left) => file["pdf"].time < j.time

ExportStands ==
  /\ \A f \in A!Format : OfReview(f) /\ file[f] # A!NoFile => file[f].text = content.text
  /\ \A e \in Exporter : Exporting(at[e], doing[e])

\* The bytes of the preview are the file's, or the file is newer.
PacketStands ==
  /\ packet.bytes = file["pdf"] \/ packet.bytes.time < file["pdf"].time \/ packet.bytes = A!NoFile
  /\ packet.step \in {"again", "read"} /\ packet.bytes = file["pdf"] => file["pdf"].text = packet.then

ExportInv ==
  FeedbackTypes /\ InThePast /\ LegacyStands /\ (A!OneExporter => ExportStands /\ PacketStands)

ArtifactTypes ==
  /\ version \in 1 .. MaxVersion /\ work \in [A!Selection -> {"sound", "changed", "gone"}]
  /\ bound = [submission |-> bound.submission, review |-> bound.review, selection |-> bound.selection]
  /\ bound.submission <= version /\ bound.submission \in Nat
  /\ reading = [step |-> reading.step, kind |-> reading.kind, evidence |-> reading.evidence,
                touched |-> reading.touched]
  /\ reading.step \in {"idle", "source", "artifact"} /\ reading.kind \in A!Kind
  /\ reading.touched \in BOOLEAN

PublishedText == bound.review[1].text
FeedbackRead ==
  reading.step = "artifact" /\ reading.kind \in A!Format =>
    /\ PublishedText \in Nat /\ PublishedText <= content.text
    /\ \A e \in Exporter : at[e] = "write" => PublishedText <= doing[e].text
    /\ file[reading.kind] # A!NoFile =>
         /\ PublishedText <= file[reading.kind].text
         /\ PublishedText = file[reading.kind].text \/ reading.touched

ArtifactInv ==
  /\ ExportInv /\ ArtifactTypes
  /\ reading.step = "artifact" /\ reading.kind = "student_work" =>
       reading.evidence = bound.selection
  /\ A!OneExporter => FeedbackRead

-----------------------------------------------------------------------------
(* Facts about one state *)

LEMMA TimesAreNumbers ==
  /\ A!Time \subseteq Nat /\ A!Text \subseteq Nat /\ 0 \in A!Time /\ 1 \in A!Time /\ 1 \in A!Text
  /\ A!Selection \subseteq Nat /\ A!Unbound \notin A!Selection
  /\ \A t \in Nat : t <= MaxTime => t \in A!Time
  /\ \A t \in Nat : 1 <= t /\ t <= MaxText => t \in A!Text
BY FeedbackAssumption DEF A!Time, A!Text, A!Selection, A!Unbound

LEMMA PresentMeans ==
  ASSUME NEW f \in A!Format, A!Status(f) = "present"
  PROVE  /\ OfReview(f) /\ file[f] # A!NoFile
         /\ exports[f].selection = A!Unbound \/ exports[f].selection = selection
BY DEF A!Status, OfReview

LEMMA FeedbackStart == A!Init => ExportInv
<1> SUFFICES ASSUME A!Init PROVE ExportInv
  OBVIOUS
<1> DEFINE legacy == [source |-> 1, selection |-> A!Unbound, there |-> TRUE]
<1>1. /\ content = [text |-> 1, updated |-> 1, composed |-> TRUE]
      /\ selection = 1 /\ clock = 1 /\ slipped = FALSE
      /\ at = [e \in Exporter |-> "idle"] /\ doing = [e \in Exporter |-> A!Idle]
      /\ selecting = A!NotSelecting /\ packet = A!NoPacket
  BY DEF A!Init
<1>2. /\ exports \in [A!Format -> {A!NoMetadata, legacy}]
      /\ file \in [A!Format -> {A!NoFile, [text |-> 1, time |-> 1]}]
  BY DEF A!Init
<1>3. /\ A!NoMetadata \in [source : A!Time, selection : A!Selection \cup {A!Unbound}, there : BOOLEAN]
      /\ legacy \in [source : A!Time, selection : A!Selection \cup {A!Unbound}, there : BOOLEAN]
      /\ A!NoFile \in [text : A!Text \cup {0}, time : A!Time]
      /\ [text |-> 1, time |-> 1] \in [text : A!Text \cup {0}, time : A!Time]
  BY TimesAreNumbers DEF A!NoMetadata, A!NoFile, A!Unbound
<1>4. ExportFields(A!Idle)
  BY TimesAreNumbers DEF ExportFields, A!Idle, A!Single
<1>5. FeedbackTypes
  <2>1. content \in [text : A!Text, updated : A!Time, composed : BOOLEAN]
    BY <1>1, TimesAreNumbers
  <2>2. exports \in [A!Format -> [source : A!Time, selection : A!Selection \cup {A!Unbound}, there : BOOLEAN]]
    BY <1>2, <1>3
  <2>3. \A f \in A!Format : ~exports[f].there => exports[f] = A!NoMetadata
    BY <1>2
  <2>4. file \in [A!Format -> [text : A!Text \cup {0}, time : A!Time]]
    BY <1>2, <1>3
  <2>5. /\ at \in [Exporter -> {"idle", "preview", "load", "write", "verify"}]
        /\ doing = [e \in Exporter |-> doing[e]] /\ \A e \in Exporter : ExportFields(doing[e])
    BY <1>1, <1>4
  <2>6. selecting \in [step : {"no", "bind", "move"}, loaded : A!Selection, fresh : BOOLEAN]
    BY <1>1 DEF A!NotSelecting, A!Selection
  <2>7. packet \in [step : {"idle", "inspected", "confirmed", "again", "read"}, updated : A!Time,
                    bytes : [text : A!Text \cup {0}, time : A!Time], then : A!Text \cup {0}]
    BY <1>1, <1>3, TimesAreNumbers DEF A!NoPacket
  <2>8. selection \in A!Selection /\ clock \in A!Time
    BY <1>1, TimesAreNumbers DEF A!Selection
  <2> QED BY <2>1, <2>2, <2>3, <2>4, <2>5, <2>6, <2>7, <2>8 DEF FeedbackTypes
<1>6. InThePast
  BY <1>1, <1>2 DEF InThePast, Dated, A!Idle, A!NoMetadata, A!NoFile
<1>7. LegacyStands
  BY <1>1, <1>2 DEF LegacyStands, A!NoMetadata, A!NotSelecting
<1>8. ExportStands
  <2>1. \A f \in A!Format : file[f] # A!NoFile => file[f].text = 1
    BY <1>2
  <2> QED BY <1>1, <2>1 DEF ExportStands, Exporting
<1>9. PacketStands
  BY <1>1 DEF PacketStands, A!NoPacket
<1> QED BY <1>5, <1>6, <1>7, <1>8, <1>9 DEF ExportInv

-----------------------------------------------------------------------------
(* Steps of an assembly: nothing but the packet changes. *)

LEMMA PacketKeeps ==
  ASSUME ExportInv, UNCHANGED A!others,
         packet' \in [step : {"idle", "inspected", "confirmed", "again", "read"}, updated : A!Time,
                      bytes : [text : A!Text \cup {0}, time : A!Time], then : A!Text \cup {0}],
         A!OneExporter => PacketStands'
  PROVE  ExportInv'
<1>1. UNCHANGED <<content, exports, file, selection, clock, at, doing, selecting, slipped>>
  BY DEF A!others
<1>2. FeedbackTypes'
  BY <1>1 DEF ExportInv, FeedbackTypes
<1>3. InThePast'
  BY <1>1 DEF ExportInv, InThePast, Dated
<1>4. LegacyStands'
  BY <1>1 DEF ExportInv, LegacyStands, A!IsLegacy
<1>5. ExportStands => ExportStands'
  BY <1>1 DEF ExportStands, Exporting, OfReview
<1> QED BY <1>2, <1>3, <1>4, <1>5 DEF ExportInv

LEMMA PacketSteps ==
  ASSUME ExportInv, A!Inspect \/ A!InspectBytes \/ A!Assemble \/ A!GiveUp
  PROVE  ExportInv'
<1>1. UNCHANGED A!others /\ file' = file
  BY DEF A!Inspect, A!InspectBytes, A!Assemble, A!GiveUp, A!others
<1>2. /\ packet \in [step : {"idle", "inspected", "confirmed", "again", "read"}, updated : A!Time,
                     bytes : [text : A!Text \cup {0}, time : A!Time], then : A!Text \cup {0}]
      /\ content.updated \in A!Time /\ content.text \in A!Text
      /\ file["pdf"] \in [text : A!Text \cup {0}, time : A!Time]
  BY DEF ExportInv, FeedbackTypes, A!Format
<1>3. CASE A!Inspect
  <2>1. \/ packet.step = "idle" /\ packet' = [packet EXCEPT !.step = "inspected", !.updated = content.updated]
        \/ packet.step = "confirmed" /\ packet' = [packet EXCEPT !.step = "again", !.then = content.text]
    BY <1>3 DEF A!Inspect
  <2>2. packet'.bytes = packet.bytes /\ (packet'.step = "inspected" \/ packet'.then = content.text)
    BY <1>2, <2>1
  <2>3. packet' \in [step : {"idle", "inspected", "confirmed", "again", "read"}, updated : A!Time,
                     bytes : [text : A!Text \cup {0}, time : A!Time], then : A!Text \cup {0}]
    BY <1>2, <2>1
  <2>4. ASSUME A!OneExporter PROVE PacketStands'
    <3>1. file["pdf"].text = content.text
      BY <1>3, <2>4, PresentMeans DEF A!Inspect, ExportInv, ExportStands, A!Format
    <3> QED BY <1>1, <2>2, <2>4, <3>1 DEF ExportInv, PacketStands
  <2> QED BY <1>1, <2>3, <2>4, PacketKeeps
<1>4. CASE A!InspectBytes
  <2>1. \/ packet.step = "inspected" /\ packet' = [packet EXCEPT !.step = "confirmed", !.bytes = file["pdf"]]
        \/ /\ packet.step = "again" /\ packet.bytes = file["pdf"]
           /\ packet' = [packet EXCEPT !.step = "read"]
    BY <1>4 DEF A!InspectBytes, A!Step
  <2>2. packet'.bytes = file["pdf"]
        /\ (packet'.step = "confirmed" \/ (packet.step = "again" /\ packet'.then = packet.then))
    BY <1>2, <2>1
  <2>3. packet' \in [step : {"idle", "inspected", "confirmed", "again", "read"}, updated : A!Time,
                     bytes : [text : A!Text \cup {0}, time : A!Time], then : A!Text \cup {0}]
    BY <1>2, <2>1
  <2>4. ASSUME A!OneExporter PROVE PacketStands'
    BY <1>1, <2>1, <2>2, <2>4 DEF ExportInv, PacketStands
  <2> QED BY <1>1, <2>3, <2>4, PacketKeeps
<1>5. CASE A!Assemble \/ A!GiveUp
  <2>1. packet' = A!NoPacket
    BY <1>5 DEF A!Assemble, A!GiveUp
  <2>2. A!NoPacket \in [step : {"idle", "inspected", "confirmed", "again", "read"}, updated : A!Time,
                      bytes : [text : A!Text \cup {0}, time : A!Time], then : A!Text \cup {0}]
    BY TimesAreNumbers DEF A!NoPacket, A!NoFile
  <2>3. PacketStands'
    BY <2>1 DEF PacketStands, A!NoPacket
  <2> QED BY <1>1, <2>1, <2>2, <2>3, PacketKeeps
<1> QED BY <1>3, <1>4, <1>5

-----------------------------------------------------------------------------
(* Steps of an export. *)

LEMMA JobSet ==
  ASSUME FeedbackTypes, NEW e \in Exporter, NEW j, ExportFields(j), doing' = [doing EXCEPT ![e] = j]
  PROVE  /\ doing'[e] = j /\ \A d \in Exporter : d # e => doing'[d] = doing[d]
         /\ doing' = [d \in Exporter |-> doing'[d]] /\ \A d \in Exporter : ExportFields(doing'[d])
<1>1. doing = [d \in Exporter |-> doing[d]] /\ \A d \in Exporter : ExportFields(doing[d])
  BY DEF FeedbackTypes
<1> QED BY <1>1

Place == {"idle", "preview", "load", "write", "verify"}

\* An export goes on by itself.
LEMMA JobKeeps ==
  ASSUME ExportInv, NEW e \in Exporter, NEW s \in Place, NEW j, ExportFields(j),
         at' = [at EXCEPT ![e] = s], doing' = [doing EXCEPT ![e] = j],
         UNCHANGED <<content, exports, file, A!surroundings>>,
         clock' \in A!Time, clock <= clock', Dated(s, j, clock'),
         A!OneExporter => Exporting(s, j)
  PROVE  ExportInv'
<1>1. UNCHANGED <<content, exports, file, selection, selecting, slipped, packet>>
  BY DEF A!surroundings
<1>2. /\ doing'[e] = j /\ \A d \in Exporter : d # e => doing'[d] = doing[d]
      /\ doing' = [d \in Exporter |-> doing'[d]] /\ \A d \in Exporter : ExportFields(doing'[d])
  BY JobSet DEF ExportInv
<1>3. /\ at'[e] = s /\ \A d \in Exporter : d # e => at'[d] = at[d]
      /\ at' \in [Exporter -> {"idle", "preview", "load", "write", "verify"}]
  BY DEF ExportInv, FeedbackTypes, Place
<1>4. FeedbackTypes'
  BY <1>1, <1>2, <1>3 DEF ExportInv, FeedbackTypes
<1>5. InThePast'
  <2>1. /\ content.updated \in Nat /\ clock \in Nat /\ clock' \in Nat
        /\ \A f \in A!Format : exports[f].source \in Nat /\ file[f].time \in Nat
        /\ \A d \in Exporter : doing[d].time \in Nat
    BY TimesAreNumbers DEF ExportInv, FeedbackTypes, ExportFields
  <2>2. InThePast
    BY DEF ExportInv
  <2>3. 1 <= clock' /\ content'.updated <= clock'
        /\ \A f \in A!Format : exports'[f].source <= clock' /\ file'[f].time <= clock'
    BY <1>1, <2>1, <2>2 DEF InThePast
  <2>4. \A d \in Exporter : Dated(at'[d], doing'[d], clock')
    <3>1. \A d \in Exporter : Dated(at[d], doing[d], clock')
      BY <2>1, <2>2 DEF InThePast, Dated
    <3> QED BY <1>2, <1>3, <3>1
  <2> QED BY <2>3, <2>4 DEF InThePast
<1>6. LegacyStands'
  BY <1>1 DEF ExportInv, LegacyStands, A!IsLegacy
<1>7. ASSUME A!OneExporter PROVE ExportStands' /\ PacketStands'
  <2>1. ExportStands /\ PacketStands /\ Exporting(s, j)
    BY <1>7 DEF ExportInv
  <2>2. \A d \in Exporter : Exporting(at'[d], doing'[d])
    BY <1>2, <1>3, <2>1 DEF ExportStands
  <2>3. \A d \in Exporter : Exporting(at[d], doing[d])'
    BY <1>1, <2>2 DEF Exporting, OfReview
  <2> QED BY <1>1, <2>1, <2>3 DEF ExportStands, OfReview, PacketStands
<1> QED BY <1>4, <1>5, <1>6, <1>7 DEF ExportInv

LEMMA IdleJob ==
  ASSUME ExportInv
  PROVE  ExportFields(A!Idle) /\ Dated("idle", A!Idle, clock) /\ Exporting("idle", A!Idle)
<1>1. 1 <= clock /\ clock \in Nat
  BY TimesAreNumbers DEF ExportInv, InThePast, FeedbackTypes
<1> QED BY <1>1, TimesAreNumbers DEF ExportFields, A!Idle, A!Single, Dated, Exporting

\* The time taken is new, and later than any file's.
LEMMA BeginKeeps ==
  ASSUME ExportInv, NEW e \in Exporter, NEW want, A!Begin(e, want),
         want = [formats |-> want.formats, overwrite |-> want.overwrite, planned |-> want.planned],
         want.formats \subseteq A!Format
  PROVE  ExportInv'
<1> DEFINE now == clock + 1
           j == [want |-> want, time |-> now, text |-> 0, selection |-> 0, current |-> FALSE, left |-> {}]
<1>1. /\ clock < MaxTime /\ clock' = now /\ at' = [at EXCEPT ![e] = "load"]
      /\ UNCHANGED <<content, exports, file, A!surroundings>>
  BY DEF A!Begin, A!Go
<1>2. doing' = [doing EXCEPT ![e] = j]
  <2>1. [A!Idle EXCEPT !.want = want, !.time = now] = j
    <3> DEFINE r == A!Idle
    <3>1. /\ r = [want |-> r.want, time |-> r.time, text |-> r.text, selection |-> r.selection,
                  current |-> r.current, left |-> r.left]
          /\ r.text = 0 /\ r.selection = 0 /\ r.current = FALSE /\ r.left = {}
      BY DEF A!Idle
    <3> DEFINE v == [r EXCEPT !.want = want, !.time = now]
    <3>2. v = [r EXCEPT !.want = want, !.time = now]
      OBVIOUS
    <3> HIDE DEF now, r, v
    <3>3. /\ v = [want |-> v.want, time |-> v.time, text |-> v.text, selection |-> v.selection,
                  current |-> v.current, left |-> v.left]
          /\ v.want = want /\ v.time = now /\ v.text = r.text /\ v.selection = r.selection
          /\ v.current = r.current /\ v.left = r.left
      BY <3>1, <3>2
    <3>4. v = j
      BY <3>1, <3>3
    <3> QED BY <3>4 DEF v, r
  <2> QED BY <2>1 DEF A!Begin
<1>3. clock \in Nat /\ 1 <= clock /\ MaxTime \in Nat
  BY TimesAreNumbers, FeedbackAssumption DEF ExportInv, InThePast, FeedbackTypes
<1>4. clock' \in A!Time /\ clock <= clock'
  BY <1>1, <1>3, TimesAreNumbers
<1>5. ExportFields(j)
  BY <1>1, <1>4, TimesAreNumbers DEF ExportFields
<1>6. Dated("load", j, clock')
  BY <1>1, <1>3 DEF Dated
<1>7. Exporting("load", j)
  <2>1. /\ content.updated \in Nat /\ content.updated <= clock
        /\ \A f \in A!Format : /\ exports[f].source \in Nat /\ file[f].time \in Nat
                               /\ exports[f].source <= clock /\ file[f].time <= clock
    BY TimesAreNumbers DEF ExportInv, FeedbackTypes, InThePast
  <2>2. j.time = clock + 1
    OBVIOUS
  <2> HIDE DEF j
  <2> QED BY <1>3, <2>1, <2>2 DEF Exporting, A!Format
<1> HIDE DEF j
<1> QED BY <1>1, <1>2, <1>4, <1>5, <1>6, <1>7, JobKeeps DEF Place

LEMMA EndKeeps ==
  ASSUME ExportInv, NEW e \in Exporter, A!End(e),
         UNCHANGED <<content, exports, file, clock, A!surroundings>>
  PROVE  ExportInv'
<1>1. at' = [at EXCEPT ![e] = "idle"] /\ doing' = [doing EXCEPT ![e] = A!Idle] /\ clock' = clock
  BY DEF A!End, A!Go
<1>2. clock' \in A!Time /\ clock <= clock' /\ UNCHANGED <<content, exports, file, A!surroundings>>
  BY <1>1, TimesAreNumbers DEF ExportInv, FeedbackTypes
<1> QED BY <1>1, <1>2, IdleJob, JobKeeps DEF Place

LEMMA ExportStep ==
  ASSUME ExportInv, NEW e \in Exporter, A!Export(e)
  PROVE  ExportInv'
<1>1. PICK fs \in A!Wanted, ow \in BOOLEAN : A!Begin(e, [formats |-> fs, overwrite |-> ow, planned |-> {}])
  BY DEF A!Export
<1> DEFINE want == [formats |-> fs, overwrite |-> ow, planned |-> {}]
<1>2. want = [formats |-> want.formats, overwrite |-> want.overwrite, planned |-> want.planned]
  OBVIOUS
<1>3. want.formats \subseteq A!Format
  BY DEF A!Wanted, A!Format
<1> HIDE DEF want
<1>4. A!Begin(e, want)
  BY <1>1 DEF want
<1> QED BY <1>2, <1>3, <1>4, BeginKeeps

LEMMA PreviewStep ==
  ASSUME ExportInv, NEW e \in Exporter, A!Preview(e)
  PROVE  ExportInv'
<1> DEFINE old == doing[e]
<1>1. PICK fs \in A!Wanted, policy \in A!Policy :
        /\ at[e] = "idle" /\ at' = [at EXCEPT ![e] = "preview"]
        /\ doing' = [doing EXCEPT ![e] = [old EXCEPT !.want =
             [formats |-> fs, planned |-> {A!Snapshot(fs)}, overwrite |-> A!Planned(fs, policy) = "replace"]]]
        /\ UNCHANGED <<content, exports, file, clock, A!surroundings>>
  BY DEF A!Preview, A!Go
<1> DEFINE want == [formats |-> fs, planned |-> {A!Snapshot(fs)},
                    overwrite |-> A!Planned(fs, policy) = "replace"]
           v == [old EXCEPT !.want = want]
<1>2. /\ want = [formats |-> want.formats, overwrite |-> want.overwrite, planned |-> want.planned]
      /\ want.formats \subseteq A!Format
  BY DEF A!Wanted, A!Format
<1>3. /\ ExportFields(old) /\ old.left = {} /\ old.time <= clock
  BY <1>1 DEF ExportInv, FeedbackTypes, InThePast, Dated
<1>4. v = [old EXCEPT !.want = want] /\ doing' = [doing EXCEPT ![e] = v]
  BY <1>1
<1> HIDE DEF want, v, old
<1>5. /\ v.want = want /\ v.time = old.time /\ v.text = old.text /\ v.selection = old.selection
      /\ v.current = old.current /\ v.left = old.left
      /\ v = [want |-> v.want, time |-> v.time, text |-> v.text, selection |-> v.selection,
              current |-> v.current, left |-> v.left]
  BY <1>3, <1>4 DEF ExportFields
<1>6. ExportFields(v) /\ Dated("preview", v, clock) /\ Exporting("preview", v)
  BY <1>2, <1>3, <1>5 DEF ExportFields, Dated, Exporting
<1>7. clock' \in A!Time /\ clock <= clock' /\ clock' = clock /\ UNCHANGED <<content, exports, file, A!surroundings>>
  BY <1>1, TimesAreNumbers DEF ExportInv, FeedbackTypes
<1>8. at' = [at EXCEPT ![e] = "preview"] /\ Dated("preview", v, clock') /\ "preview" \in Place
  BY <1>1, <1>6, <1>7 DEF Place
<1> QED BY <1>4, <1>6, <1>7, <1>8, JobKeeps

LEMMA ConfirmStep ==
  ASSUME ExportInv, NEW e \in Exporter, A!Confirm(e)
  PROVE  ExportInv'
<1>1. ExportFields(doing[e]) /\ A!Begin(e, doing[e].want)
  BY DEF A!Confirm, ExportInv, FeedbackTypes
<1> QED BY <1>1, BeginKeeps DEF ExportFields

LEMMA LoadExportStep ==
  ASSUME ExportInv, NEW e \in Exporter, A!Load(e)
  PROVE  ExportInv'
<1> DEFINE old == doing[e]
           v == [old EXCEPT !.text = content.text, !.selection = selection,
                            !.current = TRUE, !.left = old.want.formats]
<1>1. /\ at[e] = "load" /\ at' = [at EXCEPT ![e] = "write"] /\ doing' = [doing EXCEPT ![e] = v]
      /\ UNCHANGED <<content, exports, file, clock, A!surroundings>>
  BY DEF A!Load, A!Go
<1>2. ExportFields(old) /\ Dated("load", old, clock) /\ (A!OneExporter => Exporting("load", old))
  BY <1>1 DEF ExportInv, FeedbackTypes, InThePast, ExportStands
<1>3. v = [old EXCEPT !.text = content.text, !.selection = selection,
                      !.current = TRUE, !.left = old.want.formats]
  OBVIOUS
<1>4. content.text \in A!Text /\ selection \in A!Selection /\ clock \in A!Time
  BY DEF ExportInv, FeedbackTypes
<1> HIDE DEF v, old
<1>5. /\ v.want = old.want /\ v.time = old.time /\ v.text = content.text /\ v.selection = selection
      /\ v.current = TRUE /\ v.left = old.want.formats
      /\ v = [want |-> v.want, time |-> v.time, text |-> v.text, selection |-> v.selection,
              current |-> v.current, left |-> v.left]
  BY <1>2, <1>3 DEF ExportFields
<1>6. ExportFields(v)
  BY <1>2, <1>4, <1>5 DEF ExportFields
<1>7. Dated("write", v, clock)
  BY <1>2, <1>4, <1>5 DEF Dated
<1>8. A!OneExporter => Exporting("write", v)
  <2>1. content.text \in Nat
    BY <1>4, TimesAreNumbers
  <2>2. content.text <= content.text
    BY <2>1
  <2> QED BY <1>2, <1>5, <2>2 DEF Exporting
<1>9. clock' \in A!Time /\ clock <= clock' /\ clock' = clock /\ UNCHANGED <<content, exports, file, A!surroundings>>
  BY <1>1, <1>4, TimesAreNumbers
<1> QED BY <1>1, <1>6, <1>7, <1>8, <1>9, JobKeeps DEF Place

LEMMA WriteFileStep ==
  ASSUME ExportInv, NEW e \in Exporter, A!WriteFile(e)
  PROVE  ExportInv'
<1> DEFINE old == doing[e]
           f == A!NextFormat(old.left)
           v == [old EXCEPT !.left = old.left \ {f}]
           new == [text |-> old.text, time |-> old.time]
<1>1. /\ at[e] = "write" /\ old.left # {} /\ file' = [file EXCEPT ![f] = new]
      /\ doing' = [doing EXCEPT ![e] = v]
      /\ UNCHANGED <<content, exports, clock, at, selection, selecting, slipped, packet>>
  BY DEF A!WriteFile, A!surroundings
<1>2. ExportFields(old) /\ Dated("write", old, clock) /\ (A!OneExporter => Exporting("write", old))
  BY <1>1 DEF ExportInv, FeedbackTypes, InThePast, ExportStands
<1>3. v = [old EXCEPT !.left = old.left \ {f}]
  OBVIOUS
<1>4. f \in old.left /\ f \in A!Format /\ (f = "pdf" <=> "pdf" \in old.left)
  BY <1>1, <1>2 DEF ExportFields, A!Format, A!NextFormat
<1>5. new \in [text : A!Text \cup {0}, time : A!Time] /\ new.text = old.text /\ new.time = old.time
  BY <1>2 DEF ExportFields
<1> HIDE DEF v, f, new, old
<1>6. /\ v.want = old.want /\ v.time = old.time /\ v.text = old.text
      /\ v.selection = old.selection /\ v.current = old.current /\ v.left = old.left \ {f}
      /\ v = [want |-> v.want, time |-> v.time, text |-> v.text, selection |-> v.selection,
              current |-> v.current, left |-> v.left]
  BY <1>2, <1>3 DEF ExportFields
<1>7. ExportFields(v)
  BY <1>2, <1>6 DEF ExportFields
<1>8. /\ doing'[e] = v /\ \A d \in Exporter : d # e => doing'[d] = doing[d]
      /\ doing' = [d \in Exporter |-> doing'[d]] /\ \A d \in Exporter : ExportFields(doing'[d])
  BY <1>1, <1>7, JobSet DEF ExportInv
<1>9. /\ file' \in [A!Format -> [text : A!Text \cup {0}, time : A!Time]] /\ file'[f] = new
      /\ \A g \in A!Format : g # f => file'[g] = file[g]
  BY <1>1, <1>4, <1>5 DEF ExportInv, FeedbackTypes
<1>10. FeedbackTypes'
  BY <1>1, <1>8, <1>9 DEF ExportInv, FeedbackTypes
<1>11. InThePast'
  <2>1. \A g \in A!Format : exports'[g].source <= clock' /\ file'[g].time <= clock'
    BY <1>1, <1>2, <1>5, <1>9 DEF ExportInv, InThePast, Dated
  <2>2. \A d \in Exporter : Dated(at'[d], doing'[d], clock')
    BY <1>1, <1>2, <1>6, <1>8 DEF ExportInv, InThePast, Dated
  <2> QED BY <1>1, <2>1, <2>2 DEF ExportInv, InThePast
<1>12. LegacyStands'
  BY <1>1 DEF ExportInv, LegacyStands, A!IsLegacy
<1>13. ASSUME A!OneExporter PROVE ExportStands' /\ PacketStands'
  <2>1. ExportStands /\ PacketStands /\ Exporting("write", old) /\ \A d \in Exporter : d = e
    BY <1>2, <1>13 DEF ExportInv, A!OneExporter
  <2>2. \A g \in A!Format : (OfReview(g)' <=> OfReview(g))
    BY <1>1 DEF OfReview
  <2>3. \A g \in A!Format : OfReview(g)' /\ file'[g] # A!NoFile => file'[g].text = content'.text
    BY <1>1, <1>5, <1>9, <2>1, <2>2 DEF ExportStands, Exporting
  <2>4. \A d \in Exporter : Exporting(at[d], doing[d])'
    <3>1. ASSUME NEW g \in v.want.formats \ v.left PROVE file'[g].text = v.text
      <4>1. g \in A!Format /\ (g = f \/ g \in old.want.formats \ old.left)
        BY <1>2, <1>6, <3>1 DEF ExportFields
      <4>2. g # f => file[g].text = old.text
        BY <2>1, <4>1 DEF Exporting
      <4> QED BY <1>5, <1>6, <1>9, <4>1, <4>2
    <3>2. "pdf" \notin v.left
      BY <1>4, <1>6
    <3>3. /\ content'.updated # v.time /\ (\A g \in A!Format : exports'[g].source # v.time)
          /\ v.text = content'.text \/ \A g \in A!Format : ~OfReview(g)'
          /\ v.text <= content'.text /\ (v.current => v.text = content'.text)
      BY <1>1, <1>6, <2>1, <2>2 DEF Exporting
    <3> QED BY <1>1, <1>8, <2>1, <3>1, <3>2, <3>3 DEF Exporting
  <2>6. PacketStands'
    <3>1. CASE f = "pdf"
      <4>1. /\ file["pdf"].time < old.time /\ file'["pdf"].time = old.time
            /\ 2 <= old.time /\ old.time \in Nat
        BY <1>2, <1>4, <1>5, <1>9, <2>1, <3>1, TimesAreNumbers DEF Exporting, Dated, ExportFields
      <4>2. /\ file["pdf"].time \in Nat /\ packet.bytes.time \in Nat
        BY TimesAreNumbers DEF ExportInv, FeedbackTypes, A!Format
      <4>3. packet.bytes.time < file'["pdf"].time
        BY <2>1, <4>1, <4>2 DEF PacketStands, A!NoFile
      <4>4. packet.bytes # file'["pdf"]
        BY <4>1, <4>2, <4>3
      <4> QED BY <1>1, <4>3, <4>4 DEF PacketStands
    <3>2. CASE f # "pdf"
      BY <1>1, <1>9, <2>1, <3>2 DEF PacketStands, A!Format
    <3> QED BY <3>1, <3>2
  <2> QED BY <2>3, <2>4, <2>6 DEF ExportStands
<1> QED BY <1>10, <1>11, <1>12, <1>13 DEF ExportInv

-----------------------------------------------------------------------------
(* Writes of the review and of the manifest. *)

\* Whoever loaded the review before goes on with what was loaded.
LEMMA OutdatedJobs ==
  ASSUME FeedbackTypes, doing' = A!Outdated
  PROVE  /\ doing' = [e \in Exporter |-> doing'[e]] /\ \A e \in Exporter : ExportFields(doing'[e])
         /\ \A e \in Exporter :
              /\ doing'[e].want = doing[e].want /\ doing'[e].time = doing[e].time
              /\ doing'[e].text = doing[e].text /\ doing'[e].selection = doing[e].selection
              /\ doing'[e].left = doing[e].left /\ doing'[e].current = FALSE
<1>1. ASSUME NEW e \in Exporter
      PROVE  /\ doing'[e] = [doing[e] EXCEPT !.current = FALSE] /\ ExportFields(doing[e])
  BY DEF A!Outdated, FeedbackTypes
<1>2. ASSUME NEW e \in Exporter
      PROVE  /\ doing'[e].want = doing[e].want /\ doing'[e].time = doing[e].time
             /\ doing'[e].text = doing[e].text /\ doing'[e].selection = doing[e].selection
             /\ doing'[e].left = doing[e].left /\ doing'[e].current = FALSE
             /\ ExportFields(doing'[e])
  <2> DEFINE old == doing[e]
             v == doing'[e]
  <2>1. v = [old EXCEPT !.current = FALSE] /\ ExportFields(old)
    BY <1>1
  <2> HIDE DEF old, v
  <2>2. /\ v.want = old.want /\ v.time = old.time /\ v.text = old.text
        /\ v.selection = old.selection /\ v.left = old.left /\ v.current = FALSE
        /\ v = [want |-> v.want, time |-> v.time, text |-> v.text, selection |-> v.selection,
                current |-> v.current, left |-> v.left]
    BY <2>1 DEF ExportFields
  <2>3. ExportFields(v)
    BY <2>1, <2>2 DEF ExportFields
  <2> QED BY <2>2, <2>3 DEF v, old
<1>3. doing' = [e \in Exporter |-> doing'[e]]
  BY DEF A!Outdated
<1> QED BY <1>2, <1>3

LEMMA SelectingAfterWrite ==
  ASSUME FeedbackTypes, A!ReviewWritten
  PROVE  /\ selecting' \in [step : {"no", "bind", "move"}, loaded : A!Selection, fresh : BOOLEAN]
         /\ selecting'.step = "move" => selecting.step = "move"
  BY DEF FeedbackTypes, A!ReviewWritten, A!NotSelecting, A!Selection

LEMMA MetadataStep ==
  ASSUME ExportInv, NEW e \in Exporter, A!UpdateMetadata(e)
  PROVE  ExportInv'
<1> DEFINE old == doing[e]
           metadata == [source |-> old.time, selection |-> old.selection, there |-> TRUE]
<1>1. /\ at[e] = "write" /\ old.left = {} /\ old.current
      /\ content' = [content EXCEPT !.updated = old.time, !.composed = TRUE]
      /\ at' = [at EXCEPT ![e] = A!AfterExport(e)]
      /\ UNCHANGED <<file, selection, clock, slipped, packet>>
  BY DEF A!UpdateMetadata, A!Go
<1>2. exports' = [f \in A!Format |-> IF f \in old.want.formats THEN metadata ELSE exports[f]]
  BY DEF A!UpdateMetadata, A!NewMetadata
<1>3. A!ReviewWritten /\ doing' = A!Outdated
  BY DEF A!UpdateMetadata, A!ReviewWritten
<1>4. FeedbackTypes /\ InThePast /\ LegacyStands
  BY DEF ExportInv
<1>5. ExportFields(old) /\ Dated("write", old, clock) /\ (A!OneExporter => Exporting("write", old))
  BY <1>1 DEF ExportInv, FeedbackTypes, InThePast, ExportStands
<1>6. /\ old.time \in A!Time /\ old.time \in Nat /\ 2 <= old.time /\ old.time <= clock
      /\ old.selection \in A!Selection /\ old.want.formats \subseteq A!Format
      /\ clock \in Nat
  BY <1>4, <1>5, TimesAreNumbers DEF ExportFields, Dated, FeedbackTypes
<1>7. metadata \in [source : A!Time, selection : A!Selection \cup {A!Unbound}, there : BOOLEAN]
      /\ metadata.source = old.time /\ metadata.selection = old.selection /\ metadata.there
  BY <1>6
<1> HIDE DEF metadata, old
<1>8. /\ content'.text = content.text /\ content'.updated = old.time
      /\ content' \in [text : A!Text, updated : A!Time, composed : BOOLEAN]
  BY <1>1, <1>4, <1>6 DEF FeedbackTypes
<1>9. /\ exports' \in [A!Format -> [source : A!Time, selection : A!Selection \cup {A!Unbound}, there : BOOLEAN]]
      /\ \A f \in old.want.formats : exports'[f] = metadata
      /\ \A f \in A!Format \ old.want.formats : exports'[f] = exports[f]
  BY <1>2, <1>4, <1>6, <1>7 DEF FeedbackTypes
<1>10. /\ doing' = [d \in Exporter |-> doing'[d]] /\ \A d \in Exporter : ExportFields(doing'[d])
       /\ \A d \in Exporter :
            /\ doing'[d].want = doing[d].want /\ doing'[d].time = doing[d].time
            /\ doing'[d].text = doing[d].text /\ doing'[d].selection = doing[d].selection
            /\ doing'[d].left = doing[d].left /\ doing'[d].current = FALSE
  BY <1>3, <1>4, OutdatedJobs
<1>11. A!AfterExport(e) \in {"idle", "verify"}
  BY DEF A!AfterExport
<1>12. /\ at' \in [Exporter -> {"idle", "preview", "load", "write", "verify"}]
       /\ at'[e] \in {"idle", "verify"} /\ \A d \in Exporter : d # e => at'[d] = at[d]
  BY <1>1, <1>4, <1>11 DEF FeedbackTypes
<1>13. FeedbackTypes'
  <2>1. \A f \in A!Format : ~exports'[f].there => exports'[f] = A!NoMetadata
    BY <1>4, <1>7, <1>9 DEF FeedbackTypes
  <2> QED BY <1>1, <1>3, <1>4, <1>8, <1>9, <1>10, <1>12, <2>1, SelectingAfterWrite DEF FeedbackTypes
<1>14. InThePast'
  <2>1. \A f \in A!Format : exports'[f].source <= clock' /\ file'[f].time <= clock'
    BY <1>1, <1>4, <1>6, <1>7, <1>9 DEF InThePast
  <2>2. \A d \in Exporter : Dated(at'[d], doing'[d], clock')
    <3>1. ASSUME NEW d \in Exporter, d # e PROVE Dated(at'[d], doing'[d], clock')
      BY <1>1, <1>4, <1>10, <1>12, <3>1 DEF InThePast, Dated
    <3>2. Dated(at'[e], doing'[e], clock')
      BY <1>1, <1>5, <1>10, <1>12 DEF Dated, old
    <3> QED BY <3>1, <3>2
  <2> QED BY <1>1, <1>4, <1>6, <1>8, <2>1, <2>2 DEF InThePast
<1>15. LegacyStands'
  <2>1. ASSUME NEW f \in A!Format, exports'[f].there, exports'[f].selection = A!Unbound
        PROVE  exports'[f].source = 1
    BY <1>4, <1>6, <1>7, <1>9, <2>1, TimesAreNumbers DEF LegacyStands
  <2>2. \A f \in A!Format : ~A!IsLegacy(f)'
    BY <1>6, <1>8, <2>1 DEF A!IsLegacy
  <2> QED BY <2>1, <2>2 DEF LegacyStands
<1>16. ASSUME A!OneExporter PROVE ExportStands' /\ PacketStands'
  <2>1. ExportStands /\ PacketStands /\ Exporting("write", old) /\ \A d \in Exporter : d = e
    BY <1>5, <1>16 DEF ExportInv, A!OneExporter
  <2>2. ASSUME NEW f \in A!Format, OfReview(f)', file'[f] # A!NoFile
        PROVE  file'[f].text = content'.text
    <3>1. f \in old.want.formats
      BY <1>8, <1>9, <2>1, <2>2 DEF OfReview, Exporting
    <3>2. file[f].text = old.text /\ old.text = content.text
      BY <1>1, <2>1, <3>1 DEF Exporting
    <3> QED BY <1>1, <1>8, <3>2
  <2>3. \A d \in Exporter : Exporting(at[d], doing[d])'
    BY <1>12, <2>1 DEF Exporting
  <2> QED BY <1>1, <2>1, <2>2, <2>3 DEF ExportStands, PacketStands
<1> QED BY <1>13, <1>14, <1>15, <1>16 DEF ExportInv

LEMMA EditStep ==
  ASSUME ExportInv, A!EditReview
  PROVE  ExportInv'
<1>1. /\ clock < MaxTime /\ content.text < MaxText /\ clock' = clock + 1
      /\ UNCHANGED <<exports, file, selection, at, slipped, packet>>
      /\ A!ReviewWritten /\ doing' = A!Outdated
  BY DEF A!EditReview, A!ReviewWritten
<1>2. PICK composed \in BOOLEAN :
        content' = [text |-> content.text + 1, updated |-> clock + 1, composed |-> composed]
  BY DEF A!EditReview
<1>3. FeedbackTypes /\ InThePast /\ LegacyStands
  BY DEF ExportInv
<1>4. /\ clock \in Nat /\ 1 <= clock /\ content.text \in Nat /\ 1 <= content.text
      /\ MaxTime \in Nat /\ MaxText \in Nat
  BY <1>3, TimesAreNumbers, FeedbackAssumption DEF FeedbackTypes, InThePast, A!Text
<1>5. clock' \in A!Time /\ content.text + 1 \in A!Text /\ clock + 1 \in A!Time
  BY <1>1, <1>4, TimesAreNumbers
<1>6. /\ content'.text = content.text + 1 /\ content'.updated = clock + 1
      /\ content' \in [text : A!Text, updated : A!Time, composed : BOOLEAN]
  BY <1>2, <1>5
<1>7. /\ doing' = [d \in Exporter |-> doing'[d]] /\ \A d \in Exporter : ExportFields(doing'[d])
      /\ \A d \in Exporter :
           /\ doing'[d].want = doing[d].want /\ doing'[d].time = doing[d].time
           /\ doing'[d].text = doing[d].text /\ doing'[d].selection = doing[d].selection
           /\ doing'[d].left = doing[d].left /\ doing'[d].current = FALSE
  BY <1>1, <1>3, OutdatedJobs
<1>8. FeedbackTypes'
  BY <1>1, <1>3, <1>5, <1>6, <1>7, SelectingAfterWrite DEF FeedbackTypes
<1>9. /\ \A f \in A!Format : /\ exports[f].source \in Nat /\ file[f].time \in Nat
                             /\ exports[f].source <= clock /\ file[f].time <= clock
      /\ \A d \in Exporter : doing[d].time \in Nat /\ doing[d].time <= clock
  BY <1>3, TimesAreNumbers DEF FeedbackTypes, InThePast, Dated, ExportFields
<1>10. InThePast'
  <2>1. \A f \in A!Format : exports'[f].source <= clock' /\ file'[f].time <= clock'
    BY <1>1, <1>4, <1>9
  <2>2. \A d \in Exporter : Dated(at'[d], doing'[d], clock')
    BY <1>1, <1>3, <1>4, <1>7, <1>9 DEF InThePast, Dated
  <2>3. 1 <= clock' /\ content'.updated <= clock'
    BY <1>1, <1>4, <1>6
  <2> QED BY <2>1, <2>2, <2>3 DEF InThePast
<1>11. \A f \in A!Format : ~OfReview(f)'
  BY <1>1, <1>4, <1>6, <1>9 DEF OfReview
<1>12. LegacyStands'
  BY <1>1, <1>3, <1>11 DEF LegacyStands, A!IsLegacy, OfReview
<1>13. ASSUME A!OneExporter PROVE ExportStands' /\ PacketStands'
  <2>1. ExportStands /\ PacketStands
    BY <1>13 DEF ExportInv
  <2>2. ASSUME NEW d \in Exporter PROVE Exporting(at[d], doing[d])'
    <3>1. Exporting(at[d], doing[d]) /\ doing[d].text \in Nat /\ doing[d].time <= clock /\ doing[d].time \in Nat
      BY <1>3, <1>9, <2>1, TimesAreNumbers DEF ExportStands, FeedbackTypes, ExportFields
    <3>2. content'.updated # doing'[d].time
      BY <1>4, <1>6, <1>7, <3>1
    <3>3. at'[d] = "write" => doing'[d].text <= content'.text
      BY <1>1, <1>4, <1>6, <1>7, <3>1 DEF Exporting
    <3> QED BY <1>1, <1>7, <1>11, <3>1, <3>2, <3>3 DEF Exporting
  <2> QED BY <1>1, <1>11, <2>1, <2>2 DEF ExportStands, PacketStands
<1> QED BY <1>8, <1>10, <1>12, <1>13 DEF ExportInv

LEMMA SelectionSteps ==
  ASSUME ExportInv, A!LoadForSelection \/ A!MoveSelection \/ A!FailSelection \/ A!OtherSelection
  PROVE  ExportInv'
<1>1. UNCHANGED <<content, exports, file, clock, at, doing, packet>>
  BY DEF A!LoadForSelection, A!MoveSelection, A!FailSelection, A!OtherSelection
<1>2. FeedbackTypes /\ InThePast /\ LegacyStands
  BY DEF ExportInv
<1>3. /\ selecting' \in [step : {"no", "bind", "move"}, loaded : A!Selection, fresh : BOOLEAN]
      /\ selection' \in A!Selection
  <2>1. /\ selecting \in [step : {"no", "bind", "move"}, loaded : A!Selection, fresh : BOOLEAN]
        /\ selection \in A!Selection
    BY <1>2 DEF FeedbackTypes
  <2>2. A!NotSelecting \in [step : {"no", "bind", "move"}, loaded : A!Selection, fresh : BOOLEAN]
    BY DEF A!NotSelecting, A!Selection
  <2>3. CASE A!LoadForSelection
    <3>1. \E s \in {"bind", "move"} : selecting' = [step |-> s, loaded |-> selection, fresh |-> TRUE]
      BY <2>3 DEF A!LoadForSelection
    <3> QED BY <2>1, <2>3, <3>1 DEF A!LoadForSelection
  <2>4. CASE A!MoveSelection \/ A!FailSelection
    BY <2>1, <2>2, <2>4 DEF A!MoveSelection, A!FailSelection
  <2>5. CASE A!OtherSelection
    <3>1. selecting' = [selecting EXCEPT !.fresh = FALSE] /\ selection' \in A!Selection
      BY <2>5 DEF A!OtherSelection, A!ManifestWritten
    <3> QED BY <2>1, <3>1
  <2> QED BY <2>3, <2>4, <2>5
<1>4. FeedbackTypes'
  BY <1>1, <1>2, <1>3 DEF FeedbackTypes
<1>5. InThePast'
  BY <1>1, <1>2 DEF InThePast, Dated
<1>6. \A f \in A!Format : A!IsLegacy(f)' <=> A!IsLegacy(f)
  BY <1>1 DEF A!IsLegacy
<1>7. LegacyStands'
  <2>1. selecting'.step = "move" => \A f \in A!Format : ~A!IsLegacy(f)
    BY <1>2
    DEF A!LoadForSelection, A!MoveSelection, A!FailSelection, A!OtherSelection, A!ManifestWritten,
        A!NotSelecting, FeedbackTypes, LegacyStands
  <2>2. selection' = 1 \/ slipped' \/ \A f \in A!Format : ~A!IsLegacy(f)
    BY <1>2
    DEF A!LoadForSelection, A!MoveSelection, A!FailSelection, A!OtherSelection, LegacyStands
  <2> QED BY <1>1, <1>2, <1>6, <2>1, <2>2 DEF LegacyStands
<1>8. ExportStands /\ PacketStands => ExportStands' /\ PacketStands'
  BY <1>1 DEF ExportStands, Exporting, OfReview, PacketStands
<1> QED BY <1>4, <1>5, <1>7, <1>8 DEF ExportInv

LEMMA BindStep ==
  ASSUME ExportInv, A!Bind
  PROVE  ExportInv'
<1>1. /\ selecting' = [selecting EXCEPT !.step = "move"] /\ doing' = A!Outdated
      /\ UNCHANGED <<content, file, selection, clock, at, slipped, packet>>
      /\ exports' = [f \in A!Format |-> IF A!IsLegacy(f)
                       THEN [exports[f] EXCEPT !.selection = selecting.loaded] ELSE exports[f]]
  BY DEF A!Bind
<1>2. FeedbackTypes /\ InThePast /\ LegacyStands
  BY DEF ExportInv
<1>3. ASSUME NEW f \in A!Format
      PROVE  /\ exports'[f] \in [source : A!Time, selection : A!Selection \cup {A!Unbound}, there : BOOLEAN]
             /\ exports'[f].source = exports[f].source /\ exports'[f].there = exports[f].there
             /\ ~A!IsLegacy(f) => exports'[f] = exports[f]
             /\ A!IsLegacy(f) => exports'[f].selection \in A!Selection
  <2> DEFINE old == exports[f]
  <2>1. old \in [source : A!Time, selection : A!Selection \cup {A!Unbound}, there : BOOLEAN]
        /\ selecting.loaded \in A!Selection
    BY <1>2 DEF FeedbackTypes
  <2>2. exports'[f] = IF A!IsLegacy(f) THEN [old EXCEPT !.selection = selecting.loaded] ELSE old
    BY <1>1
  <2> HIDE DEF old
  <2>3. CASE A!IsLegacy(f)
    BY <2>1, <2>2, <2>3 DEF old
  <2>4. CASE ~A!IsLegacy(f)
    BY <2>1, <2>2, <2>4 DEF old
  <2> QED BY <2>3, <2>4
<1>4. exports' \in [A!Format -> [source : A!Time, selection : A!Selection \cup {A!Unbound}, there : BOOLEAN]]
  <2>1. exports' = [f \in A!Format |-> exports'[f]]
    BY <1>1
  <2> QED BY <1>3, <2>1
<1>5. /\ doing' = [d \in Exporter |-> doing'[d]] /\ \A d \in Exporter : ExportFields(doing'[d])
      /\ \A d \in Exporter :
           /\ doing'[d].want = doing[d].want /\ doing'[d].time = doing[d].time
           /\ doing'[d].text = doing[d].text /\ doing'[d].selection = doing[d].selection
           /\ doing'[d].left = doing[d].left /\ doing'[d].current = FALSE
  BY <1>1, <1>2, OutdatedJobs
<1>6. FeedbackTypes'
  <2>1. \A f \in A!Format : ~exports'[f].there => exports'[f] = A!NoMetadata
    BY <1>2, <1>3 DEF FeedbackTypes, A!IsLegacy
  <2>2. selecting' \in [step : {"no", "bind", "move"}, loaded : A!Selection, fresh : BOOLEAN]
    BY <1>1, <1>2 DEF FeedbackTypes
  <2> QED BY <1>1, <1>2, <1>4, <1>5, <2>1, <2>2 DEF FeedbackTypes
<1>7. InThePast'
  BY <1>1, <1>2, <1>3, <1>5 DEF InThePast, Dated
<1>8. LegacyStands'
  <2>1. \A f \in A!Format : ~A!IsLegacy(f)'
    BY <1>1, <1>3, TimesAreNumbers DEF A!IsLegacy
  <2>2. ASSUME NEW f \in A!Format, exports'[f].there, exports'[f].selection = A!Unbound
        PROVE  exports'[f].source = 1
    BY <1>2, <1>3, <2>2, TimesAreNumbers DEF LegacyStands
  <2> QED BY <2>1, <2>2 DEF LegacyStands
<1>9. ASSUME A!OneExporter PROVE ExportStands' /\ PacketStands'
  <2>1. ExportStands /\ PacketStands
    BY <1>9 DEF ExportInv
  <2>2. \A f \in A!Format : OfReview(f)' <=> OfReview(f)
    BY <1>1, <1>3 DEF OfReview
  <2>3. \A d \in Exporter : Exporting(at[d], doing[d])'
    BY <1>1, <1>3, <1>5, <2>1, <2>2 DEF ExportStands, Exporting
  <2> QED BY <1>1, <2>1, <2>2, <2>3 DEF ExportStands, PacketStands
<1> QED BY <1>6, <1>7, <1>8, <1>9 DEF ExportInv

LEMMA FeedbackStep == ExportInv /\ [A!Next]_(A!vars) => ExportInv'
<1> SUFFICES ASSUME ExportInv, [A!Next]_(A!vars) PROVE ExportInv'
  OBVIOUS
<1>1. CASE UNCHANGED A!vars
  BY <1>1
  DEF A!vars, ExportInv, FeedbackTypes, InThePast, Dated, LegacyStands, A!IsLegacy, ExportStands,
      Exporting, OfReview, PacketStands
<1>2. ASSUME NEW e \in Exporter, A!Fail(e) \/ A!Verify(e)
      PROVE  ExportInv'
  BY <1>2, EndKeeps DEF A!Fail, A!Verify
<1> QED
  BY <1>1, <1>2, ExportStep, LoadExportStep, WriteFileStep, MetadataStep, PreviewStep, ConfirmStep,
     PacketSteps, EditStep, SelectionSteps, BindStep
  DEF A!Next

-----------------------------------------------------------------------------
(* What the invariant says. *)

LEMMA FeedbackTyped == ExportInv => A!TypeOK
<1> SUFFICES ASSUME ExportInv PROVE A!TypeOK
  OBVIOUS
<1>1. FeedbackTypes
  BY DEF ExportInv
<1>2. exports \in [A!Format -> A!Metadata \cup {A!NoMetadata}]
  <2>1. \A f \in A!Format : exports[f].there => exports[f] \in A!Metadata
    BY <1>1 DEF FeedbackTypes, A!Metadata
  <2> QED BY <1>1, <2>1 DEF FeedbackTypes
<1>3. packet.step \in {"idle", "inspected", "confirmed", "again", "read"}
  BY <1>1 DEF FeedbackTypes
<1>4. \A e \in Exporter : doing[e].left \subseteq doing[e].want.formats
  BY <1>1 DEF FeedbackTypes, ExportFields
<1> QED BY <1>1, <1>2, <1>3, <1>4 DEF A!TypeOK, FeedbackTypes

LEMMA PresentIsTrue ==
  ASSUME ExportInv, A!OneExporter, NEW f \in A!Format, A!Status(f) = "present"
  PROVE  file[f].text = content.text
BY PresentMeans DEF ExportInv, ExportStands

LEMMA FeedbackHolds ==
  ExportInv => A!CurrentIsTrue /\ A!CompleteIsExported /\ A!LegacyIsBound /\ A!BatchIsTrue /\ A!PacketIsCurrent
<1> SUFFICES ASSUME ExportInv
             PROVE  /\ A!CurrentIsTrue /\ A!CompleteIsExported /\ A!LegacyIsBound
                    /\ A!BatchIsTrue /\ A!PacketIsCurrent
  OBVIOUS
<1>1. A!CurrentIsTrue
  BY PresentIsTrue DEF A!CurrentIsTrue
<1>2. A!CompleteIsExported
  <2>1. ASSUME A!Category = "complete" PROVE \E f \in A!Format : A!Status(f) = "present"
    BY <2>1 DEF A!Category
  <2> QED BY <2>1, PresentIsTrue DEF A!CompleteIsExported
<1>3. A!LegacyIsBound
  <2>1. ASSUME NEW f \in A!Format, A!Status(f) = "present", exports[f].selection = A!Unbound
        PROVE  A!IsLegacy(f)
    BY <2>1, PresentMeans DEF A!IsLegacy, OfReview
  <2> QED BY <2>1 DEF A!LegacyIsBound, ExportInv, LegacyStands
<1>4. A!BatchIsTrue
  <2>1. \A e \in Exporter : doing[e].want.formats \subseteq A!Format
    BY DEF ExportInv, FeedbackTypes, ExportFields
  <2> QED BY <2>1, PresentIsTrue DEF A!BatchIsTrue, A!Verified
<1>5. A!PacketIsCurrent
  BY DEF A!PacketIsCurrent, A!Usable, ExportInv, PacketStands
<1> QED BY <1>1, <1>2, <1>3, <1>4, <1>5

-----------------------------------------------------------------------------
(* Reading what a result is about. *)

LEMMA ArtifactsStart == A!StartOfArtifacts => ArtifactInv
<1> SUFFICES ASSUME A!StartOfArtifacts PROVE ArtifactInv
  OBVIOUS
<1>1. /\ ExportInv /\ version = 1 /\ work = [s \in A!Selection |-> "sound"]
      /\ bound = A!NoManifest /\ reading = A!NotReading
  BY FeedbackStart DEF A!StartOfArtifacts
<1>2. ArtifactTypes
  BY <1>1, FeedbackAssumption DEF ArtifactTypes, A!NoManifest, A!NotReading, A!Kind
<1> QED BY <1>1, <1>2 DEF ArtifactInv, FeedbackRead, A!NotReading

\* The review's text only grows; what is written to a file was loaded by a process
\* that is still writing.
LEMMA TextsGrow ==
  ASSUME ExportInv, A!Next
  PROVE  /\ content.text \in Nat /\ content'.text \in Nat /\ content.text <= content'.text
         /\ \A e \in Exporter : at'[e] = "write" =>
              \/ at[e] = "write" /\ doing'[e].text = doing[e].text
              \/ doing'[e].text = content'.text
         /\ \A f \in A!Format : \/ file'[f] = file[f]
                                \/ \E e \in Exporter : at[e] = "write" /\ file'[f].text = doing[e].text
<1>1. FeedbackTypes
  BY DEF ExportInv
<1>2. FeedbackTypes'
  BY FeedbackStep DEF ExportInv
<1>3. content.text \in Nat /\ content'.text \in Nat
  BY <1>1, <1>2, TimesAreNumbers DEF FeedbackTypes
<1>5. ASSUME NEW e \in Exporter, NEW s, NEW j, s # "write" \/ (s = "write" /\ j.text = content.text),
             at' = [at EXCEPT ![e] = s], doing' = [doing EXCEPT ![e] = j]
      PROVE  \A d \in Exporter : at'[d] = "write" =>
               \/ at[d] = "write" /\ doing'[d].text = doing[d].text
               \/ doing'[d].text = content.text
  <2>1. \A d \in Exporter : d # e => at'[d] = at[d] /\ doing'[d] = doing[d]
    BY <1>1, <1>5 DEF FeedbackTypes
  <2>2. at'[e] = s /\ doing'[e] = j
    BY <1>1, <1>5 DEF FeedbackTypes
  <2> QED BY <1>5, <2>1, <2>2
<1>6. ASSUME NEW e \in Exporter, \/ A!Export(e) \/ A!Fail(e) \/ A!Preview(e) \/ A!Confirm(e) \/ A!Verify(e)
      PROVE  /\ content' = content /\ file' = file
             /\ \A d \in Exporter : at'[d] = "write" =>
                  \/ at[d] = "write" /\ doing'[d].text = doing[d].text
                  \/ doing'[d].text = content.text
  <2>1. \E s \in {"load", "idle", "preview"} : \E j :
          at' = [at EXCEPT ![e] = s] /\ doing' = [doing EXCEPT ![e] = j]
    BY <1>6 DEF A!Export, A!Begin, A!Fail, A!Preview, A!Confirm, A!Verify, A!End, A!Go
  <2>2. content' = content /\ file' = file
    BY <1>6 DEF A!Export, A!Begin, A!Fail, A!Preview, A!Confirm, A!Verify
  <2> QED BY <1>5, <2>1, <2>2
<1>7. ASSUME NEW e \in Exporter, A!Load(e)
      PROVE  /\ content' = content /\ file' = file
             /\ \A d \in Exporter : at'[d] = "write" =>
                  \/ at[d] = "write" /\ doing'[d].text = doing[d].text
                  \/ doing'[d].text = content.text
  <2> DEFINE old == doing[e]
             v == [old EXCEPT !.text = content.text, !.selection = selection,
                              !.current = TRUE, !.left = old.want.formats]
  <2>1. ExportFields(old) /\ v = [old EXCEPT !.text = content.text, !.selection = selection,
                                             !.current = TRUE, !.left = old.want.formats]
    BY <1>1 DEF FeedbackTypes
  <2>2. /\ at' = [at EXCEPT ![e] = "write"] /\ doing' = [doing EXCEPT ![e] = v]
        /\ content' = content /\ file' = file
    BY <1>7 DEF A!Load, A!Go
  <2> HIDE DEF old, v
  <2>3. v.text = content.text
    BY <2>1 DEF ExportFields
  <2> QED BY <1>5, <2>2, <2>3
<1>8. ASSUME NEW e \in Exporter, A!WriteFile(e)
      PROVE  /\ content' = content /\ at' = at
             /\ \A d \in Exporter : doing'[d].text = doing[d].text
             /\ \A f \in A!Format : \/ file'[f] = file[f]
                                    \/ at[e] = "write" /\ file'[f].text = doing[e].text
  <2> DEFINE old == doing[e]
             f == A!NextFormat(old.left)
             v == [old EXCEPT !.left = old.left \ {f}]
             new == [text |-> old.text, time |-> old.time]
  <2>1. ExportFields(old) /\ v = [old EXCEPT !.left = old.left \ {f}] /\ new.text = old.text
    BY <1>1 DEF FeedbackTypes
  <2>2. /\ at[e] = "write" /\ file' = [file EXCEPT ![f] = new] /\ doing' = [doing EXCEPT ![e] = v]
        /\ content' = content /\ at' = at
    BY <1>8 DEF A!WriteFile
  <2> HIDE DEF f, v, new
  <2>3. v.text = old.text
    BY <2>1 DEF ExportFields
  <2>4. \A d \in Exporter : doing'[d].text = doing[d].text
    BY <1>1, <2>2, <2>3 DEF FeedbackTypes
  <2>5. \A g \in A!Format : file'[g] = file[g] \/ file'[g] = new
    BY <1>1, <2>2 DEF FeedbackTypes
  <2> QED BY <2>1, <2>2, <2>4, <2>5
<1>9. ASSUME NEW e \in Exporter, A!UpdateMetadata(e)
      PROVE  /\ content'.text = content.text /\ file' = file
             /\ \A d \in Exporter : at'[d] = "write" =>
                  at[d] = "write" /\ doing'[d].text = doing[d].text
  <2>1. /\ content' = [content EXCEPT !.updated = doing[e].time, !.composed = TRUE] /\ file' = file
        /\ at' = [at EXCEPT ![e] = A!AfterExport(e)] /\ doing' = A!Outdated
    BY <1>9 DEF A!UpdateMetadata, A!Go, A!ReviewWritten
  <2>2. content'.text = content.text
    BY <1>1, <2>1 DEF FeedbackTypes
  <2>3. A!AfterExport(e) # "write"
    BY DEF A!AfterExport
  <2>4. \A d \in Exporter : at'[d] = "write" => at[d] = "write"
    BY <1>1, <2>1, <2>3 DEF FeedbackTypes
  <2> QED BY <1>1, <2>1, <2>2, <2>4, OutdatedJobs
<1>10. ASSUME A!Inspect \/ A!InspectBytes \/ A!Assemble \/ A!GiveUp \/ A!LoadForSelection \/ A!MoveSelection
              \/ A!FailSelection \/ A!OtherSelection
       PROVE  UNCHANGED <<content, file, at, doing>>
  BY <1>10
  DEF A!Inspect, A!InspectBytes, A!Assemble, A!GiveUp, A!others, A!LoadForSelection,
       A!MoveSelection,
      A!FailSelection, A!OtherSelection
<1>11. ASSUME A!EditReview \/ A!Bind
       PROVE  /\ content.text <= content'.text /\ at' = at /\ file' = file
              /\ \A d \in Exporter : doing'[d].text = doing[d].text
  <2>1. doing' = A!Outdated /\ at' = at /\ file' = file
    BY <1>11 DEF A!EditReview, A!Bind, A!ReviewWritten
  <2>2. content'.text = content.text + 1 \/ content' = content
    BY <1>11 DEF A!EditReview, A!Bind
  <2>3. content.text <= content'.text
    BY <1>3, <2>2
  <2>4. \A d \in Exporter : doing'[d].text = doing[d].text
    BY <1>1, <2>1, OutdatedJobs
  <2> QED BY <2>1, <2>3, <2>4
<1>12. content.text <= content.text
  BY <1>3
<1>13. CASE \E e \in Exporter : \/ A!Export(e) \/ A!Fail(e) \/ A!Preview(e) \/ A!Confirm(e) \/ A!Verify(e) \/ A!Load(e)
  BY <1>3, <1>6, <1>7, <1>12, <1>13
<1>14. CASE \E e \in Exporter : A!WriteFile(e)
  BY <1>3, <1>8, <1>12, <1>14
<1>15. CASE \E e \in Exporter : A!UpdateMetadata(e)
  BY <1>3, <1>9, <1>12, <1>15
<1>16. CASE A!Inspect \/ A!InspectBytes \/ A!Assemble \/ A!GiveUp \/ A!LoadForSelection \/ A!MoveSelection
            \/ A!FailSelection \/ A!OtherSelection
  BY <1>3, <1>10, <1>12, <1>16
<1>17. CASE A!EditReview \/ A!Bind
  BY <1>3, <1>11, <1>17
<1> QED BY <1>13, <1>14, <1>15, <1>16, <1>17 DEF A!Next

\* Exports, edits and selections leave what is being read published.
LEMMA RecordsChangeStep ==
  ASSUME ArtifactInv, A!RecordsChange
  PROVE  ArtifactInv'
<1> DEFINE new == reading.touched \/ (reading.step = "artifact" /\ file' # file)
<1>1. /\ A!Next /\ (selection' # selection => version < MaxVersion)
      /\ version' = IF selection' = selection THEN version ELSE version + 1
      /\ reading' = [reading EXCEPT !.touched = new]
      /\ UNCHANGED <<work, bound>>
  BY DEF A!RecordsChange
<1>2. ExportInv /\ ExportInv' /\ ArtifactTypes
  BY <1>1, FeedbackStep DEF ArtifactInv
<1>3. new \in BOOLEAN
  BY <1>2 DEF ArtifactTypes
<1> HIDE DEF new
<1>4. /\ reading'.step = reading.step /\ reading'.kind = reading.kind
      /\ reading'.evidence = reading.evidence /\ reading'.touched = new
      /\ reading' = [step |-> reading'.step, kind |-> reading'.kind,
                     evidence |-> reading'.evidence, touched |-> reading'.touched]
  BY <1>1, <1>2 DEF ArtifactTypes
<1>5. /\ version' \in 1 .. MaxVersion /\ version <= version' /\ version \in Nat /\ version' \in Nat
  BY <1>1, <1>2, FeedbackAssumption DEF ArtifactTypes
<1>6. ArtifactTypes'
  <2>1. bound.submission <= version'
    BY <1>2, <1>5 DEF ArtifactTypes
  <2> QED BY <1>1, <1>2, <1>3, <1>4, <1>5, <2>1 DEF ArtifactTypes
<1>7. ASSUME A!OneExporter, FeedbackRead PROVE FeedbackRead'
  <2> SUFFICES ASSUME reading.step = "artifact", reading.kind \in A!Format PROVE FeedbackRead'
    BY <1>4 DEF FeedbackRead
  <2>1. /\ PublishedText \in Nat /\ PublishedText <= content.text
        /\ \A e \in Exporter : at[e] = "write" => PublishedText <= doing[e].text
        /\ file[reading.kind] # A!NoFile =>
             /\ PublishedText <= file[reading.kind].text
             /\ PublishedText = file[reading.kind].text \/ reading.touched
    BY <1>7 DEF FeedbackRead
  <2>2. PublishedText' = PublishedText
    BY <1>1 DEF PublishedText
  <2>3. content.text \in Nat /\ content'.text \in Nat /\ content.text <= content'.text
    BY <1>1, <1>2, TextsGrow
  <2>4. PublishedText' <= content'.text
    BY <2>1, <2>2, <2>3
  <2>5. \A e \in Exporter : at'[e] = "write" => PublishedText' <= doing'[e].text
    BY <1>1, <1>2, <2>1, <2>2, <2>4, TextsGrow
  <2>6. ASSUME file'[reading.kind] # A!NoFile
        PROVE  /\ PublishedText <= file'[reading.kind].text
               /\ PublishedText = file'[reading.kind].text \/ reading'.touched
    <3>1. CASE file' = file
      BY <1>4, <2>1, <2>6, <3>1 DEF new
    <3>2. CASE file' # file
      <4>1. reading'.touched
        BY <1>4, <3>2 DEF new
      <4>2. PublishedText <= file'[reading.kind].text
        BY <1>1, <1>2, <2>1, <2>6, TextsGrow
      <4> QED BY <4>1, <4>2
    <3> QED BY <3>1, <3>2
  <2> QED BY <1>4, <2>1, <2>2, <2>4, <2>5, <2>6 DEF FeedbackRead
<1> QED BY <1>1, <1>2, <1>4, <1>6, <1>7 DEF ArtifactInv

LEMMA ArtifactStep == ArtifactInv /\ [A!NextOfArtifacts]_(A!everything) => ArtifactInv'
<1> SUFFICES ASSUME ArtifactInv, [A!NextOfArtifacts]_(A!everything) PROVE ArtifactInv'
  OBVIOUS
<1>1. ExportInv /\ ArtifactTypes
  BY DEF ArtifactInv
<1>2. ASSUME UNCHANGED A!vars PROVE ExportInv' /\ UNCHANGED <<content, file, at, doing>>
  <2>1. UNCHANGED <<content, file, at, doing>>
    BY <1>2 DEF A!vars
  <2>2. [A!Next]_(A!vars)
    BY <1>2
  <2> QED BY <1>1, <2>1, <2>2, FeedbackStep
<1>3. ASSUME UNCHANGED A!vars, UNCHANGED version, ArtifactTypes',
             UNCHANGED bound, reading'.step # "artifact" \/ UNCHANGED reading
      PROVE  ArtifactInv'
  <2>1. ExportInv' /\ UNCHANGED <<content, file, at, doing>>
    BY <1>2, <1>3
  <2> QED BY <1>3, <2>1 DEF ArtifactInv, FeedbackRead, PublishedText
<1>4. CASE UNCHANGED A!everything
  <2>1. UNCHANGED A!vars /\ UNCHANGED <<version, work, bound, reading>>
    BY <1>4 DEF A!everything, A!artifacts
  <2> QED BY <1>1, <1>3, <2>1 DEF ArtifactTypes
<1>5. CASE A!Generate
  <2>1. /\ reading = A!NotReading /\ UNCHANGED A!vars /\ UNCHANGED <<version, work, reading>>
        /\ bound' = [submission |-> version, review |-> A!ReviewBytes, selection |-> selection]
    BY <1>5 DEF A!Generate
  <2>2. version \in Nat /\ version <= version
    BY <1>1, FeedbackAssumption DEF ArtifactTypes
  <2>3. /\ bound'.submission = version
        /\ bound' = [submission |-> bound'.submission, review |-> bound'.review,
                     selection |-> bound'.selection]
    BY <2>1
  <2>4. ArtifactTypes'
    BY <1>1, <2>1, <2>2, <2>3 DEF ArtifactTypes
  <2> QED BY <1>2, <2>1, <2>4 DEF ArtifactInv, FeedbackRead, A!NotReading
<1>6. ASSUME NEW kind \in A!Kind, A!StartReading(kind) PROVE ArtifactInv'
  <2>1. /\ UNCHANGED A!vars /\ UNCHANGED <<version, work, bound>>
        /\ reading' = [reading EXCEPT !.step = "source", !.kind = kind]
    BY <1>6 DEF A!StartReading
  <2>2. /\ reading'.step = "source" /\ reading'.kind = kind /\ reading'.touched = reading.touched
        /\ reading' = [step |-> reading'.step, kind |-> reading'.kind,
                       evidence |-> reading'.evidence, touched |-> reading'.touched]
    BY <1>1, <2>1 DEF ArtifactTypes
  <2>3. ArtifactTypes'
    BY <1>1, <2>1, <2>2 DEF ArtifactTypes
  <2> QED BY <1>3, <2>1, <2>2, <2>3
<1>7. CASE A!ReadSubmission
  <2>1. /\ UNCHANGED A!vars /\ UNCHANGED <<version, work, bound>>
        /\ reading.kind = "student_work" /\ selection = bound.selection
        /\ reading' = [reading EXCEPT !.step = "artifact", !.evidence = selection]
    BY <1>7 DEF A!ReadSubmission, A!SelectedIsReferred
  <2>2. /\ reading'.step = "artifact" /\ reading'.kind = reading.kind
        /\ reading'.touched = reading.touched /\ reading'.evidence = selection
        /\ reading' = [step |-> reading'.step, kind |-> reading'.kind,
                       evidence |-> reading'.evidence, touched |-> reading'.touched]
    BY <1>1, <2>1 DEF ArtifactTypes
  <2>3. ArtifactTypes'
    BY <1>1, <2>1, <2>2 DEF ArtifactTypes
  <2>4. "student_work" \notin A!Format
    BY DEF A!Format
  <2> QED BY <1>2, <2>1, <2>2, <2>3, <2>4 DEF ArtifactInv, FeedbackRead
<1>8. CASE A!ReadReview
  <2>1. /\ UNCHANGED A!vars /\ UNCHANGED <<version, work, bound>>
        /\ reading.kind \in A!Format /\ <<content, exports>> = bound.review
        /\ OfReview(reading.kind)
        /\ reading' = [reading EXCEPT !.step = "artifact"]
    BY <1>8 DEF A!ReadReview, A!ReviewIsBound, A!ReviewBytes, A!ExportIsOfReview, OfReview
  <2>2. /\ reading'.step = "artifact" /\ reading'.kind = reading.kind
        /\ reading'.touched = reading.touched
        /\ reading' = [step |-> reading'.step, kind |-> reading'.kind,
                       evidence |-> reading'.evidence, touched |-> reading'.touched]
    BY <1>1, <2>1 DEF ArtifactTypes
  <2>3. ArtifactTypes'
    BY <1>1, <2>1, <2>2 DEF ArtifactTypes
  <2>4. ExportInv' /\ UNCHANGED <<content, file, at, doing>>
    BY <1>2, <2>1
  <2>5. bound.review[1] = content
    <3>1. bound.review = <<content, exports>>
      BY <2>1
    <3> QED BY <3>1
  <2>6. content.text \in Nat /\ content.text <= content.text
    <3>1. content.text \in Nat
      BY <1>1, TimesAreNumbers DEF ExportInv, FeedbackTypes
    <3> QED BY <3>1
  <2>7. ASSUME A!OneExporter PROVE FeedbackRead'
    <3>1. PublishedText' = content.text
      BY <2>1, <2>5 DEF PublishedText
    <3>2. ExportStands
      BY <1>1, <2>7 DEF ExportInv
    <3>3. \A e \in Exporter : at[e] = "write" => doing[e].text = content.text
      BY <2>1, <3>2 DEF ExportStands, Exporting
    <3>4. file[reading.kind] # A!NoFile => file[reading.kind].text = content.text
      BY <2>1, <3>2 DEF ExportStands
    <3> QED BY <2>2, <2>4, <2>6, <3>1, <3>3, <3>4 DEF FeedbackRead
  <2>8. reading'.kind # "student_work"
    BY <2>1, <2>2 DEF A!Format
  <2> QED BY <2>3, <2>4, <2>7, <2>8 DEF ArtifactInv
<1>9. CASE A!HandOut \/ A!Refuse
  <2>1. UNCHANGED A!vars /\ UNCHANGED <<version, work, bound>> /\ reading' = A!NotReading
    BY <1>9 DEF A!HandOut, A!Refuse
  <2>2. ArtifactTypes' /\ reading'.step # "artifact"
    BY <1>1, <2>1 DEF ArtifactTypes, A!NotReading, A!Kind
  <2> QED BY <1>3, <2>1, <2>2
<1>10. CASE A!DamageEvidence
  <2>1. UNCHANGED A!vars /\ UNCHANGED <<version, bound, reading>>
    BY <1>10 DEF A!DamageEvidence
  <2>2. work' \in [A!Selection -> {"sound", "changed", "gone"}]
    BY <1>1, <1>10 DEF A!DamageEvidence, ArtifactTypes
  <2>3. ArtifactTypes'
    BY <1>1, <2>1, <2>2 DEF ArtifactTypes
  <2> QED BY <1>3, <2>1, <2>3
<1> QED BY <1>4, <1>5, <1>6, <1>7, <1>8, <1>9, <1>10, RecordsChangeStep DEF A!NextOfArtifacts

LEMMA ArtifactsHold == ArtifactInv => A!ArtifactsTypeOK /\ A!ArtifactIsBound
<1> SUFFICES ASSUME ArtifactInv PROVE A!ArtifactsTypeOK /\ A!ArtifactIsBound
  OBVIOUS
<1>1. A!ArtifactsTypeOK
  BY FeedbackTyped DEF ArtifactInv, ArtifactTypes, A!ArtifactsTypeOK
<1>2. ASSUME A!CanHandOut, reading.kind = "student_work"
      PROVE  reading.evidence = bound.selection /\ work[bound.selection] = "sound"
  BY <1>2 DEF A!CanHandOut, ArtifactInv
<1>3. ASSUME A!CanHandOut, reading.kind # "student_work", A!OneExporter
      PROVE  LET shown == file[reading.kind].text
                 published == bound.review[1].text IN
             shown >= published /\ (shown = published \/ reading.touched)
  <2>1. reading.step = "artifact" /\ reading.kind \in A!Format /\ file[reading.kind] # A!NoFile
    BY <1>3 DEF A!CanHandOut, ArtifactInv, ArtifactTypes, A!Kind
  <2>2. /\ PublishedText \in Nat /\ PublishedText <= file[reading.kind].text
        /\ PublishedText = file[reading.kind].text \/ reading.touched
    BY <1>3, <2>1 DEF ArtifactInv, FeedbackRead
  <2>3. file[reading.kind].text \in Nat
    BY <2>1, TimesAreNumbers DEF ArtifactInv, ExportInv, FeedbackTypes
  <2> QED BY <2>2, <2>3 DEF PublishedText
<1> QED BY <1>1, <1>2, <1>3 DEF A!ArtifactIsBound

-----------------------------------------------------------------------------
(***************************************************************************)
(* The review record and its projection together, as MCReview runs them.   *)
(***************************************************************************)

ReviewInv ==
  /\ component = "record" => RecordInv
  /\ component = "projection" => ProjectionInv

\* Each step is one of the component in hand.
LEMMA ReviewStepOfOne ==
  ASSUME [ReviewNext]_allOfReview
  PROVE  /\ component' = component
         /\ component = "record" => [R!Next]_(R!vars)
         /\ component = "projection" => [P!Next]_(P!vars)
<1>1. CASE ReviewNext
  BY <1>1 DEF ReviewNext
<1>2. CASE UNCHANGED allOfReview
  BY <1>2 DEF allOfReview, record, projection, R!vars, P!vars
<1> QED
  BY <1>1, <1>2

LEMMA ReviewInvHolds == ReviewSpec => []ReviewInv
<1>1. ReviewInit => ReviewInv
  <2> SUFFICES ASSUME ReviewInit PROVE ReviewInv
    OBVIOUS
  <2>1. component = "record" => R!Init
    BY DEF ReviewInit
  <2>2. component = "projection" => P!Init
    BY DEF ReviewInit
  <2> QED
    BY <2>1, <2>2, RecordStart, ProjectionStart DEF ReviewInv
<1>2. ReviewInv /\ [ReviewNext]_allOfReview => ReviewInv'
  <2> SUFFICES ASSUME ReviewInv, [ReviewNext]_allOfReview PROVE ReviewInv'
    OBVIOUS
  <2>1. component' = "record" => RecordInv'
    BY ReviewStepOfOne, RecordStep DEF ReviewInv
  <2>2. component' = "projection" => ProjectionInv'
    BY ReviewStepOfOne, ProjectionStep DEF ReviewInv
  <2> QED
    BY <2>1, <2>2 DEF ReviewInv
<1> QED
  BY <1>1, <1>2, PTL DEF ReviewSpec

(* The review record and the assignment's fields that its projection reads *)
(* keep their types, whatever is edited, however calls of many steps       *)
(* interleave, and wherever one fails.                                     *)
THEOREM ReviewTypeCorrect == ReviewSpec => []ReviewTypeOK
<1>1. ReviewInv => ReviewTypeOK
  BY RecordTyped DEF ReviewInv, ReviewTypeOK, ProjectionInv
<1> QED
  BY <1>1, ReviewInvHolds, PTL

(* After every sequence of edits every edit still gives a valid record;    *)
(* the record is returned by state and by outcome or by neither; what it   *)
(* shows is what the teacher selected, though ids are computed from those  *)
(* there are; the comment bank never counts a use the review does not      *)
(* have, and with one editor has every comment the review saved; and what  *)
(* a manifest publishes of it passes the manifest's own validation.        *)
THEOREM RecordsStaySound == ReviewSpec => []RecordStaysSound
<1>1. ReviewInv => RecordStaysSound
  BY EditsAreValid, ReturnsCohere, SelectionsAreMeant, BankIsBehind
  DEF ReviewInv, RecordStaysSound, ProjectionInv
<1> QED
  BY <1>1, ReviewInvHolds, PTL

(* The policy of publication and the selection of feedback, two pieces of  *)
(* code, agree on every review that any edits of any assignment lead to.   *)
THEOREM FeedbackIsPublished == ReviewSpec => []PublishedAsShown
<1>1. ReviewInv => PublishedAsShown
  BY SelectionsAgree DEF ReviewInv, PublishedAsShown
<1> QED
  BY <1>1, ReviewInvHolds, PTL

-----------------------------------------------------------------------------
(***************************************************************************)
(* The export of feedback alone and beside the reader, as MCFeedback runs  *)
(* them.                                                                   *)
(***************************************************************************)

FeedbackInv ==
  /\ subject = "export" => ExportInv
  /\ subject = "artifacts" => ArtifactInv

LEMMA FeedbackStepOfOne ==
  ASSUME [FeedbackNext]_allOfFeedback
  PROVE  /\ subject' = subject
         /\ subject = "export" => [A!Next]_(A!vars)
         /\ subject = "artifacts" => [A!NextOfArtifacts]_(A!everything)
<1>1. CASE FeedbackNext
  BY <1>1 DEF FeedbackNext
<1>2. CASE UNCHANGED allOfFeedback
  <2>1. /\ subject' = subject /\ UNCHANGED <<version, work, bound, reading>>
        /\ UNCHANGED <<content, exports, file, selection, clock, at, doing, selecting, slipped,
                       packet>>
    BY <1>2 DEF allOfFeedback, artifacts
  <2>2. UNCHANGED A!vars
    BY <2>1 DEF A!vars
  <2>3. UNCHANGED A!everything
    BY <2>1, <2>2 DEF A!everything, A!artifacts
  <2> QED BY <2>1, <2>2, <2>3
<1> QED
  BY <1>1, <1>2

LEMMA FeedbackInvHolds == FeedbackSpec => []FeedbackInv
<1>1. FeedbackInit => FeedbackInv
  <2> SUFFICES ASSUME FeedbackInit PROVE FeedbackInv
    OBVIOUS
  <2>1. subject = "export" => A!Init
    BY DEF FeedbackInit
  <2>2. subject = "artifacts" => A!StartOfArtifacts
    BY DEF FeedbackInit
  <2> QED
    BY <2>1, <2>2, FeedbackStart, ArtifactsStart DEF FeedbackInv
<1>2. FeedbackInv /\ [FeedbackNext]_allOfFeedback => FeedbackInv'
  <2> SUFFICES ASSUME FeedbackInv, [FeedbackNext]_allOfFeedback PROVE FeedbackInv'
    OBVIOUS
  <2>1. subject' = "export" => ExportInv'
    BY FeedbackStepOfOne, FeedbackStep DEF FeedbackInv
  <2>2. subject' = "artifacts" => ArtifactInv'
    BY FeedbackStepOfOne, ArtifactStep DEF FeedbackInv
  <2> QED
    BY <2>1, <2>2 DEF FeedbackInv
<1> QED
  BY <1>1, <1>2, PTL DEF FeedbackSpec

(* Everything an export, a batch, an assembly, a selection and a reader of *)
(* published results work with keeps its type.                             *)
THEOREM FeedbackTypeCorrect == FeedbackSpec => []FeedbackTypeOK
<1>1. FeedbackInv => FeedbackTypeOK
  BY FeedbackTyped, ArtifactsHold DEF FeedbackInv, FeedbackTypeOK
<1> QED
  BY <1>1, FeedbackInvHolds, PTL

(* Wherever exports fail or die, however often the review is edited and    *)
(* the selection moved meanwhile: what is called current, complete,        *)
(* exported or ready for a packet shows the review as it is (while one     *)
(* process exports at a time), legacy feedback is called current for no    *)
(* selection but its own, and a reader is handed what the published result *)
(* is about, or feedback that was exported anew while it was reading.      *)
THEOREM FeedbackStaysTrue == FeedbackSpec => []FeedbackIsTrue
<1>1. FeedbackInv => FeedbackIsTrue
  BY FeedbackHolds, ArtifactsHold DEF FeedbackInv, FeedbackIsTrue
<1> QED
  BY <1>1, FeedbackInvHolds, PTL
=============================================================================
