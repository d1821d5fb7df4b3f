--------------------------- MODULE WorkspaceProofs ---------------------------
(***************************************************************************)
(* Theorems about the four components of MCWorkspace, for any number of    *)
(* teachers, students, classes, exports and edits: a save of several files *)
(* is whole or says what it left, and what the menus advise goes forward.  *)
(***************************************************************************)
EXTENDS MCWorkspace, FiniteSetTheorems, NaturalsInduction, WellFoundedInduction, TLAPS

-----------------------------------------------------------------------------
(***************************************************************************)
(* The review session.                                                     *)
(***************************************************************************)
LEMMA SessionAssumption == MaxExtras \in Nat /\ Roster \in Seq(S!Student) /\ Roster # <<>>
BY MCWorkspaceAssumption

-----------------------------------------------------------------------------
(* A teacher's session *)

Check == {"unchecked", "met", "not_met"}
Rev == [state : S!State, check : Check, outcome : S!Outcome, units : BOOLEAN]
Work == [routed : BOOLEAN, assembled : BOOLEAN, review : {S!None} \cup Rev,
         export : [S!Format -> {"missing", "present", "stale"}]]
Menus == S!Stage \cup {"list", "redraw", "student"}
Screen == [menu : Menus, student : S!Student, shown : S!Categories, guided : BOOLEAN]

\* A stage the guidance opened is the one that the screen's category asks for.
Led(a) ==
  a.guided /\ a.menu \in S!Stage => a.shown \in DOMAIN S!Target /\ a.menu = S!Target[a.shown]

SessionInv ==
  /\ policy \in [required : BOOLEAN, allowed : BOOLEAN] /\ extras \in 0 .. MaxExtras
  /\ work \in [S!Student -> Work] /\ at \in [Session -> Screen]
  /\ \A s \in Session : Led(at[s])

LEMMA Reviews == S!None \notin Rev /\ S!NewReview \in Rev
                 /\ \A r \in {S!None} \cup Rev : r = S!None \/ r \in Rev
<1>1. "none" \notin S!State
  BY DEF S!State, S!Returned
<1>2. \A r \in Rev : r.state \in S!State
  BY DEF Rev
<1>3. S!None.state = "none"
  BY DEF S!None
<1>4. S!NewReview \in Rev
  BY DEF S!NewReview, Rev, S!State, Check, S!Outcome
<1> QED
  BY <1>1, <1>2, <1>3, <1>4

LEMMA Works ==
  /\ S!NoWork \in Work
  /\ \A w \in Work : /\ S!OrNew(w.review) \in Rev
                     /\ S!Staled(w) \in Work /\ S!Staled(w).review = w.review
                     /\ S!Staled(w).assembled = w.assembled /\ S!Staled(w).routed = w.routed
  /\ \A w \in Work, r \in Rev :
       /\ [w EXCEPT !.review = r] \in Work
       /\ S!Staled([w EXCEPT !.review = r]) \in Work
       /\ S!Staled([w EXCEPT !.review = r]).review = r
       /\ S!Staled([w EXCEPT !.review = r]).assembled = w.assembled
<1>1. S!NoWork \in Work
  BY DEF S!NoWork, Work
<1>2. ASSUME NEW w \in Work
      PROVE  /\ S!Staled(w) \in Work /\ S!Staled(w).review = w.review
             /\ S!Staled(w).assembled = w.assembled /\ S!Staled(w).routed = w.routed
  <2> DEFINE x == [f \in S!Format |-> IF w.export[f] = "missing" THEN "missing" ELSE "stale"]
  <2>1. x \in [S!Format -> {"missing", "present", "stale"}] /\ S!Staled(w) = [w EXCEPT !.export = x]
    BY DEF S!Staled
  <2> HIDE DEF x
  <2> QED
    BY <2>1 DEF Work
<1>3. ASSUME NEW w \in Work PROVE S!OrNew(w.review) \in Rev
  <2>1. w.review \in {S!None} \cup Rev
    BY DEF Work
  <2> QED
    BY <2>1, Reviews DEF S!OrNew
<1>4. ASSUME NEW w \in Work, NEW r \in Rev
      PROVE  /\ [w EXCEPT !.review = r] \in Work /\ [w EXCEPT !.review = r].review = r
             /\ [w EXCEPT !.review = r].assembled = w.assembled
  BY DEF Work
<1>5. ASSUME NEW w \in Work, NEW r \in Rev
      PROVE  /\ S!Staled([w EXCEPT !.review = r]) \in Work
             /\ S!Staled([w EXCEPT !.review = r]).review = r
             /\ S!Staled([w EXCEPT !.review = r]).assembled = w.assembled
  <2>1. SUFFICES ASSUME NEW x, x = [w EXCEPT !.review = r]
        PROVE  S!Staled(x) \in Work /\ S!Staled(x).review = r /\ S!Staled(x).assembled = w.assembled
    OBVIOUS
  <2>2. x \in Work /\ x.review = r /\ x.assembled = w.assembled
    BY <1>4, <2>1
  <2> QED
    BY <1>2, <2>2
<1> QED
  BY <1>1, <1>2, <1>3, <1>4, <1>5

\* An export of what has a review.
LEMMA ExportedWorks ==
  ASSUME NEW w \in Work, w.review # S!None, NEW formats \in S!Formats
  PROVE  /\ S!Exported(w, formats) \in Work /\ S!Exported(w, formats).review \in Rev
         /\ S!Exported(w, formats).review.outcome = w.review.outcome
         /\ S!Exported(w, formats).review.state
              = IF w.review.state = S!Returned THEN S!Returned ELSE "exported"
         /\ S!Exported(w, formats).assembled = w.assembled
         /\ \E f \in S!Format : S!Exported(w, formats).export[f] = "present"
<1>1. w.review \in Rev
  BY DEF Work
<1> DEFINE state == IF w.review.state = S!Returned THEN S!Returned ELSE "exported"
           rev == [w.review EXCEPT !.state = state]
           export == [f \in S!Format |-> IF f \in formats THEN "present" ELSE S!Staled(w).export[f]]
<1>2. S!Exported(w, formats) = [w EXCEPT !.review = rev, !.export = export]
  BY <1>1 DEF S!Exported, Work, Rev
<1>3. state \in S!State
  BY DEF S!State
<1> HIDE DEF state
<1>4. rev \in Rev /\ rev.state = state /\ rev.outcome = w.review.outcome
  BY <1>1, <1>3 DEF Rev
<1>5. export \in [S!Format -> {"missing", "present", "stale"}]
  <2>1. S!Staled(w).export \in [S!Format -> {"missing", "present", "stale"}]
    BY Works DEF Work
  <2> QED
    BY <2>1
<1>6. \E f \in S!Format : export[f] = "present"
  <2>1. PICK f \in S!Format : f \in formats
    BY DEF S!Formats
  <2> QED
    BY <2>1
<1> HIDE DEF rev, export
<1>7. [w EXCEPT !.review = rev, !.export = export] \in Work
      /\ [w EXCEPT !.review = rev, !.export = export].review = rev
      /\ [w EXCEPT !.review = rev, !.export = export].export = export
      /\ [w EXCEPT !.review = rev, !.export = export].assembled = w.assembled
  BY <1>4, <1>5 DEF Work
<1> QED
  BY <1>2, <1>4, <1>6, <1>7 DEF state

LEMMA CategoryTyped ==
  ASSUME NEW w PROVE S!Category(w) \in S!Categories
BY DEF S!Category, S!StageCategory, S!ExportCategory, S!Categories, S!Target

LEMMA SessionStart == ASSUME S!Init PROVE SessionInv
<1>1. S!Closed \in Screen /\ Led(S!Closed)
  <2>1. Roster[1] \in S!Student
    BY SessionAssumption DEF S!Student
  <2>2. "list" \notin S!Stage
    BY DEF S!Stage, S!Target
  <2> QED
    BY <2>1, <2>2 DEF S!Closed, Screen, Menus, S!Categories, Led
<1>2. work \in [S!Student -> Work]
  BY Works DEF S!Init
<1>3. at \in [Session -> Screen] /\ \A s \in Session : Led(at[s])
  BY <1>1 DEF S!Init
<1> QED
  BY <1>2, <1>3, SessionAssumption DEF S!Init, SessionInv

-----------------------------------------------------------------------------
(* Every step keeps the invariant *)

\* The screen of session s is another, or none is.
Turns == UNCHANGED at \/ \E s \in Session, a \in Screen : Led(a) /\ at' = [at EXCEPT ![s] = a]

LEMMA SessionKeeps ==
  ASSUME SessionInv, Turns, work' \in [S!Student -> Work],
         policy' \in [required : BOOLEAN, allowed : BOOLEAN], S!Guided \/ S!Extra
  PROVE  SessionInv'
<1>1. extras' \in 0 .. MaxExtras
  BY SessionAssumption DEF SessionInv, S!Guided, S!Extra
<1>2. at' \in [Session -> Screen] /\ \A s \in Session : Led(at'[s])
  <2>1. CASE UNCHANGED at
    BY <2>1 DEF SessionInv
  <2>2. ASSUME NEW s \in Session, NEW a \in Screen, Led(a), at' = [at EXCEPT ![s] = a]
        PROVE  at' \in [Session -> Screen] /\ \A d \in Session : Led(at'[d])
    <3>1. at' \in [Session -> Screen] /\ \A d \in Session : at'[d] = IF d = s THEN a ELSE at[d]
      BY <2>2 DEF SessionInv
    <3> QED
      BY <2>2, <3>1 DEF SessionInv
  <2> QED
    BY <2>1, <2>2 DEF Turns
<1> QED
  BY <1>1, <1>2 DEF SessionInv

\* Where a session goes.
LEMMA Goes ==
  ASSUME SessionInv, NEW s \in Session
  PROVE  /\ \A menu \in {"list", "redraw"} : S!Go(s, menu) => Turns
         /\ \A st \in S!Student : S!Show(s, st) => Turns
         /\ \A menu \in S!Stage : S!Open(s, menu, FALSE) => Turns
         /\ at[s].shown \in DOMAIN S!Target /\ S!Open(s, S!Target[at[s].shown], TRUE) => Turns
         /\ at' = [at EXCEPT ![s].menu = "student", ![s].shown = S!Category(S!Shown(s))] => Turns
<1>1. at[s] \in Screen
  BY DEF SessionInv
<1>2. "list" \notin S!Stage /\ "redraw" \notin S!Stage /\ "student" \notin S!Stage
  BY DEF S!Stage, S!Target
<1>3. ASSUME NEW menu \in {"list", "redraw"}, S!Go(s, menu) PROVE Turns
  <2> DEFINE a == [at[s] EXCEPT !.menu = menu]
  <2>1. a \in Screen /\ a.menu = menu
    BY <1>1 DEF Screen, Menus
  <2>2. at' = [at EXCEPT ![s] = a]
    BY <1>3 DEF S!Go
  <2> HIDE DEF a
  <2> QED
    BY <1>2, <2>1, <2>2 DEF Turns, Led
<1>4. ASSUME NEW st \in S!Student, S!Show(s, st) PROVE Turns
  <2> DEFINE a == [at[s] EXCEPT !.menu = "redraw", !.student = st, !.guided = FALSE]
  <2>1. a \in Screen /\ a.menu = "redraw"
    BY <1>1 DEF Screen, Menus
  <2>2. at' = [at EXCEPT ![s] = a]
    BY <1>1, <1>4 DEF S!Show, SessionInv, Screen
  <2> HIDE DEF a
  <2> QED
    BY <1>2, <2>1, <2>2 DEF Turns, Led
<1>5. ASSUME NEW menu \in S!Stage, NEW guided \in BOOLEAN, S!Open(s, menu, guided),
             guided => at[s].shown \in DOMAIN S!Target /\ menu = S!Target[at[s].shown]
      PROVE  Turns
  <2> DEFINE a == [at[s] EXCEPT !.menu = menu, !.guided = guided]
  <2>1. a \in Screen /\ a.menu = menu /\ a.guided = guided /\ a.shown = at[s].shown
    BY <1>1 DEF Screen, Menus
  <2>2. at' = [at EXCEPT ![s] = a]
    BY <1>1, <1>5 DEF S!Open, SessionInv, Screen
  <2> HIDE DEF a
  <2>3. Led(a)
    BY <1>5, <2>1 DEF Led
  <2> QED
    BY <2>1, <2>2, <2>3 DEF Turns
<1>6. \A menu \in S!Stage : S!Open(s, menu, FALSE) => Turns
  BY <1>5
<1>7. at[s].shown \in DOMAIN S!Target /\ S!Open(s, S!Target[at[s].shown], TRUE) => Turns
  <2>1. at[s].shown \in DOMAIN S!Target => S!Target[at[s].shown] \in S!Stage
    BY DEF S!Stage
  <2> QED
    BY <1>5, <2>1
<1>8. ASSUME at' = [at EXCEPT ![s].menu = "student", ![s].shown = S!Category(S!Shown(s))] PROVE Turns
  <2>1. PICK c \in S!Categories : c = S!Category(S!Shown(s))
    BY CategoryTyped
  <2> DEFINE a == [at[s] EXCEPT !.menu = "student", !.shown = c]
  <2>2. a \in Screen /\ a.menu = "student"
    BY <1>1 DEF Screen, Menus
  <2>3. at' = [at EXCEPT ![s] = a]
    BY <1>1, <1>8, <2>1 DEF SessionInv, Screen
  <2> HIDE DEF a
  <2> QED
    BY <1>2, <2>2, <2>3 DEF Turns, Led
<1> QED
  BY <1>3, <1>4, <1>6, <1>7, <1>8

\* What a save leaves.
LEMMA Saves ==
  ASSUME SessionInv, NEW st \in S!Student, NEW r \in Rev, S!Save(st, r)
  PROVE  work' \in [S!Student -> Work] /\ work'[st] = S!Staled([work[st] EXCEPT !.review = r])
<1>1. work[st] \in Work
  BY DEF SessionInv
<1>2. PICK w \in Work : w = S!Staled([work[st] EXCEPT !.review = r])
  BY <1>1, Works
<1>3. work' = [work EXCEPT ![st] = w]
  BY <1>2 DEF S!Save
<1> QED
  BY <1>2, <1>3 DEF SessionInv

LEMMA FirstIsOne ==
  ASSUME NEW sts \in SUBSET S!Student, sts # {}
  PROVE  S!First(sts) \in sts
<1>1. \A st \in S!Student : S!Place(st) \in Nat
  BY SessionAssumption DEF S!Student, S!Place
<1> DEFINE places == {S!Place(st) : st \in sts}
<1>2. places \subseteq Nat /\ places # {}
  BY <1>1
<1>3. PICK m \in places : \A p \in places : ~ (<<p, m>> \in OpToRel(<, Nat))
  BY <1>2, NatLessThanWellFounded, WFMin
<1>4. \A p \in places : m <= p
  <2>1. \A p \in places : ~ (p < m)
    BY <1>2, <1>3 DEF OpToRel
  <2> QED
    BY <1>2, <2>1
<1>5. PICK st \in sts : S!Place(st) = m
  OBVIOUS
<1>6. \A o \in sts : S!Place(st) <= S!Place(o)
  BY <1>4, <1>5
<1> QED
  BY <1>6 DEF S!First

\* An edited review is a review.
LEMMA Edits ==
  /\ \A state \in S!State : /\ S!InProgress(state) \in S!State /\ S!Rerated(state) \in S!State
                            /\ S!Recomposed(state) \in S!State /\ S!Checked(state) \in S!State
  /\ \A outcome \in S!Outcome : S!Decided(outcome) \in S!State
  /\ \A r \in Rev, state \in S!State : [r EXCEPT !.state = state] \in Rev
  /\ \A r \in Rev : /\ r.state \in S!State
                    /\ [r EXCEPT !.state = S!InProgress(@)] \in Rev
                    /\ [r EXCEPT !.state = S!Rerated(@)] \in Rev
                    /\ [r EXCEPT !.state = S!Recomposed(@)] \in Rev
                    /\ [r EXCEPT !.units = TRUE, !.state = S!InProgress(@)] \in Rev
  /\ \A r \in Rev, met \in {"met", "not_met"} :
       [r EXCEPT !.check = met, !.state = S!Checked(@)] \in Rev
  /\ \A r \in Rev, outcome \in S!Outcome :
       [r EXCEPT !.outcome = outcome, !.state = S!Decided(outcome)] \in Rev
<1>1. /\ \A state \in S!State : /\ S!InProgress(state) \in S!State /\ S!Rerated(state) \in S!State
                                /\ S!Recomposed(state) \in S!State /\ S!Checked(state) \in S!State
      /\ \A outcome \in S!Outcome : S!Decided(outcome) \in S!State
  BY DEF S!State, S!InProgress, S!Rerated, S!Recomposed, S!Checked, S!Decided
<1>2. \A r \in Rev, state \in S!State : [r EXCEPT !.state = state] \in Rev
  BY DEF Rev
<1>3. \A r \in Rev : r.state \in S!State
  BY DEF Rev
<1>4. ASSUME NEW r \in Rev
      PROVE  /\ [r EXCEPT !.state = S!InProgress(@)] \in Rev
             /\ [r EXCEPT !.state = S!Rerated(@)] \in Rev
             /\ [r EXCEPT !.state = S!Recomposed(@)] \in Rev
  BY <1>1, <1>2, <1>3
<1>5. ASSUME NEW r \in Rev PROVE [r EXCEPT !.units = TRUE, !.state = S!InProgress(@)] \in Rev
  <2>1. S!InProgress(r.state) \in S!State
    BY <1>1, <1>3
  <2> QED
    BY <2>1 DEF Rev
<1>6. ASSUME NEW r \in Rev, NEW met \in {"met", "not_met"}
      PROVE  [r EXCEPT !.check = met, !.state = S!Checked(@)] \in Rev
  <2>1. S!Checked(r.state) \in S!State
    BY <1>1, <1>3
  <2> QED
    BY <2>1 DEF Rev, Check
<1>7. ASSUME NEW r \in Rev, NEW outcome \in S!Outcome
      PROVE  [r EXCEPT !.outcome = outcome, !.state = S!Decided(outcome)] \in Rev
  <2>1. S!Decided(outcome) \in S!State
    BY <1>1
  <2> QED
    BY <2>1 DEF Rev
<1> QED
  BY <1>1, <1>2, <1>3, <1>4, <1>5, <1>6, <1>7

\* Choosing a student changes the screen alone.
LEMMA ChoosingKeeps ==
  ASSUME SessionInv, NEW s \in Session,
         \/ \E st \in S!Student : S!SelectNeedingWork(s, st) \/ S!SelectStudent(s, st)
                                     \/ S!GoToNeighbour(s, st)
         \/ S!Redraw(s) \/ S!GoToNextNeeding(s) \/ S!BackToList(s) \/ S!BackToStudent(s) \/ S!Leave(s)
         \/ S!Continue(s) \/ \E menu \in S!Stage : S!Advanced(s, menu)
  PROVE  SessionInv'
<1>1. /\ UNCHANGED <<policy, work>>
      /\ S!Guided \/ S!Extra
  BY DEF S!SelectNeedingWork, S!SelectStudent, S!GoToNeighbour, S!Redraw, S!GoToNextNeeding,
       S!BackToList,
         S!BackToStudent, S!Leave, S!Continue, S!Advanced
<1>2. at[s].student \in S!Student
  BY DEF SessionInv, Screen
<1>3. Turns
  <2>1. CASE \E st \in S!Student : S!SelectNeedingWork(s, st) \/ S!SelectStudent(s, st)
                                     \/ S!GoToNeighbour(s, st)
    BY <2>1, Goes DEF S!SelectNeedingWork, S!SelectStudent, S!GoToNeighbour
  <2>2. CASE S!Redraw(s)
    BY <2>2, Goes DEF S!Redraw
  <2>3. CASE S!GoToNextNeeding(s)
    <3>1. S!NextNeedingReview(at[s].student) \in SUBSET S!Student
      BY DEF S!NextNeedingReview, S!Later
    <3>2. S!First(S!NextNeedingReview(at[s].student)) \in S!Student
      BY <2>3, <3>1, FirstIsOne DEF S!GoToNextNeeding
    <3> QED
      BY <2>3, <3>2, Goes DEF S!GoToNextNeeding
  <2>4. CASE S!BackToList(s) \/ S!Leave(s) \/ S!BackToStudent(s)
    BY <1>2, <2>4, Goes DEF S!BackToList, S!Leave, S!BackToStudent
  <2>5. CASE S!Continue(s)
    BY <2>5, Goes DEF S!Continue
  <2>6. CASE \E menu \in S!Stage : S!Advanced(s, menu)
    BY <2>6, Goes DEF S!Advanced
  <2> QED
    BY <2>1, <2>2, <2>3, <2>4, <2>5, <2>6
<1>4. work' \in [S!Student -> Work] /\ policy' \in [required : BOOLEAN, allowed : BOOLEAN]
  BY <1>1 DEF SessionInv
<1> QED
  BY <1>1, <1>3, <1>4, SessionKeeps

\* A step that saves an edited review of the student shown.
LEMMA EditKeeps ==
  ASSUME SessionInv, NEW s \in Session, NEW r \in Rev, S!Save(at[s].student, r),
         UNCHANGED policy, UNCHANGED at \/ S!Go(s, "redraw"), S!Guided \/ S!Extra
  PROVE  SessionInv'
<1>1. at[s].student \in S!Student
  BY DEF SessionInv, Screen
<1>2. work' \in [S!Student -> Work]
  BY <1>1, Saves
<1>3. Turns
  BY Goes DEF Turns
<1>4. policy' \in [required : BOOLEAN, allowed : BOOLEAN]
  BY DEF SessionInv
<1> QED
  BY <1>2, <1>3, <1>4, SessionKeeps

\* The review of the student shown.
LEMMA ReviewShown ==
  ASSUME SessionInv, NEW s \in Session
  PROVE  /\ at[s] \in Screen /\ at[s].student \in S!Student /\ S!Shown(s) \in Work
         /\ S!OrNew(S!Review(s)) \in Rev /\ S!Review(s) \in {S!None} \cup Rev
         /\ S!Review(s) # S!None => S!Review(s) \in Rev
<1>1. at[s] \in Screen /\ at[s].student \in S!Student /\ S!Shown(s) \in Work
  BY DEF SessionInv, Screen, S!Shown
<1>2. S!OrNew(S!Review(s)) \in Rev
  BY <1>1, Works DEF S!Review
<1>3. S!Review(s) \in {S!None} \cup Rev
  BY <1>1 DEF S!Review, Work
<1> QED
  BY <1>1, <1>2, <1>3

LEMMA EditsKeep ==
  ASSUME SessionInv, NEW s \in Session,
         \/ S!AddReviewNote(s)
         \/ \E state \in S!State : S!UpdateReviewWorkflowState(s, state)
         \/ \E met \in {"met", "not_met"} : S!RecordRequirementCheck(s, met)
         \/ \E outcome \in S!Outcome : S!FinalizeOutcome(s, outcome)
         \/ S!DefineReviewUnits(s) \/ S!RecordObservation(s) \/ S!MarkObservationsComplete(s)
         \/ S!RecordRating(s) \/ S!MarkRatingsComplete(s)
         \/ S!FeedbackEdited(s) \/ S!MarkFeedbackComposed(s)
  PROVE  SessionInv'
<1>1. /\ S!OrNew(S!Review(s)) \in Rev
      /\ S!Review(s) # S!None => S!Review(s) \in Rev
  BY ReviewShown
<1>2. /\ UNCHANGED policy
      /\ UNCHANGED at \/ S!Go(s, "redraw")
      /\ S!Guided \/ S!Extra
  BY DEF S!AddReviewNote, S!UpdateReviewWorkflowState, S!RecordRequirementCheck, S!FinalizeOutcome,
         S!DefineReviewUnits, S!RecordObservation, S!MarkObservationsComplete, S!RecordRating,
         S!MarkRatingsComplete, S!FeedbackEdited, S!MarkFeedbackComposed, S!In, S!Stay, S!Completed
<1>3. PICK r \in Rev : S!Save(at[s].student, r)
  <2>0. {"observations_complete", "ratings_complete", "feedback_composed"} \subseteq S!State
    BY DEF S!State
  <2>1. CASE S!AddReviewNote(s)
    BY <1>1, <2>1 DEF S!AddReviewNote
  <2>2. CASE \E state \in S!State : S!UpdateReviewWorkflowState(s, state)
    BY <1>1, <2>2, Edits DEF S!UpdateReviewWorkflowState
  <2>3. CASE \E met \in {"met", "not_met"} : S!RecordRequirementCheck(s, met)
    BY <1>1, <2>3, Edits DEF S!RecordRequirementCheck, S!CheckSaved
  <2>4. CASE \E outcome \in S!Outcome : S!FinalizeOutcome(s, outcome)
    BY <1>1, <2>4, Edits DEF S!FinalizeOutcome
  <2>5. CASE S!DefineReviewUnits(s)
    BY <1>1, <2>5, Edits DEF S!DefineReviewUnits
  <2>6. CASE S!RecordObservation(s)
    BY <1>1, <2>6, Edits DEF S!RecordObservation, S!Reviewable
  <2>7. CASE S!MarkObservationsComplete(s)
    BY <1>1, <2>0, <2>7, Edits DEF S!MarkObservationsComplete, S!Reviewable
  <2>8. CASE S!RecordRating(s)
    BY <1>1, <2>8, Edits DEF S!RecordRating, S!Reviewable
  <2>9. CASE S!MarkRatingsComplete(s)
    BY <1>1, <2>0, <2>9, Edits DEF S!MarkRatingsComplete, S!Reviewable
  <2>10. CASE S!FeedbackEdited(s)
    BY <1>1, <2>10, Edits DEF S!FeedbackEdited, S!Reviewable
  <2>11. CASE S!MarkFeedbackComposed(s)
    BY <1>1, <2>0, <2>11, Edits DEF S!MarkFeedbackComposed, S!Reviewable
  <2> QED
    BY <2>1, <2>2, <2>3, <2>4, <2>5, <2>6, <2>7, <2>8, <2>9, <2>10, <2>11
<1> QED
  BY <1>2, <1>3, EditKeeps

\* What changes the work otherwise.
LEMMA WorkKeeps ==
  ASSUME SessionInv, UNCHANGED policy, S!Guided \/ S!Extra,
         UNCHANGED at \/ \E s \in Session : S!Go(s, "redraw"),
         \/ UNCHANGED work
         \/ work' = S!Assembled
         \/ \E st \in S!Student, w \in Work : work' = [work EXCEPT ![st] = w]
  PROVE  SessionInv'
<1>1. work \in [S!Student -> Work]
  BY DEF SessionInv
<1>2. S!Assembled \in [S!Student -> Work]
  <2>1. ASSUME NEW st \in S!Student
        PROVE  [work[st] EXCEPT !.assembled = @ \/ work[st].routed] \in Work
    <3>1. work[st] \in Work
      BY <1>1
    <3> DEFINE a == work[st].assembled \/ work[st].routed
    <3>2. a \in BOOLEAN
      BY <3>1 DEF Work
    <3> HIDE DEF a
    <3>3. [work[st] EXCEPT !.assembled = a] \in Work
      BY <3>1, <3>2 DEF Work
    <3> QED
      BY <3>3 DEF a
  <2> QED
    BY <2>1 DEF S!Assembled
<1>3. work' \in [S!Student -> Work]
  BY <1>1, <1>2
<1>4. Turns
  BY Goes DEF Turns
<1>5. policy' \in [required : BOOLEAN, allowed : BOOLEAN]
  BY DEF SessionInv
<1> QED
  BY <1>3, <1>4, <1>5, SessionKeeps

LEMMA OtherStepsKeep ==
  ASSUME SessionInv,
         \/ \E s \in Session : \/ S!CreatePlainPaper(s) \/ S!AssembleAssignment(s) \/ S!ChangeSubmissionPage(s)
                               \/ S!NoRequirements(s)
                               \/ \E formats \in S!Formats : S!ExportStudentFeedback(s, formats)
         \/ S!Meanwhile
  PROVE  SessionInv'
<1>1. ASSUME NEW s \in Session, S!CreatePlainPaper(s) PROVE SessionInv'
  <2>1. at[s].student \in S!Student /\ S!Shown(s) \in Work
    BY ReviewShown
  <2> DEFINE w == [work[at[s].student] EXCEPT !.assembled = TRUE, !.review = S!NewReview]
  <2>2. w \in Work
    BY <2>1, Reviews DEF Work, S!Shown
  <2>3. UNCHANGED work \/ work' = [work EXCEPT ![at[s].student] = w]
    BY <1>1, <2>1 DEF S!CreatePlainPaper, SessionInv, Work
  <2>4. UNCHANGED policy /\ S!Guided /\ S!Go(s, "redraw")
    BY <1>1 DEF S!CreatePlainPaper
  <2> HIDE DEF w
  <2> QED
    BY <2>1, <2>2, <2>3, <2>4, WorkKeeps
<1>2. ASSUME NEW s \in Session, S!AssembleAssignment(s) PROVE SessionInv'
  BY <1>2, WorkKeeps DEF S!AssembleAssignment
<1>3. ASSUME NEW s \in Session, S!ChangeSubmissionPage(s) PROVE SessionInv'
  <2>1. at[s].student \in S!Student /\ S!Shown(s) \in Work
    BY ReviewShown
  <2>2. S!Staled(work[at[s].student]) \in Work
    BY <2>1, Works DEF S!Shown
  <2> QED
    BY <1>3, <2>1, <2>2, WorkKeeps DEF S!ChangeSubmissionPage
<1>4. ASSUME NEW s \in Session, S!NoRequirements(s) PROVE SessionInv'
  BY <1>4, WorkKeeps DEF S!NoRequirements, S!In, S!Completed
<1>5. ASSUME NEW s \in Session, NEW formats \in S!Formats, S!ExportStudentFeedback(s, formats)
      PROVE  SessionInv'
  <2>1. at[s].student \in S!Student /\ S!Shown(s) \in Work /\ S!Review(s) # S!None
    BY <1>5, ReviewShown DEF S!ExportStudentFeedback
  <2>2. S!Exported(work[at[s].student], formats) \in Work
    BY <2>1, ExportedWorks DEF S!Shown, S!Review
  <2> QED
    BY <1>5, <2>1, <2>2, WorkKeeps DEF S!ExportStudentFeedback, S!In, S!Completed
<1>6. ASSUME NEW st \in S!Student, S!RouteEvidence(st) PROVE SessionInv'
  <2>1. [work[st] EXCEPT !.routed = TRUE] \in Work
    <3>1. work[st] \in Work
      BY DEF SessionInv
    <3> QED
      BY <3>1 DEF Work
  <2>2. work' = [work EXCEPT ![st] = [work[st] EXCEPT !.routed = TRUE]]
    BY <1>6 DEF S!RouteEvidence
  <2> QED
    BY <1>6, <2>1, <2>2, WorkKeeps DEF S!RouteEvidence
<1>7. ASSUME NEW st \in S!Student, NEW formats \in S!Formats, S!BatchExport(st, formats) PROVE SessionInv'
  <2>1. work[st] \in Work /\ S!Category(work[st]) \in {"export_pending", "complete"}
    BY <1>7 DEF SessionInv, S!BatchExport
  <2>2. work[st].review # S!None
    <3> SUFFICES ASSUME work[st].review = S!None PROVE FALSE
      OBVIOUS
    <3>1. ~S!HalfReturned(S!NewReview) /\ ~S!IsReturned(S!NewReview) /\ S!NewReview.state \notin S!Observed
      BY DEF S!HalfReturned, S!IsReturned, S!NewReview, S!Returned, S!Observed, S!ObservedStates,
           S!RatedStates,
             S!ComposedStates
    <3> QED
      BY <2>1, <3>1 DEF S!Category, S!StageCategory
  <2>3. S!Exported(work[st], formats) \in Work
    BY <2>1, <2>2, ExportedWorks
  <2> QED
    BY <1>7, <2>3, WorkKeeps DEF S!BatchExport
<1>8. ASSUME NEW p \in [required : BOOLEAN, allowed : BOOLEAN], S!EditPolicy(p) PROVE SessionInv'
  <2>1. policy' = p /\ S!Extra /\ UNCHANGED <<work, at>>
    BY <1>8 DEF S!EditPolicy
  <2>2. extras' \in 0 .. MaxExtras
    BY <2>1, SessionAssumption DEF SessionInv, S!Extra
  <2> QED
    BY <2>1, <2>2 DEF SessionInv
<1> QED
  BY <1>1, <1>2, <1>3, <1>4, <1>5, <1>6, <1>7, <1>8 DEF S!Meanwhile

LEMMA SessionStep == ASSUME SessionInv, [S!Next]_(S!vars) PROVE SessionInv'
<1>1. CASE UNCHANGED S!vars
  BY <1>1 DEF S!vars, SessionInv
<1>2. CASE S!Meanwhile
  BY <1>2, OtherStepsKeep
<1>3. ASSUME NEW s \in Session, S!Follow(s) \/ S!Aside(s) PROVE SessionInv'
  <2>1. \/ /\ \/ \E st \in S!Student : S!SelectNeedingWork(s, st) \/ S!SelectStudent(s, st)
                                     \/ S!GoToNeighbour(s, st)
              \/ S!Redraw(s) \/ S!GoToNextNeeding(s) \/ S!BackToList(s) \/ S!BackToStudent(s) \/ S!Leave(s)
              \/ S!Continue(s) \/ \E menu \in S!Stage : S!Advanced(s, menu)
        \/ /\ \/ S!AddReviewNote(s)
              \/ \E state \in S!State : S!UpdateReviewWorkflowState(s, state)
              \/ \E met \in {"met", "not_met"} : S!RecordRequirementCheck(s, met)
              \/ \E outcome \in S!Outcome : S!FinalizeOutcome(s, outcome)
              \/ S!DefineReviewUnits(s) \/ S!RecordObservation(s) \/ S!MarkObservationsComplete(s)
              \/ S!RecordRating(s) \/ S!MarkRatingsComplete(s)
              \/ S!FeedbackEdited(s) \/ S!MarkFeedbackComposed(s)
        \/ /\ \/ S!CreatePlainPaper(s) \/ S!AssembleAssignment(s) \/ S!ChangeSubmissionPage(s)
              \/ S!NoRequirements(s)
              \/ \E formats \in S!Formats : S!ExportStudentFeedback(s, formats)
    BY <1>3, Zenon DEF S!Follow, S!Aside, S!ConfigureFeedbackOptions, S!AddFeedbackComment
  <2> QED
    BY <2>1, ChoosingKeeps, EditsKeep, OtherStepsKeep
<1> QED
  BY <1>1, <1>2, <1>3 DEF S!Next

LEMMA SessionHolds == ASSUME SessionInv PROVE S!TypeOK
<1>1. ASSUME NEW st \in S!Student
      PROVE  /\ \/ work[st].review = S!None
                \/ work[st].review.state \in S!State /\ work[st].review.outcome \in S!Outcome
             /\ work[st].export \in [S!Format -> {"missing", "present", "stale"}]
  <2>1. work[st] \in Work
    BY DEF SessionInv
  <2>2. work[st].review \in {S!None} \cup Rev
    BY <2>1 DEF Work
  <2>3. work[st].review # S!None => work[st].review.state \in S!State /\ work[st].review.outcome \in S!Outcome
    BY <2>2 DEF Rev
  <2> QED
    BY <2>1, <2>3 DEF Work
<1>2. \A s \in Session : /\ at[s].menu \in S!Stage \cup {"list", "redraw", "student"}
                         /\ at[s].student \in S!Student /\ at[s].shown \in S!Categories
  BY DEF SessionInv, Screen, Menus
<1> QED
  BY <1>1, <1>2 DEF SessionInv, S!TypeOK

-----------------------------------------------------------------------------
(* The guidance advances *)

\* The category of work, given what the assignment asks.
Sorted(w, required) ==
  IF ~w.assembled
  THEN IF w.routed THEN "needs_assembly" ELSE "no_submission"
  ELSE IF S!HalfReturned(S!OrNew(w.review)) \/ (S!IsReturned(S!OrNew(w.review)) /\ ~required)
  THEN "attention_required"
  ELSE IF required /\ S!OrNew(w.review).outcome = "not_checked" THEN "minimum_requirements_pending"
  ELSE IF S!IsReturned(S!OrNew(w.review)) THEN S!ExportCategory(w)
  ELSE S!StageCategory(w, S!OrNew(w.review))

\* Work whose category a stage asks for.
LEMMA Asked ==
  ASSUME NEW w \in Work, NEW required \in BOOLEAN, Sorted(w, required) \in DOMAIN S!Target
  PROVE  /\ w.assembled /\ ~S!HalfReturned(S!OrNew(w.review))
         /\ S!Target[Sorted(w, required)] = "minimum" => required
         /\ S!Target[Sorted(w, required)] = "minimum" <=> Sorted(w, required) = "minimum_requirements_pending"
         /\ S!Target[Sorted(w, required)] = "observations" <=> Sorted(w, required) = "observations_pending"
         /\ S!Target[Sorted(w, required)] = "ratings" <=> Sorted(w, required) = "ratings_pending"
         /\ S!Target[Sorted(w, required)] = "feedback" <=> Sorted(w, required) = "feedback_pending"
         /\ S!Target[Sorted(w, required)] = "export" <=> Sorted(w, required) = "export_pending"
         /\ Sorted(w, required) # "minimum_requirements_pending" =>
              (required => S!OrNew(w.review).outcome # "not_checked")
<1>1. DOMAIN S!Target = {"minimum_requirements_pending", "observations_pending", "ratings_pending",
                       "feedback_pending", "export_pending"}
  BY DEF S!Target
<1>2. /\ S!Target["minimum_requirements_pending"] = "minimum"
      /\ S!Target["observations_pending"] = "observations" /\ S!Target["ratings_pending"] = "ratings"
      /\ S!Target["feedback_pending"] = "feedback" /\ S!Target["export_pending"] = "export"
  BY DEF S!Target
<1>3. w.assembled
  BY <1>1 DEF Sorted
<1>4. ~S!HalfReturned(S!OrNew(w.review))
  BY <1>1 DEF Sorted
<1>5. Sorted(w, required) = "minimum_requirements_pending" => required
  BY DEF Sorted, S!ExportCategory, S!StageCategory
<1>6. Sorted(w, required) # "minimum_requirements_pending" =>
        (required => S!OrNew(w.review).outcome # "not_checked")
  BY <1>1, <1>3, <1>4 DEF Sorted
<1>7. SUFFICES ASSUME NEW c \in DOMAIN S!Target, c = Sorted(w, required)
      PROVE  /\ S!Target[c] = "minimum" <=> c = "minimum_requirements_pending"
             /\ S!Target[c] = "observations" <=> c = "observations_pending"
             /\ S!Target[c] = "ratings" <=> c = "ratings_pending"
             /\ S!Target[c] = "feedback" <=> c = "feedback_pending"
             /\ S!Target[c] = "export" <=> c = "export_pending"
  BY <1>3, <1>4, <1>5, <1>6
<1> QED
  BY <1>1, <1>2, <1>7

\* What the work's category is once a stage is done.
LEMMA Decides ==
  ASSUME NEW v \in Work, v.assembled, v.review \in Rev, v.review.outcome # "not_checked",
         v.review.state = S!Decided(v.review.outcome), NEW required \in BOOLEAN, required
  PROVE  Sorted(v, required) \in {"observations_pending", "export_pending", "complete"}
<1>1. S!OrNew(v.review) = v.review
  BY Reviews DEF S!OrNew
<1>2. ~S!HalfReturned(v.review)
  BY DEF S!HalfReturned, S!Decided, S!Returned
<1>3. v.review.state \notin S!Observed \/ S!IsReturned(v.review)
  BY DEF S!Decided, S!IsReturned, S!Observed, S!ObservedStates, S!RatedStates, S!ComposedStates
<1> QED
  BY <1>1, <1>2, <1>3 DEF Sorted, S!StageCategory, S!ExportCategory

LEMMA Stages ==
  ASSUME NEW v \in Work, NEW required \in BOOLEAN, v.assembled, v.review \in Rev,
         required => v.review.outcome # "not_checked", v.review.outcome # S!Returned
  PROVE  /\ v.review.state = "observations_complete" => Sorted(v, required) = "ratings_pending"
         /\ v.review.state = "ratings_complete" => Sorted(v, required) = "feedback_pending"
         /\ v.review.state = "feedback_composed" => Sorted(v, required) \in {"export_pending", "complete"}
         /\ v.review.state = "exported" => Sorted(v, required) = S!ExportCategory(v)
<1>1. S!OrNew(v.review) = v.review
  BY Reviews DEF S!OrNew
<1>2. v.review.state # S!Returned => ~S!HalfReturned(v.review) /\ ~S!IsReturned(v.review)
  BY DEF S!HalfReturned, S!IsReturned
<1>3. {"observations_complete", "ratings_complete", "feedback_composed", "exported"} \cap {S!Returned} = {}
  BY DEF S!Returned
<1>4. /\ v.review.state = "observations_complete" => S!StageCategory(v, v.review) = "ratings_pending"
      /\ v.review.state = "ratings_complete" => S!StageCategory(v, v.review) = "feedback_pending"
      /\ v.review.state = "feedback_composed" => S!StageCategory(v, v.review) = S!ExportCategory(v)
      /\ v.review.state = "exported" => S!StageCategory(v, v.review) = S!ExportCategory(v)
  BY DEF S!StageCategory, S!Observed, S!Rated, S!Composed, S!ObservedStates, S!RatedStates,
       S!ComposedStates
<1>5. v.review.state # S!Returned => Sorted(v, required) = S!StageCategory(v, v.review)
  BY <1>1, <1>2 DEF Sorted
<1> QED
  BY <1>3, <1>4, <1>5 DEF S!ExportCategory

\* The steps that close a stage the guidance opened.
Closes(s) ==
  \/ S!NoRequirements(s)
  \/ \E outcome \in S!Outcome : S!FinalizeOutcome(s, outcome)
  \/ S!MarkObservationsComplete(s) \/ S!MarkRatingsComplete(s) \/ S!MarkFeedbackComposed(s)
  \/ \E formats \in S!Formats : S!ExportStudentFeedback(s, formats)

LEMMA OnlyCloses ==
  ASSUME SessionInv, [S!Next]_(S!vars), NEW s \in Session, at[s].guided, at[s].menu \in S!Stage,
         at'[s].menu = "redraw", extras' = extras
  PROVE  Closes(s)
<1>1. "redraw" \notin S!Stage /\ "list" \notin S!Stage /\ "student" \notin S!Stage
  BY DEF S!Stage, S!Target
<1>2. ~S!Extra
  <2>1. extras \in Nat
    BY DEF SessionInv
  <2> QED
    BY <2>1 DEF S!Extra
<1>3. ~UNCHANGED S!vars /\ ~UNCHANGED at
  BY <1>1 DEF S!vars
<1>4. ~S!Meanwhile
  BY <1>2 DEF S!Meanwhile, S!RouteEvidence, S!BatchExport, S!EditPolicy
<1>5. PICK d \in Session : S!Follow(d) \/ S!Aside(d)
  BY <1>3, <1>4 DEF S!Next
<1>6. ~S!Aside(d)
  BY <1>2 DEF S!Aside, S!SelectStudent, S!GoToNeighbour, S!Leave, S!Advanced, S!AddReviewNote,
       S!ChangeSubmissionPage,
              S!UpdateReviewWorkflowState, S!RecordObservation, S!RecordRating,
              S!ConfigureFeedbackOptions,
              S!AddFeedbackComment, S!FeedbackEdited
<1>7. d = s
  <2> SUFFICES ASSUME d # s PROVE FALSE
    OBVIOUS
  <2>1. \E a : at' = [at EXCEPT ![d] = a]
    <3>1. /\ \A menu : S!Go(d, menu) => at' = [at EXCEPT ![d] = [at[d] EXCEPT !.menu = menu]]
          /\ \A st : S!Show(d, st) => \E a : at' = [at EXCEPT ![d] = a]
          /\ \A menu, guided : S!Open(d, menu, guided) => \E a : at' = [at EXCEPT ![d] = a]
      BY DEF S!Go, S!Show, S!Open, SessionInv
    <3>2. S!Redraw(d) => \E a : at' = [at EXCEPT ![d] = a]
      BY DEF S!Redraw, SessionInv
    <3>3. ~UNCHANGED at
      BY <1>3
    <3> QED
      BY <1>5, <1>6, <3>1, <3>2, <3>3
         DEF S!Follow, S!SelectNeedingWork, S!GoToNextNeeding, S!BackToList, S!BackToStudent,
              S!Continue,
             S!CreatePlainPaper, S!AssembleAssignment, S!NoRequirements, S!RecordRequirementCheck,
             S!FinalizeOutcome, S!DefineReviewUnits, S!MarkObservationsComplete,
             S!MarkRatingsComplete,
             S!MarkFeedbackComposed, S!ExportStudentFeedback, S!Stay, S!Completed
  <2> QED
    BY <1>1, <2>1 DEF SessionInv
<1>8. /\ ~(\E st \in S!Student : S!SelectNeedingWork(s, st)) /\ ~S!Redraw(s) /\ ~S!GoToNextNeeding(s)
      /\ ~S!BackToList(s) /\ ~S!Continue(s) /\ ~S!CreatePlainPaper(s) /\ ~S!AssembleAssignment(s)
      /\ ~S!BackToStudent(s)
  BY <1>1 DEF S!SelectNeedingWork, S!Redraw, S!GoToNextNeeding, S!BackToList, S!Continue,
       S!CreatePlainPaper,
              S!AssembleAssignment, S!BackToStudent
<1>9. /\ ~(\E met \in {"met", "not_met"} : S!RecordRequirementCheck(s, met)) /\ ~S!DefineReviewUnits(s)
  BY <1>3 DEF S!RecordRequirementCheck, S!DefineReviewUnits, S!Stay
<1> QED
  BY <1>5, <1>6, <1>7, <1>8, <1>9 DEF S!Follow, Closes

\* What closing a stage leaves of the student's work.
LEMMA StageAdvance ==
  ASSUME SessionInv, NEW s \in Session, Closes(s), at[s].guided, at[s].menu \in S!Stage,
         NEW w, w = work[at[s].student], NEW v, v = work'[at[s].student],
         NEW required, required = policy.required, Sorted(w, required) = at[s].shown
  PROVE  /\ UNCHANGED policy /\ at'[s].student = at[s].student
         /\ S!Rank[Sorted(v, required)] > S!Rank[Sorted(w, required)]
<1>1. /\ at[s] \in Screen /\ at[s].student \in S!Student /\ w \in Work /\ w.review \in {S!None} \cup Rev
      /\ S!OrNew(w.review) \in Rev /\ S!Review(s) = w.review
      /\ w.review # S!None => w.review \in Rev
  BY ReviewShown DEF S!Shown, S!Review
<1>2. required \in BOOLEAN /\ Led(at[s])
  BY DEF SessionInv
<1>3. Sorted(w, required) \in DOMAIN S!Target /\ at[s].menu = S!Target[Sorted(w, required)]
  BY <1>2 DEF Led
<1>4. UNCHANGED policy /\ S!Go(s, "redraw")
  BY DEF Closes, S!NoRequirements, S!FinalizeOutcome, S!MarkObservationsComplete,
       S!MarkRatingsComplete,
         S!MarkFeedbackComposed, S!ExportStudentFeedback, S!In, S!Completed
<1>5. at'[s].student = at[s].student
  BY <1>1, <1>4 DEF S!Go, SessionInv, Screen
<1>6. /\ S!Rank["minimum_requirements_pending"] = 1 /\ S!Rank["observations_pending"] = 2
      /\ S!Rank["ratings_pending"] = 3 /\ S!Rank["feedback_pending"] = 4 /\ S!Rank["export_pending"] = 5
      /\ S!Rank["complete"] = 6
  BY DEF S!Rank
<1>7. /\ w.assembled /\ ~S!HalfReturned(S!OrNew(w.review))
      /\ at[s].menu = "minimum" => required
      /\ at[s].menu = "minimum" <=> Sorted(w, required) = "minimum_requirements_pending"
      /\ at[s].menu = "observations" <=> Sorted(w, required) = "observations_pending"
      /\ at[s].menu = "ratings" <=> Sorted(w, required) = "ratings_pending"
      /\ at[s].menu = "feedback" <=> Sorted(w, required) = "feedback_pending"
      /\ at[s].menu = "export" <=> Sorted(w, required) = "export_pending"
      /\ Sorted(w, required) # "minimum_requirements_pending" =>
           (required => S!OrNew(w.review).outcome # "not_checked")
  BY <1>1, <1>2, <1>3, Asked
<1>8. ASSUME NEW r \in Rev, S!Save(at[s].student, r)
      PROVE  v \in Work /\ v.review = r /\ v.assembled
  <2>1. v = S!Staled([w EXCEPT !.review = r])
    BY <1>1, <1>8, Saves
  <2>2. v \in Work /\ v.review = r /\ v.assembled = w.assembled
    BY <1>1, <2>1, Works
  <2> QED
    BY <1>7, <2>2
<1>9. ASSUME NEW state \in S!State \ {S!Returned}, NEW r \in Rev, r = w.review, r.state # S!Returned,
             S!Save(at[s].student, [r EXCEPT !.state = state]),
             Sorted(w, required) # "minimum_requirements_pending"
      PROVE  /\ v \in Work /\ v.assembled /\ v.review \in Rev /\ v.review.state = state
             /\ required => v.review.outcome # "not_checked"
             /\ v.review.outcome # S!Returned
  <2>1. [r EXCEPT !.state = state] \in Rev /\ [r EXCEPT !.state = state].state = state
        /\ [r EXCEPT !.state = state].outcome = r.outcome
    BY DEF Rev
  <2>2. S!OrNew(w.review) = r
    BY <1>9, Reviews DEF S!OrNew
  <2>3. r.outcome # S!Returned
    BY <1>7, <1>9, <2>2 DEF S!HalfReturned
  <2> QED
    BY <1>7, <1>8, <1>9, <2>1, <2>2, <2>3
<1>10. {"observations_complete", "ratings_complete", "feedback_composed"} \subseteq S!State \ {S!Returned}
  BY DEF S!State, S!Returned
<1>11. ~S!NoRequirements(s)
  BY <1>7 DEF S!NoRequirements, S!In
<1>12. ASSUME NEW outcome \in S!Outcome, S!FinalizeOutcome(s, outcome)
       PROVE  S!Rank[Sorted(v, required)] > S!Rank[Sorted(w, required)]
  <2>1. required /\ Sorted(w, required) = "minimum_requirements_pending" /\ outcome # "not_checked"
    BY <1>7, <1>12 DEF S!FinalizeOutcome, S!In, S!AvailableOutcomes, S!Returned
  <2> DEFINE r == [S!OrNew(w.review) EXCEPT !.outcome = outcome, !.state = S!Decided(outcome)]
  <2>2. r \in Rev /\ S!Save(at[s].student, r)
    BY <1>1, <1>12, Edits DEF S!FinalizeOutcome
  <2>3. r.outcome = outcome /\ r.state = S!Decided(outcome)
    BY <1>1 DEF Rev
  <2> HIDE DEF r
  <2>4. v \in Work /\ v.review = r /\ v.assembled
    BY <1>8, <2>2
  <2>5. Sorted(v, required) \in {"observations_pending", "export_pending", "complete"}
    BY <1>2, <2>1, <2>2, <2>3, <2>4, Decides
  <2>6. S!Rank[Sorted(w, required)] = 1
    BY <1>6, <2>1
  <2>7. S!Rank[Sorted(v, required)] \in {2, 5, 6}
    BY <1>6, <2>5
  <2> QED
    BY <2>6, <2>7
<1>13. ASSUME S!MarkObservationsComplete(s)
       PROVE  S!Rank[Sorted(v, required)] > S!Rank[Sorted(w, required)]
  <2>1. Sorted(w, required) = "observations_pending" /\ w.review # S!None /\ w.review.state # S!Returned
        /\ S!Save(at[s].student, [w.review EXCEPT !.state = "observations_complete"])
    BY <1>1, <1>7, <1>13 DEF S!MarkObservationsComplete, S!In, S!Reviewable
  <2>2. Sorted(v, required) = "ratings_pending"
    BY <1>1, <1>2, <1>9, <1>10, <2>1, Stages
  <2> QED
    BY <1>6, <2>1, <2>2
<1>14. ASSUME S!MarkRatingsComplete(s)
       PROVE  S!Rank[Sorted(v, required)] > S!Rank[Sorted(w, required)]
  <2>1. Sorted(w, required) = "ratings_pending" /\ w.review # S!None /\ w.review.state # S!Returned
        /\ S!Save(at[s].student, [w.review EXCEPT !.state = "ratings_complete"])
    BY <1>1, <1>7, <1>14 DEF S!MarkRatingsComplete, S!In, S!Reviewable
  <2>2. Sorted(v, required) = "feedback_pending"
    BY <1>1, <1>2, <1>9, <1>10, <2>1, Stages
  <2> QED
    BY <1>6, <2>1, <2>2
<1>15. ASSUME S!MarkFeedbackComposed(s)
       PROVE  S!Rank[Sorted(v, required)] > S!Rank[Sorted(w, required)]
  <2>1. Sorted(w, required) = "feedback_pending" /\ w.review # S!None /\ w.review.state # S!Returned
        /\ S!Save(at[s].student, [w.review EXCEPT !.state = "feedback_composed"])
    BY <1>1, <1>7, <1>15 DEF S!MarkFeedbackComposed, S!In, S!Reviewable
  <2>2. Sorted(v, required) \in {"export_pending", "complete"}
    BY <1>1, <1>2, <1>9, <1>10, <2>1, Stages
  <2> QED
    BY <1>6, <2>1, <2>2
<1>16. ASSUME NEW formats \in S!Formats, S!ExportStudentFeedback(s, formats)
       PROVE  S!Rank[Sorted(v, required)] > S!Rank[Sorted(w, required)]
  <2>1. Sorted(w, required) = "export_pending" /\ w.review # S!None
        /\ work' = [work EXCEPT ![at[s].student] = S!Exported(w, formats)]
    BY <1>1, <1>7, <1>16 DEF S!ExportStudentFeedback, S!In
  <2>2. v = S!Exported(w, formats)
    BY <1>1, <2>1 DEF SessionInv
  <2>3. /\ v \in Work /\ v.review \in Rev /\ v.assembled /\ v.review.outcome = w.review.outcome
        /\ v.review.state = IF w.review.state = S!Returned THEN S!Returned ELSE "exported"
        /\ \E f \in S!Format : v.export[f] = "present"
    BY <1>1, <1>7, <2>1, <2>2, ExportedWorks
  <2>4. S!ExportCategory(v) = "complete"
    BY <2>3 DEF S!ExportCategory
  <2>5. S!OrNew(w.review) = w.review /\ S!OrNew(v.review) = v.review
    BY <2>1, <2>3, Reviews DEF S!OrNew
  <2>6. Sorted(v, required) = "complete"
    <3>1. CASE w.review.state = S!Returned
      <4>1. w.review.outcome = S!Returned /\ ~S!HalfReturned(v.review) /\ S!IsReturned(v.review)
            /\ S!IsReturned(w.review)
        BY <1>7, <2>3, <2>5, <3>1 DEF S!HalfReturned, S!IsReturned
      <4>2. required
        BY <1>7, <2>1, <2>5, <4>1 DEF Sorted
      <4>3. v.review.outcome # "not_checked"
        BY <2>3, <4>1 DEF S!Returned
      <4> QED
        BY <2>3, <2>4, <2>5, <4>1, <4>2, <4>3 DEF Sorted
    <3>2. CASE w.review.state # S!Returned
      <4>1. v.review.outcome # S!Returned /\ v.review.state = "exported"
        BY <1>7, <2>3, <2>5, <3>2 DEF S!HalfReturned
      <4>2. required => v.review.outcome # "not_checked"
        BY <1>7, <2>1, <2>3, <2>5
      <4> QED
        BY <1>2, <2>3, <2>4, <4>1, <4>2, Stages
    <3> QED
      BY <3>1, <3>2
  <2> QED
    BY <1>6, <2>1, <2>6
<1> QED
  BY <1>4, <1>5, <1>11, <1>12, <1>13, <1>14, <1>15, <1>16 DEF Closes

LEMMA SessionAdvances == ASSUME SessionInv, [S!Next]_(S!vars) PROVE S!StageAdvances
<1> SUFFICES ASSUME NEW s \in Session, at[s].guided, at[s].menu \in S!Stage, at'[s].menu = "redraw",
                    extras' = extras, S!Category(work[at[s].student]) = at[s].shown
             PROVE  S!Rank[S!Category(work[at[s].student])'] > S!Rank[S!Category(work[at[s].student])]
  BY DEF S!StageAdvances
<1>1. Closes(s)
  BY OnlyCloses
<1>2. S!Category(work[at[s].student]) = Sorted(work[at[s].student], policy.required)
  BY DEF S!Category, Sorted, S!OrNew
<1>3. /\ UNCHANGED policy /\ at'[s].student = at[s].student
      /\ S!Rank[Sorted(work'[at[s].student], policy.required)]
           > S!Rank[Sorted(work[at[s].student], policy.required)]
  BY <1>1, <1>2, StageAdvance
<1>4. S!Category(work[at[s].student])' = Sorted(work'[at'[s].student], policy'.required)
  BY DEF S!Category, Sorted, S!OrNew
<1> QED
  BY <1>2, <1>3, <1>4

-----------------------------------------------------------------------------
(***************************************************************************)
(* An assignment saved for its classes.                                    *)
(***************************************************************************)
LEMMA BatchAssumption == MaxVersion \in Nat /\ Class \in Seq(B!Classes)
BY MCWorkspaceAssumption

Zero == {0} \cup B!Version
BatchJob == [version : Zero, basis : {0, 1, 2}, copy : BOOLEAN, seen : SUBSET B!Classes,
        original : [B!Classes -> Zero], status : [B!Classes -> B!Status],
        named : SUBSET B!Classes, moved : Zero]
BatchTold == [answer : {"none", "ok", "failed"}, named : SUBSET B!Classes]

\* A class's content f, what is aside a, and what was updated o: where v is.
At(f, a, o, v) == f = v \/ v \in a \/ \E w \in B!Version : <<v, w>> \in o

\* No trace of v: neither is it anywhere, nor did it replace anything.
Gone(f, a, o, v) == ~At(f, a, o, v) /\ \A u \in B!Version : <<u, v>> \notin o

\* A content is in one place, and was replaced by one other at most.
OnePlace(f, a, o) ==
  /\ f \notin a
  /\ \A w \in B!Version : <<f, w>> \notin o
  /\ \A v \in a, w \in B!Version : <<v, w>> \notin o
  /\ \A v, w, x \in B!Version : <<v, w>> \in o /\ <<v, x>> \in o => w = x

BatchTyped ==
  /\ file \in [B!Classes -> Zero] /\ aside \in [B!Classes -> SUBSET B!Version]
  /\ over \in [B!Classes -> SUBSET (B!Version \X B!Version)]
  /\ basis \in {1, 2} /\ batches \in 0 .. MaxVersion
  /\ pc \in [Teacher -> B!Steps] /\ job \in [Teacher -> BatchJob] /\ told \in [B!Version -> BatchTold]

\* What a batch has left of class c.
Entry(t, c) ==
  LET v == job[t].version
      u == job[t].original[c]
  IN /\ job[t].status[c] = "pending" /\ c \notin job[t].named =>
          Gone(file[c], aside[c], over[c], v)
     /\ job[t].status[c] = "updated" =>
          /\ u \in B!Version /\ <<u, v>> \in over[c]
          /\ \A x \in B!Version : <<x, v>> \in over[c] => x = u
     /\ job[t].status[c] = "created" => \A x \in B!Version : <<x, v>> \notin over[c]
     /\ job[t].status[c] # "pending" /\ pc[t] = "write" => At(file[c], aside[c], over[c], v)

\* The entry of a batch in the middle of a removal.
Moved(t) ==
  \E i \in DOMAIN Class :
    /\ B!Last(t, i) /\ job[t].status[Class[i]] = "created"
    /\ job[t].moved \in aside[Class[i]]

Active(t) == pc[t] # "idle"

Own(t) ==
  Active(t) =>
    /\ job[t].version \in 1 .. batches /\ told[job[t].version].answer = "none"
    /\ pc[t] \in {"planned", "preflight", "write"} => job[t].named = {}
    /\ pc[t] \in {"planned", "preflight"} => \A c \in B!Classes : job[t].status[c] = "pending"
    /\ \A c \in B!Classes : Entry(t, c)
    /\ pc[t] = "displaced" => Moved(t)

\* What is told of a batch, or not told yet.
Answered(v) ==
  \A c \in B!Classes :
    /\ v > batches \/ (told[v].answer = "failed" /\ c \notin told[v].named) =>
         Gone(file[c], aside[c], over[c], v)
    /\ told[v].answer = "ok" => At(file[c], aside[c], over[c], v)

Apart ==
  \A s, t \in Teacher : s # t /\ Active(s) /\ Active(t) =>
    /\ job[s].version # job[t].version
    /\ pc[s] = "displaced" /\ pc[t] = "displaced" =>
         \A i, j \in DOMAIN Class :
           B!Last(s, i) /\ B!Last(t, j) /\ Class[i] = Class[j] => job[s].moved # job[t].moved

BatchInv ==
  /\ BatchTyped
  /\ \A c \in B!Classes : OnePlace(file[c], aside[c], over[c])
  /\ \A v \in B!Version : Answered(v)
  /\ \A v \in B!Version : v > batches => told[v].answer = "none"
  /\ \A t \in Teacher : Own(t)
  /\ Apart

-----------------------------------------------------------------------------
(* What each step does to one class.                                       *)

\* All other batches' contents stay where they are or move, and leave no new trace.
Shift(f, a, o, g, b, p, v) ==
  /\ OnePlace(g, b, p)
  /\ \A x \in B!Version \ {v} :
       /\ At(f, a, o, x) => At(g, b, p, x)
       /\ Gone(f, a, o, x) => Gone(g, b, p, x)
       /\ \A u \in B!Version : <<u, x>> \in p <=> <<u, x>> \in o

\* The updates after v replaced f.
Covered(f, o, v) == IF f = 0 THEN o ELSE o \cup {<<f, v>>}

LEMMA WriteShifts ==
  ASSUME NEW f \in Zero, NEW a \in SUBSET B!Version, NEW o \in SUBSET (B!Version \X B!Version),
         NEW v \in B!Version, OnePlace(f, a, o), Gone(f, a, o, v)
  PROVE  /\ Shift(f, a, o, v, a, Covered(f, o, v), v) /\ At(v, a, Covered(f, o, v), v)
         /\ f = 0 => \A x \in B!Version : <<x, v>> \notin Covered(f, o, v)
         /\ f # 0 => /\ f \in B!Version /\ <<f, v>> \in Covered(f, o, v)
                     /\ \A x \in B!Version : <<x, v>> \in Covered(f, o, v) => x = f
<1> DEFINE p == Covered(f, o, v)
<1>0. p = IF f = 0 THEN o ELSE o \cup {<<f, v>>}
  BY DEF Covered
<1> HIDE DEF p
<1>1. f # v /\ v \notin a /\ \A u \in B!Version : <<u, v>> \notin o /\ <<v, u>> \notin o
  BY DEF Gone, At
<1>2. f # 0 => f \in B!Version
  BY DEF Zero
<1>3. OnePlace(v, a, p)
  BY <1>0, <1>1, <1>2 DEF OnePlace
<1>4. ASSUME NEW x \in B!Version \ {v}
      PROVE  /\ At(f, a, o, x) => At(v, a, p, x)
             /\ Gone(f, a, o, x) => Gone(v, a, p, x)
             /\ \A u \in B!Version : <<u, x>> \in p <=> <<u, x>> \in o
  <2>1. \A u \in B!Version : <<u, x>> \in p <=> <<u, x>> \in o
    BY <1>0
  <2>2. \A w \in B!Version : <<x, w>> \in p <=> <<x, w>> \in o \/ (f # 0 /\ x = f /\ w = v)
    BY <1>0
  <2>3. x # 0
    BY BatchAssumption DEF B!Version
  <2> QED
    BY <2>1, <2>2, <2>3 DEF At, Gone
<1> QED
  <2>1. Shift(f, a, o, v, a, p, v)
    BY <1>3, <1>4 DEF Shift
  <2>2. At(v, a, p, v)
    BY DEF At
  <2>3. f = 0 => \A x \in B!Version : <<x, v>> \notin p
    BY <1>0, <1>1
  <2>4. f # 0 => <<f, v>> \in p /\ \A x \in B!Version : <<x, v>> \in p => x = f
    BY <1>0, <1>1
  <2> QED
    BY <1>2, <2>1, <2>2, <2>3, <2>4 DEF p

LEMMA RestoreShifts ==
  ASSUME NEW a \in SUBSET B!Version, NEW o \in SUBSET (B!Version \X B!Version),
         NEW v \in B!Version, OnePlace(v, a, o), NEW u \in B!Version,
         <<u, v>> \in o, \A x \in B!Version : <<x, v>> \in o => x = u
  PROVE  LET p == o \ {<<u, v>>} IN Shift(v, a, o, u, a, p, v) /\ Gone(u, a, p, v)
<1> DEFINE p == o \ {<<u, v>>}
<1>1. u # v /\ u \notin a /\ v \notin a /\ \A w \in B!Version : <<v, w>> \notin o
  BY DEF OnePlace
<1>2. \A w \in B!Version : <<u, w>> \in o => w = v
  BY DEF OnePlace
<1>3. \A x, w \in B!Version : <<x, w>> \in p <=> <<x, w>> \in o /\ ~(x = u /\ w = v)
  OBVIOUS
<1> HIDE DEF p
<1>4. OnePlace(u, a, p)
  BY <1>1, <1>2, <1>3 DEF OnePlace
<1>5. Gone(u, a, p, v)
  BY <1>1, <1>3 DEF Gone, At
<1>6. ASSUME NEW x \in B!Version \ {v}
      PROVE  /\ At(v, a, o, x) => At(u, a, p, x)
             /\ Gone(v, a, o, x) => Gone(u, a, p, x)
             /\ \A w \in B!Version : <<w, x>> \in p <=> <<w, x>> \in o
  BY <1>1, <1>2, <1>3 DEF At, Gone
<1> QED
  BY <1>4, <1>5, <1>6 DEF Shift, p

LEMMA DisplaceShifts ==
  ASSUME NEW f \in B!Version, NEW a \in SUBSET B!Version, NEW o \in SUBSET (B!Version \X B!Version),
         OnePlace(f, a, o), NEW v \in B!Version
  PROVE  LET b == a \cup {f} IN
           /\ Shift(f, a, o, 0, b, o, v)
           /\ At(f, a, o, v) => At(0, b, o, v)
           /\ Gone(f, a, o, v) => Gone(0, b, o, v)
<1>1. 0 \notin B!Version
  BY BatchAssumption DEF B!Version
<1> QED
  BY <1>1 DEF Shift, OnePlace, At, Gone

LEMMA DisposeShifts ==
  ASSUME NEW f \in Zero, NEW a \in SUBSET B!Version, NEW o \in SUBSET (B!Version \X B!Version),
         OnePlace(f, a, o), NEW v \in a, \A x \in B!Version : <<x, v>> \notin o
  PROVE  LET b == a \ {v} IN Shift(f, a, o, f, b, o, v) /\ Gone(f, b, o, v)
BY DEF Shift, OnePlace, At, Gone

LEMMA PutBackShifts ==
  ASSUME NEW a \in SUBSET B!Version, NEW o \in SUBSET (B!Version \X B!Version),
         OnePlace(0, a, o), NEW m \in a, NEW v \in B!Version
  PROVE  LET b == a \ {m} IN
           /\ Shift(0, a, o, m, b, o, v)
           /\ At(0, a, o, v) => At(m, b, o, v)
           /\ Gone(0, a, o, v) => Gone(m, b, o, v)
<1>1. 0 \notin B!Version
  BY BatchAssumption DEF B!Version
<1> QED
  BY <1>1 DEF Shift, OnePlace, At, Gone

-----------------------------------------------------------------------------
(* What is left alone by a step                                            *)

\* A step of t that moves contents of class c only, if any.
DiskStep(t, c) ==
  /\ \A d \in B!Classes \ {c} : file'[d] = file[d] /\ aside'[d] = aside[d] /\ over'[d] = over[d]
  /\ c \in B!Classes =>
       Shift(file[c], aside[c], over[c], file'[c], aside'[c], over'[c], job[t].version)
  /\ UNCHANGED <<basis, batches, told>>
  /\ \A s \in Teacher \ {t} : pc'[s] = pc[s] /\ job'[s] = job[s]

\* What others have on disk, or have been told, stays true.
LEMMA OtherBatchesKeep ==
  ASSUME BatchInv, NEW t \in Teacher, NEW c, Active(t), DiskStep(t, c)
  PROVE  /\ \A d \in B!Classes : OnePlace(file'[d], aside'[d], over'[d])
         /\ \A v \in B!Version : Answered(v)'
         /\ \A v \in B!Version : v > batches' => told'[v].answer = "none"
         /\ \A s \in Teacher \ {t}, d \in B!Classes : Active(s) => Entry(s, d)'
<1>0. /\ job[t].version \in 1 .. batches /\ told[job[t].version].answer = "none"
      /\ job[t].version \in B!Version /\ batches' = batches /\ told' = told /\ batches \in Nat
  BY BatchAssumption DEF BatchInv, Own, BatchTyped, B!Version, DiskStep
<1>1. \A d \in B!Classes : OnePlace(file'[d], aside'[d], over'[d])
  BY DEF BatchInv, DiskStep, Shift
<1>2. ASSUME NEW x \in B!Version \ {job[t].version}, NEW d \in B!Classes
      PROVE  /\ At(file[d], aside[d], over[d], x) => At(file'[d], aside'[d], over'[d], x)
             /\ Gone(file[d], aside[d], over[d], x) => Gone(file'[d], aside'[d], over'[d], x)
             /\ \A u \in B!Version : <<u, x>> \in over'[d] <=> <<u, x>> \in over[d]
  <2>1. CASE d = c
    BY <2>1 DEF DiskStep, Shift
  <2>2. CASE d # c
    BY <2>2 DEF DiskStep
  <2> QED
    BY <2>1, <2>2
<1>3. ASSUME NEW v \in B!Version PROVE Answered(v)'
  <2>1. CASE v = job[t].version
    <3>1. ~(v > batches) /\ told[v].answer = "none"
      BY <2>1, <1>0
    <3> QED
      BY <3>1, <1>0 DEF Answered
  <2>2. CASE v # job[t].version
    <3>1. Answered(v)
      BY DEF BatchInv
    <3> QED
      BY <2>2, <3>1, <1>0, <1>2 DEF Answered
  <2> QED
    BY <2>1, <2>2
<1>4. ASSUME NEW s \in Teacher \ {t}, NEW d \in B!Classes, Active(s) PROVE Entry(s, d)'
  <2>1. /\ job[s].version \in B!Version \ {job[t].version} /\ Entry(s, d)
        /\ job[s].original[d] \in Zero
    BY <1>4, BatchAssumption DEF BatchInv, Own, Apart, BatchTyped, B!Version, BatchJob
  <2>2. job'[s] = job[s] /\ pc'[s] = pc[s]
    BY DEF DiskStep
  <2> DEFINE v == job[s].version
  <2>3. /\ At(file[d], aside[d], over[d], v) => At(file'[d], aside'[d], over'[d], v)
        /\ Gone(file[d], aside[d], over[d], v) => Gone(file'[d], aside'[d], over'[d], v)
        /\ \A u \in B!Version : <<u, v>> \in over'[d] <=> <<u, v>> \in over[d]
    BY <2>1, <1>2
  <2> QED
    BY <2>1, <2>2, <2>3 DEF Entry
<1>5. \A v \in B!Version : v > batches' => told'[v].answer = "none"
  BY <1>0 DEF BatchInv
<1> QED
  BY <1>1, <1>3, <1>4, <1>5

\* The invariant after a step of t, once its own part is known.
LEMMA BatchStepOf ==
  ASSUME BatchInv, NEW t \in Teacher, NEW c, Active(t), DiskStep(t, c), BatchTyped', Own(t)',
         job'[t].version = job[t].version, Active(t)',
         \A s \in Teacher \ {t} : pc[s] = "displaced" => Moved(s)',
         pc'[t] = "displaced" =>
           \A s \in Teacher \ {t} : pc[s] = "displaced" =>
             \A i, j \in DOMAIN Class :
               B!Last(s, i)' /\ B!Last(t, j)' /\ Class[i] = Class[j] => job'[s].moved # job'[t].moved
  PROVE  BatchInv'
<1>1. \A s \in Teacher \ {t} : pc'[s] = pc[s] /\ job'[s] = job[s]
  BY DEF DiskStep
<1>2. batches' = batches /\ told' = told
  BY DEF DiskStep
<1>3. ASSUME NEW s \in Teacher PROVE Own(s)'
  <2>1. CASE s = t
    BY <2>1
  <2>2. CASE s # t
    <3>1. Own(s) /\ (pc[s] = "displaced" => Moved(s)')
      BY <2>2 DEF BatchInv
    <3> QED
      BY <2>2, <3>1, <1>1, <1>2, OtherBatchesKeep DEF Own, Active
  <2> QED
    BY <2>1, <2>2
<1>4. Apart'
  <2> SUFFICES ASSUME NEW s \in Teacher, NEW r \in Teacher, s # r, Active(s)', Active(r)'
               PROVE  /\ job'[s].version # job'[r].version
                      /\ pc'[s] = "displaced" /\ pc'[r] = "displaced" =>
                           \A i, j \in DOMAIN Class :
                             B!Last(s, i)' /\ B!Last(r, j)' /\ Class[i] = Class[j] =>
                               job'[s].moved # job'[r].moved
    BY DEF Apart
  <2>1. CASE s # t /\ r # t
    BY <2>1, <1>1 DEF BatchInv, Apart, Active, B!Last, B!Written
  <2>2. CASE s = t
    BY <2>2, <1>1 DEF BatchInv, Apart, Active
  <2>3. CASE r = t
    BY <2>3, <1>1 DEF BatchInv, Apart, Active
  <2> QED
    BY <2>1, <2>2, <2>3
<1> QED
  BY <1>3, <1>4, OtherBatchesKeep DEF BatchInv

\* A step of t that touches no file.
LEMMA QuietStep ==
  ASSUME BatchInv, NEW t \in Teacher, Active(t),
         UNCHANGED <<file, aside, over, basis, batches, told>>,
         \A s \in Teacher \ {t} : pc'[s] = pc[s] /\ job'[s] = job[s],
         BatchTyped', Own(t)', job'[t].version = job[t].version, pc'[t] \notin {"idle", "displaced"}
  PROVE  BatchInv'
<1>1. DiskStep(t, t)
  BY DEF DiskStep, Shift, BatchInv
<1>2. \A s \in Teacher \ {t} : pc[s] = "displaced" => Moved(s)'
  BY DEF BatchInv, Own, Active, Moved, B!Last, B!Written
<1> QED
  BY <1>1, <1>2, BatchStepOf DEF Active

\* The call returns or dies.
LEMMA LastStep ==
  ASSUME BatchInv, NEW t \in Teacher, Active(t),
         UNCHANGED <<file, aside, over, basis, batches>>,
         pc' = [pc EXCEPT ![t] = "idle"], job' = [job EXCEPT ![t] = B!NoJob],
         told' \in [B!Version -> BatchTold],
         NEW x, x = job[t].version, Answered(x)', \A v \in B!Version \ {x} : told'[v] = told[v]
  PROVE  BatchInv'
<1>0. B!NoJob \in BatchJob /\ "idle" \in B!Steps /\ job[t].version \in 1 .. batches /\ batches \in Nat
      /\ job[t].version \in B!Version
  BY BatchAssumption DEF B!NoJob, BatchJob, Zero, B!Status, B!Steps, BatchInv, Own, BatchTyped,
       B!Version
<1>1. BatchTyped'
  BY <1>0 DEF BatchTyped, BatchInv
<1>2. \A s \in Teacher : Active(s)' => s # t /\ Active(s) /\ pc'[s] = pc[s] /\ job'[s] = job[s]
  BY DEF Active, BatchInv, BatchTyped
<1>3. ASSUME NEW v \in B!Version PROVE Answered(v)'
  <2>1. CASE v = job[t].version
    BY <2>1
  <2>2. CASE v # job[t].version
    BY <2>2 DEF Answered, BatchInv
  <2> QED
    BY <2>1, <2>2
<1>4. \A v \in B!Version : v > batches' => told'[v].answer = "none"
  BY <1>0 DEF BatchInv
<1>5. ASSUME NEW s \in Teacher PROVE Own(s)'
  <2> SUFFICES ASSUME Active(s)' PROVE Own(s)'
    BY DEF Own
  <2>1. Own(s) /\ Active(s) /\ pc'[s] = pc[s] /\ job'[s] = job[s] /\ s # t
    BY <1>2 DEF BatchInv
  <2>2. job[s].version # job[t].version /\ job[s].version \in B!Version
    BY <2>1, <1>0, BatchAssumption DEF BatchInv, Apart, Own, BatchTyped, B!Version
  <2>3. told'[job'[s].version] = told[job[s].version]
    BY <2>1, <2>2
  <2> QED
    BY <2>1, <2>3 DEF Own, Active, Entry, Moved, B!Last, B!Written
<1>6. Apart'
  BY <1>2 DEF Apart, BatchInv, Active, B!Last, B!Written
<1> QED
  BY <1>1, <1>3, <1>4, <1>5, <1>6 DEF BatchInv

-----------------------------------------------------------------------------
(* Before the first write *)

LEMMA BatchStart == ASSUME B!Init PROVE BatchInv
<1>0. 0 \in Zero /\ 0 \notin B!Version /\ 0 \in 0 .. MaxVersion
  BY BatchAssumption DEF Zero, B!Version
<1>1. B!NoJob \in BatchJob /\ B!NotTold \in BatchTold /\ "idle" \in B!Steps /\ B!NotTold.answer = "none"
  BY <1>0 DEF B!NoJob, B!NotTold, BatchJob, BatchTold, B!Status, B!Steps
<1>2. BatchTyped
  BY <1>0, <1>1 DEF B!Init, BatchTyped
<1>3. \A c \in B!Classes : OnePlace(file[c], aside[c], over[c])
                         /\ \A v \in B!Version : Gone(file[c], aside[c], over[c], v)
  BY <1>0 DEF B!Init, OnePlace, Gone, At
<1> QED
  BY <1>1, <1>2, <1>3 DEF B!Init, BatchInv, Own, Active, Answered, Apart

LEMMA PlanKeeps ==
  ASSUME BatchInv, NEW t \in Teacher, B!PlanDestinations(t) \/ B!PlanCopy(t)
  PROVE  BatchInv'
<1>1. PICK new \in BatchJob :
        /\ job' = [job EXCEPT ![t] = new] /\ new.version = batches + 1 /\ new.named = {}
        /\ \A c \in B!Classes : new.status[c] = "pending"
  <2>0. B!NoJob \in BatchJob /\ batches + 1 \in B!Version /\ {c \in B!Classes : file[c] # 0} \in SUBSET B!Classes
    BY BatchAssumption DEF B!NoJob, BatchJob, Zero, B!Status, B!Version, B!PlanDestinations,
         B!PlanCopy, BatchInv, BatchTyped
  <2>1. CASE B!PlanDestinations(t)
    <3> DEFINE new == [B!NoJob EXCEPT !.version = batches + 1, !.basis = basis,
                                    !.seen = {c \in B!Classes : file[c] # 0}]
    <3>1. new \in BatchJob /\ new.version = batches + 1 /\ new.named = {}
          /\ \A c \in B!Classes : new.status[c] = "pending"
      BY <2>0 DEF B!NoJob, BatchJob, Zero, BatchInv, BatchTyped
    <3> QED
      BY <2>1, <3>1 DEF B!PlanDestinations
  <2>2. CASE B!PlanCopy(t)
    <3> DEFINE new == [B!NoJob EXCEPT !.version = batches + 1, !.basis = basis, !.copy = TRUE]
    <3>1. new \in BatchJob /\ new.version = batches + 1 /\ new.named = {}
          /\ \A c \in B!Classes : new.status[c] = "pending"
      BY <2>0 DEF B!NoJob, BatchJob, Zero, BatchInv, BatchTyped
    <3> QED
      BY <2>2, <3>1 DEF B!PlanCopy
  <2> QED
    BY <2>1, <2>2
<1>2. /\ pc[t] = "idle" /\ pc' = [pc EXCEPT ![t] = "planned"] /\ batches' = batches + 1
      /\ batches < MaxVersion /\ UNCHANGED <<file, aside, basis, over, told>>
  BY DEF B!PlanDestinations, B!PlanCopy, B!Go
<1>3. batches + 1 \in B!Version /\ batches + 1 > batches /\ batches \in Nat
      /\ batches' \in 0 .. MaxVersion
  BY <1>2, BatchAssumption DEF B!Version, BatchInv, BatchTyped
<1>4. BatchTyped'
  BY <1>1, <1>2, <1>3 DEF BatchInv, BatchTyped, B!Steps
<1>5. \A v \in B!Version : /\ Answered(v)' /\ (v > batches' => told'[v].answer = "none")
  BY <1>2, <1>3, BatchAssumption DEF BatchInv, Answered, B!Version
<1>6. \A s \in Teacher \ {t} : pc'[s] = pc[s] /\ job'[s] = job[s]
  BY <1>1, <1>2 DEF BatchInv, BatchTyped
<1>7. Own(t)'
  <2>1. pc'[t] = "planned" /\ job'[t].version = batches + 1 /\ job'[t].named = {}
        /\ \A c \in B!Classes : job'[t].status[c] = "pending"
    BY <1>1, <1>2 DEF BatchInv, BatchTyped
  <2>2. /\ \A c \in B!Classes : Gone(file[c], aside[c], over[c], batches + 1)
        /\ told[batches + 1].answer = "none"
    BY <1>3 DEF BatchInv, Answered
  <2>3. \A c \in B!Classes : Entry(t, c)'
    BY <1>2, <2>1, <2>2 DEF Entry
  <2>4. batches + 1 \in 1 .. batches'
    BY <1>2, <1>3
  <2>5. job'[t].version \in 1 .. batches' /\ told'[job'[t].version].answer = "none"
    BY <1>2, <2>1, <2>2, <2>4
  <2> QED
    BY <2>1, <2>3, <2>5 DEF Own
<1>8. ASSUME NEW s \in Teacher \ {t} PROVE Own(s)'
  <2> SUFFICES ASSUME Active(s) PROVE Own(s)'
    BY <1>6 DEF Own, Active
  <2>1. Own(s) /\ pc'[s] = pc[s] /\ job'[s] = job[s]
    BY <1>6 DEF BatchInv
  <2>2. job[s].version \in 1 .. batches'
    <3>1. job[s].version \in 1 .. batches
      BY <2>1 DEF Own
    <3> QED
      BY <3>1, <1>2, <1>3
  <2>3. \A d \in B!Classes : Entry(s, d)'
    BY <1>2, <2>1 DEF Own, Entry
  <2> QED
    BY <1>2, <2>1, <2>2, <2>3 DEF Own, Active, Moved, B!Last, B!Written
<1>9. Apart'
  <2>1. \A s \in Teacher \ {t} : Active(s) => job[s].version # batches + 1
    BY <1>3 DEF BatchInv, Own
  <2>2. pc'[t] = "planned" /\ job'[t].version = batches + 1
    BY <1>1, <1>2 DEF BatchInv, BatchTyped
  <2>3. \A s, r \in Teacher \ {t} : s # r /\ Active(s)' /\ Active(r)' =>
          /\ job'[s].version # job'[r].version
          /\ pc'[s] = "displaced" /\ pc'[r] = "displaced" =>
               \A i, j \in DOMAIN Class :
                 B!Last(s, i)' /\ B!Last(r, j)' /\ Class[i] = Class[j] => job'[s].moved # job'[r].moved
    BY <1>6 DEF BatchInv, Apart, Active, B!Last, B!Written
  <2>4. \A s \in Teacher \ {t} : Active(s)' => job'[s].version # job'[t].version
    BY <1>6, <2>1, <2>2 DEF Active
  <2> QED
    BY <2>2, <2>3, <2>4 DEF Apart
<1> QED
  BY <1>2, <1>4, <1>5, <1>7, <1>8, <1>9 DEF BatchInv

LEMMA PreparationKeeps ==
  ASSUME BatchInv, NEW t \in Teacher, B!Confirm(t) \/ B!Preflight(t) \/ B!WriteFails(t)
  PROVE  BatchInv'
<1>1. CASE B!Confirm(t)
  <2>1. BatchTyped' /\ pc'[t] = "preflight" /\ pc[t] = "planned"
    BY <1>1 DEF B!Confirm, B!Go, BatchInv, BatchTyped, B!Steps
  <2>2. Own(t)'
    BY <1>1, <2>1 DEF B!Confirm, BatchInv, Own, Active, Entry
  <2> QED
    BY <1>1, <2>1, <2>2, QuietStep DEF B!Confirm, B!Go, Active, BatchInv, BatchTyped
<1>2. CASE B!Preflight(t)
  <2>1. job[t] \in BatchJob /\ file \in [B!Classes -> Zero] /\ pc[t] = "preflight" /\ pc'[t] = "write"
        /\ \A s \in Teacher \ {t} : pc'[s] = pc[s] /\ job'[s] = job[s]
    BY <1>2 DEF B!Preflight, B!Go, BatchInv, BatchTyped
  <2>2. /\ job'[t] \in BatchJob /\ job'[t].version = job[t].version
        /\ job'[t].status = job[t].status /\ job'[t].named = job[t].named
        /\ job'[t].original = file
    BY <1>2, <2>1 DEF B!Preflight, BatchInv, BatchTyped, BatchJob
  <2>3. BatchTyped'
    BY <1>2, <2>1, <2>2 DEF B!Preflight, B!Go, BatchInv, BatchTyped, B!Steps
  <2>4. Own(t)'
    <3>1. Own(t) /\ Active(t) /\ \A d \in B!Classes : job[t].status[d] = "pending"
      BY <2>1 DEF BatchInv, Own, Active
    <3>2. UNCHANGED <<file, aside, over, batches, told>>
      BY <1>2 DEF B!Preflight
    <3>3. \A d \in B!Classes : Entry(t, d)'
      BY <2>2, <3>1, <3>2 DEF Own, Entry
    <3> QED
      BY <2>1, <2>2, <3>1, <3>2, <3>3 DEF Own
  <2> QED
    BY <1>2, <2>1, <2>2, <2>3, <2>4, QuietStep DEF B!Preflight, Active
<1>3. CASE B!WriteFails(t)
  <2>1. BatchTyped' /\ pc'[t] = "compensate" /\ pc[t] = "write"
    BY <1>3 DEF B!WriteFails, B!Go, BatchInv, BatchTyped, B!Steps
  <2>2. Own(t)'
    BY <1>3, <2>1 DEF B!WriteFails, BatchInv, Own, Active, Entry
  <2> QED
    BY <1>3, <2>1, <2>2, QuietStep DEF B!WriteFails, B!Go, Active, BatchInv, BatchTyped
<1> QED
  BY <1>1, <1>2, <1>3

(* The ends *)

LEMMA BatchEndKeeps ==
  ASSUME BatchInv, NEW t \in Teacher, B!Refuse(t) \/ B!Saved(t) \/ B!Failed(t) \/ B!Die(t)
  PROVE  BatchInv'
<1>0. SUFFICES ASSUME NEW x, x = job[t].version PROVE BatchInv'
  OBVIOUS
<1>1. /\ Active(t) /\ UNCHANGED <<file, aside, over, basis, batches>>
      /\ pc' = [pc EXCEPT ![t] = "idle"] /\ job' = [job EXCEPT ![t] = B!NoJob]
  BY DEF B!Refuse, B!Saved, B!Failed, B!Die, B!Answer, B!Go, Active
<1>2. x \in B!Version /\ x \in 1 .. batches /\ job[t] \in BatchJob /\ told[x].answer = "none" /\ batches \in Nat
  BY <1>0, <1>1, BatchAssumption DEF BatchInv, Own, BatchTyped, B!Version
<1>4. CASE B!Die(t)
  <2>1. Answered(x)'
    BY <1>2, <1>4 DEF B!Die, BatchInv, Answered
  <2> QED
    BY <1>0, <1>1, <1>4, <2>1, LastStep DEF B!Die, BatchInv, BatchTyped
<1>5. ASSUME NEW ans \in {"ok", "failed"}, NEW named \in SUBSET B!Classes,
             told' = [told EXCEPT ![x] = [answer |-> ans, named |-> named]],
             \A c \in B!Classes :
               /\ ans = "ok" => At(file[c], aside[c], over[c], x)
               /\ ans = "failed" /\ c \notin named => Gone(file[c], aside[c], over[c], x)
      PROVE  BatchInv'
  <2>1. told' \in [B!Version -> BatchTold] /\ (\A v \in B!Version \ {x} : told'[v] = told[v])
        /\ told'[x] = [answer |-> ans, named |-> named]
    BY <1>2, <1>5 DEF BatchInv, BatchTyped, BatchTold
  <2>2. Answered(x)'
    BY <1>1, <1>2, <1>5, <2>1 DEF Answered
  <2> QED
    BY <1>0, <1>1, <2>1, <2>2, LastStep
<1>6. CASE B!Refuse(t)
  <2>1. told' = [told EXCEPT ![x] = [answer |-> "failed", named |-> {}]]
    BY <1>0, <1>6 DEF B!Refuse, B!Answer
  <2>2. \A c \in B!Classes : Gone(file[c], aside[c], over[c], x)
    BY <1>0, <1>1, <1>6 DEF B!Refuse, BatchInv, Own, Entry
  <2>3. {} \in SUBSET B!Classes
    OBVIOUS
  <2> QED
    BY <2>1, <2>2, <2>3, <1>5
<1>7. CASE B!Saved(t)
  <2>1. told' = [told EXCEPT ![x] = [answer |-> "ok", named |-> {}]]
    BY <1>0, <1>7 DEF B!Saved, B!Answer
  <2>2. \A c \in B!Classes : job[t].status[c] # "pending"
    BY <1>7 DEF B!Saved, B!Pending, B!Classes
  <2>3. \A c \in B!Classes : At(file[c], aside[c], over[c], x)
    BY <1>0, <1>1, <1>7, <2>2 DEF B!Saved, BatchInv, Own, Entry
  <2>4. {} \in SUBSET B!Classes
    OBVIOUS
  <2> QED
    BY <2>1, <2>3, <2>4, <1>5
<1>8. CASE B!Failed(t)
  <2>1. told' = [told EXCEPT ![x] = [answer |-> "failed", named |-> job[t].named]]
    BY <1>0, <1>8 DEF B!Failed, B!Answer
  <2>2. \A c \in B!Classes : job[t].status[c] = "pending"
    BY <1>8 DEF B!Failed, B!Written, B!Classes
  <2>3. \A c \in B!Classes : c \notin job[t].named => Gone(file[c], aside[c], over[c], x)
    BY <1>0, <1>1, <2>2 DEF BatchInv, Own, Entry
  <2>4. job[t].named \in SUBSET B!Classes
    BY <1>2 DEF BatchJob
  <2> QED
    BY <2>1, <2>3, <2>4, <1>5
<1> QED
  BY <1>4, <1>6, <1>7, <1>8

(* Writing and taking back *)

\* What holds of a batch at work.
LEMMA AtWork ==
  ASSUME BatchInv, NEW t \in Teacher, Active(t)
  PROVE  /\ job[t] \in BatchJob /\ job[t].version \in B!Version /\ Own(t)
         /\ \A c \in B!Classes :
              /\ file[c] \in Zero /\ aside[c] \in SUBSET B!Version
              /\ over[c] \in SUBSET (B!Version \X B!Version)
              /\ OnePlace(file[c], aside[c], over[c])
         /\ \A i \in DOMAIN Class : Class[i] \in B!Classes
BY BatchAssumption DEF BatchInv, BatchTyped, Own, B!Version, B!Classes

LEMMA LastIsOne ==
  ASSUME NEW t \in Teacher, NEW i \in DOMAIN Class, NEW j \in DOMAIN Class, B!Last(t, i), B!Last(t, j)
  PROVE  i = j
<1>1. i \in Nat /\ j \in Nat
  BY BatchAssumption
<1>2. i <= j /\ j <= i
  BY DEF B!Last
<1> QED
  BY <1>1, <1>2

LEMMA MovedEntry ==
  ASSUME BatchInv, NEW t \in Teacher, pc[t] = "displaced", NEW i \in DOMAIN Class, B!Last(t, i)
  PROVE  job[t].status[Class[i]] = "created" /\ job[t].moved \in aside[Class[i]]
<1>1. Moved(t)
  BY DEF BatchInv, Own, Active
<1> QED
  BY <1>1, LastIsOne DEF Moved

\* The entry of class c is written or dealt with, and nothing else of the job.
Entered(t, c, status) ==
  /\ job'[t] \in BatchJob /\ job'[t].version = job[t].version /\ job'[t].original = job[t].original
  /\ job'[t].status = [job[t].status EXCEPT ![c] = status]
  /\ \A s \in Teacher \ {t} : job'[s] = job[s]
  /\ job' \in [Teacher -> BatchJob]

LEMMA Entering ==
  ASSUME BatchInv, NEW t \in Teacher, Active(t), NEW c \in B!Classes, NEW status \in B!Status,
         job' = [job EXCEPT ![t].status[c] = status]
  PROVE  Entered(t, c, status) /\ job'[t].named = job[t].named
<1>1. job[t] \in BatchJob /\ job \in [Teacher -> BatchJob]
  BY DEF BatchInv, BatchTyped
<1>2. [job[t].status EXCEPT ![c] = status] \in [B!Classes -> B!Status]
  BY <1>1 DEF BatchJob
<1>3. job'[t] = [job[t] EXCEPT !.status = [job[t].status EXCEPT ![c] = status]]
  BY <1>1
<1>4. job'[t] \in BatchJob
  BY <1>1, <1>2, <1>3 DEF BatchJob
<1> QED
  BY <1>1, <1>3, <1>4 DEF Entered, BatchJob

LEMMA Naming ==
  ASSUME BatchInv, NEW t \in Teacher, Active(t), NEW c \in B!Classes, job' = B!Name(t, c)
  PROVE  Entered(t, c, "pending") /\ job'[t].named = job[t].named \cup {c}
<1>1. job[t] \in BatchJob /\ job \in [Teacher -> BatchJob]
  BY DEF BatchInv, BatchTyped
<1>2. [job[t].status EXCEPT ![c] = "pending"] \in [B!Classes -> B!Status]
      /\ job[t].named \cup {c} \in SUBSET B!Classes
  BY <1>1 DEF BatchJob, B!Status
<1>3. job'[t] = [job[t] EXCEPT !.status = [job[t].status EXCEPT ![c] = "pending"],
                               !.named = job[t].named \cup {c}]
  BY <1>1 DEF B!Name
<1>4. job'[t] \in BatchJob
  BY <1>1, <1>2, <1>3 DEF BatchJob
<1> QED
  BY <1>1, <1>3, <1>4 DEF Entered, BatchJob, B!Name

\* A batch that writes or compensates, one entry later.
LEMMA EntryStep ==
  ASSUME BatchInv, NEW t \in Teacher, Active(t), NEW c \in B!Classes, NEW status \in B!Status,
         Entered(t, c, status), job[t].named \subseteq job'[t].named,
         pc[t] = "write" => job'[t].named = job[t].named,
         pc'[t] \in {"write", "compensate"}, pc'[t] = "write" => pc[t] = "write",
         UNCHANGED <<batches, told>>, Entry(t, c)',
         \A d \in B!Classes \ {c} : file'[d] = file[d] /\ aside'[d] = aside[d] /\ over'[d] = over[d]
  PROVE  Own(t)'
<1>1. job[t] \in BatchJob /\ Own(t)
  BY AtWork
<1>2. job'[t].version \in 1 .. batches' /\ told'[job'[t].version].answer = "none"
  BY <1>1 DEF Own, Entered
<1>3. ASSUME NEW d \in B!Classes PROVE Entry(t, d)'
  <2>1. CASE d = c
    BY <2>1
  <2>2. CASE d # c
    <3>1. Entry(t, d)
      BY <1>1 DEF Own
    <3>2. job'[t].status[d] = job[t].status[d]
      BY <1>1, <2>2 DEF Entered, BatchJob
    <3> QED
      BY <2>2, <3>1, <3>2 DEF Entry, Entered
  <2> QED
    BY <2>1, <2>2
<1>4. pc'[t] = "write" => job'[t].named = {}
  BY <1>1 DEF Own
<1> QED
  BY <1>2, <1>3, <1>4 DEF Own

LEMMA CopyWriteKeeps ==
  ASSUME BatchInv, NEW t \in Teacher, NEW i \in DOMAIN Class, B!Write(t, i)
  PROVE  BatchInv'
<1> DEFINE c == Class[i]
           v == job[t].version
           status == IF file[c] = 0 THEN "created" ELSE "updated"
<1>1. /\ c \in B!Classes /\ pc[t] = "write" /\ Active(t) /\ job[t].status[c] = "pending"
      /\ file[c] = job[t].original[c] /\ file' = [file EXCEPT ![c] = v]
      /\ over' = IF file[c] = 0 THEN over ELSE [over EXCEPT ![c] = @ \cup {<<file[c], v>>}]
      /\ job' = [job EXCEPT ![t].status[c] = status]
      /\ pc' \in {pc, [pc EXCEPT ![t] = "compensate"]}
      /\ UNCHANGED <<aside, basis, batches, told>>
  BY DEF B!Write, B!Pending, Active, B!Classes
<1>2. /\ job[t] \in BatchJob /\ v \in B!Version /\ Own(t) /\ job[t].named = {}
      /\ file[c] \in Zero /\ aside[c] \in SUBSET B!Version /\ over[c] \in SUBSET (B!Version \X B!Version)
      /\ OnePlace(file[c], aside[c], over[c]) /\ Gone(file[c], aside[c], over[c], v)
  BY <1>1, AtWork DEF Own, Entry
<1>3. /\ file'[c] = v /\ aside'[c] = aside[c]
      /\ over'[c] = IF file[c] = 0 THEN over[c] ELSE over[c] \cup {<<file[c], v>>}
      /\ \A d \in B!Classes \ {c} : file'[d] = file[d] /\ aside'[d] = aside[d] /\ over'[d] = over[d]
  BY <1>1 DEF BatchInv, BatchTyped
<1>4. /\ Shift(file[c], aside[c], over[c], file'[c], aside'[c], over'[c], v)
      /\ At(file'[c], aside'[c], over'[c], v)
      /\ file[c] = 0 => \A x \in B!Version : <<x, v>> \notin over'[c]
      /\ file[c] # 0 => /\ file[c] \in B!Version /\ <<file[c], v>> \in over'[c]
                        /\ \A x \in B!Version : <<x, v>> \in over'[c] => x = file[c]
  <2>1. over'[c] = Covered(file[c], over[c], v)
    BY <1>3 DEF Covered
  <2> HIDE DEF c, v
  <2> QED
    BY <1>2, <1>3, <2>1, WriteShifts
<1>5. status \in B!Status /\ status # "pending" /\ Entered(t, c, status) /\ job'[t].named = job[t].named
  <2>1. status \in B!Status /\ status # "pending"
    BY DEF B!Status
  <2> HIDE DEF status
  <2> QED
    BY <1>1, <2>1, Entering
<1>6. pc'[t] \in {"write", "compensate"} /\ (\A s \in Teacher \ {t} : pc'[s] = pc[s])
      /\ pc' \in [Teacher -> B!Steps]
  BY <1>1 DEF BatchInv, BatchTyped, B!Steps
<1>7. Entry(t, c)'
  <2>1. job'[t].status[c] = status /\ job'[t].version = v /\ job'[t].original[c] = file[c]
    BY <1>1, <1>2, <1>5 DEF Entered, BatchJob
  <2> QED
    BY <2>1, <1>4 DEF Entry
<1>8. Own(t)'
  BY <1>1, <1>3, <1>5, <1>6, <1>7, EntryStep
<1>9. BatchTyped'
  <2>1. over' \in [B!Classes -> SUBSET (B!Version \X B!Version)] /\ file' \in [B!Classes -> Zero]
    BY <1>1, <1>2 DEF BatchInv, BatchTyped, Zero
  <2> QED
    BY <1>1, <1>5, <1>6, <2>1 DEF BatchInv, BatchTyped, Entered
<1>10. DiskStep(t, c)
  BY <1>1, <1>3, <1>4, <1>5, <1>6 DEF DiskStep, Entered
<1>11. \A s \in Teacher \ {t} : pc[s] = "displaced" => Moved(s)'
  BY <1>1, <1>5 DEF BatchInv, Own, Active, Moved, B!Last, B!Written, Entered
<1> QED
  BY <1>1, <1>5, <1>6, <1>8, <1>9, <1>10, <1>11, BatchStepOf DEF Active, Entered

\* An entry that cannot be undone is named, and its files stay.
LEMMA NamedKeeps ==
  ASSUME BatchInv, NEW t \in Teacher, pc[t] = "compensate", NEW c \in B!Classes, job' = B!Name(t, c),
         UNCHANGED <<file, aside, over, basis, batches, told, pc>>
  PROVE  BatchInv'
<1>1. Active(t) /\ "pending" \in B!Status /\ pc'[t] = "compensate"
  BY DEF Active, B!Status
<1>2. Entered(t, c, "pending") /\ job'[t].named = job[t].named \cup {c}
  BY <1>1, Naming
<1>3. Entry(t, c)'
  <2>1. job'[t].status[c] = "pending" /\ c \in job'[t].named
    BY <1>1, <1>2, AtWork DEF Entered, BatchJob
  <2> QED
    BY <2>1 DEF Entry
<1>4. Own(t)'
  BY <1>1, <1>2, <1>3, EntryStep
<1>5. BatchTyped'
  BY <1>2 DEF BatchInv, BatchTyped, Entered
<1> QED
  BY <1>1, <1>2, <1>4, <1>5, QuietStep DEF Entered

LEMMA RestoreKeeps ==
  ASSUME BatchInv, NEW t \in Teacher, NEW i \in DOMAIN Class, B!RestoreUpdated(t, i)
  PROVE  BatchInv'
<1> DEFINE c == Class[i]
           u == job[t].original[c]
           v == job[t].version
<1>1. /\ c \in B!Classes /\ pc[t] = "compensate" /\ Active(t) /\ job[t].status[c] = "updated"
      /\ UNCHANGED <<aside, basis, batches, told, pc>>
  BY DEF B!RestoreUpdated, Active, B!Classes
<1>2. CASE job' = B!Name(t, c) /\ UNCHANGED <<file, over>>
  BY <1>1, <1>2, NamedKeeps
<1>3. CASE /\ file[c] = v /\ file' = [file EXCEPT ![c] = u]
           /\ over' = [over EXCEPT ![c] = @ \ {<<u, v>>}]
           /\ job' \in {B!Done(t, c), B!Name(t, c)}
  <2>1. /\ job[t] \in BatchJob /\ v \in B!Version /\ u \in B!Version /\ <<u, v>> \in over[c]
        /\ \A x \in B!Version : <<x, v>> \in over[c] => x = u
        /\ aside[c] \in SUBSET B!Version /\ over[c] \in SUBSET (B!Version \X B!Version)
        /\ OnePlace(v, aside[c], over[c])
    BY <1>1, <1>3, AtWork DEF Own, Entry
  <2>2. /\ file'[c] = u /\ aside'[c] = aside[c] /\ over'[c] = over[c] \ {<<u, v>>}
        /\ \A d \in B!Classes \ {c} : file'[d] = file[d] /\ aside'[d] = aside[d] /\ over'[d] = over[d]
    BY <1>1, <1>3 DEF BatchInv, BatchTyped
  <2>3. /\ Shift(file[c], aside[c], over[c], file'[c], aside'[c], over'[c], v)
        /\ Gone(file'[c], aside'[c], over'[c], v)
    <3> HIDE DEF c, u, v
    <3> QED
      BY <1>3, <2>1, <2>2, RestoreShifts
  <2>4. Entered(t, c, "pending") /\ job[t].named \subseteq job'[t].named
    <3>1. "pending" \in B!Status
      BY DEF B!Status
    <3>2. CASE job' = B!Name(t, c)
      BY <1>1, <3>2, Naming
    <3>3. CASE job' = B!Done(t, c)
      BY <1>1, <3>1, <3>3, Entering DEF B!Done
    <3> QED
      BY <1>3, <3>2, <3>3
  <2>5. Entry(t, c)'
    <3>1. job'[t].status[c] = "pending" /\ job'[t].version = v
      BY <1>1, <2>1, <2>4 DEF Entered, BatchJob
    <3> QED
      BY <3>1, <2>3 DEF Entry
  <2>6. Own(t)'
    <3>1. "pending" \in B!Status /\ pc'[t] = "compensate"
      BY <1>1 DEF B!Status
    <3> QED
      BY <1>1, <2>2, <2>4, <2>5, <3>1, EntryStep
  <2>7. BatchTyped'
    <3>1. over' \in [B!Classes -> SUBSET (B!Version \X B!Version)] /\ file' \in [B!Classes -> Zero]
      BY <1>1, <1>3, <2>1 DEF BatchInv, BatchTyped, Zero
    <3> QED
      BY <1>1, <2>4, <3>1 DEF BatchInv, BatchTyped, Entered
  <2>8. DiskStep(t, c)
    BY <1>1, <2>2, <2>3, <2>4 DEF DiskStep, Entered
  <2>9. \A s \in Teacher \ {t} : pc[s] = "displaced" => Moved(s)'
    BY <1>1, <2>4 DEF BatchInv, Own, Active, Moved, B!Last, B!Written, Entered
  <2> QED
    BY <1>1, <2>4, <2>6, <2>7, <2>8, <2>9, BatchStepOf DEF Active, Entered
<1> QED
  BY <1>2, <1>3 DEF B!RestoreUpdated

LEMMA DisplaceKeeps ==
  ASSUME BatchInv, NEW t \in Teacher, NEW i \in DOMAIN Class, B!Displace(t, i)
  PROVE  BatchInv'
<1> DEFINE c == Class[i]
           f == file[c]
           v == job[t].version
<1>1. /\ c \in B!Classes /\ pc[t] = "compensate" /\ Active(t) /\ job[t].status[c] = "created"
      /\ B!Last(t, i) /\ UNCHANGED <<over, basis, batches, told>>
  BY DEF B!Displace, Active, B!Classes
<1>2. CASE job' = B!Name(t, c) /\ UNCHANGED <<file, aside, pc>>
  BY <1>1, <1>2, NamedKeeps
<1>3. CASE /\ f # 0 /\ file' = [file EXCEPT ![c] = 0]
           /\ aside' = [aside EXCEPT ![c] = @ \cup {f}]
           /\ pc' = [pc EXCEPT ![t] = "displaced"] /\ job' = [job EXCEPT ![t].moved = f]
  <2>1. /\ job[t] \in BatchJob /\ v \in B!Version /\ f \in B!Version /\ Own(t)
        /\ aside[c] \in SUBSET B!Version /\ over[c] \in SUBSET (B!Version \X B!Version)
        /\ OnePlace(f, aside[c], over[c])
    BY <1>1, <1>3, AtWork DEF Zero
  <2>2. /\ file'[c] = 0 /\ aside'[c] = aside[c] \cup {f} /\ over'[c] = over[c]
        /\ \A d \in B!Classes \ {c} : file'[d] = file[d] /\ aside'[d] = aside[d] /\ over'[d] = over[d]
        /\ \A d \in B!Classes : aside[d] \subseteq aside'[d]
    BY <1>1, <1>3 DEF BatchInv, BatchTyped
  <2>3. Shift(file[c], aside[c], over[c], file'[c], aside'[c], over'[c], v)
    <3>1. f = file[c]
      OBVIOUS
    <3> HIDE DEF c, f, v
    <3> QED
      BY <2>1, <2>2, <3>1, DisplaceShifts
  <2>4. /\ job'[t] = [job[t] EXCEPT !.moved = f] /\ pc'[t] = "displaced"
        /\ \A s \in Teacher \ {t} : job'[s] = job[s] /\ pc'[s] = pc[s]
    BY <1>3 DEF BatchInv, BatchTyped
  <2>5. /\ job'[t] \in BatchJob /\ job'[t].version = v /\ job'[t].status = job[t].status
        /\ job'[t].original = job[t].original /\ job'[t].named = job[t].named /\ job'[t].moved = f
    BY <2>1, <2>4 DEF BatchJob, Zero
  <2>6. \A d \in B!Classes : Entry(t, d)'
    <3>1. ASSUME NEW d \in B!Classes \ {c} PROVE Entry(t, d)'
      BY <1>1, <2>1, <2>2, <2>4, <2>5 DEF Own, Entry
    <3>2. Entry(t, c)'
      BY <1>1, <2>1, <2>2, <2>4, <2>5 DEF Own, Entry
    <3> QED
      BY <3>1, <3>2
  <2>7. Moved(t)'
    BY <1>1, <2>2, <2>5 DEF Moved, B!Last, B!Written
  <2>8. Own(t)'
    <3>1. job'[t].version \in 1 .. batches' /\ told'[job'[t].version].answer = "none"
      BY <1>1, <2>1, <2>5 DEF Own
    <3> QED
      BY <2>4, <2>6, <2>7, <3>1 DEF Own
  <2>9. BatchTyped'
    <3>1. aside' \in [B!Classes -> SUBSET B!Version] /\ file' \in [B!Classes -> Zero]
      BY <1>3, <2>1 DEF BatchInv, BatchTyped, Zero
    <3>2. job' \in [Teacher -> BatchJob] /\ pc' \in [Teacher -> B!Steps]
      BY <1>3, <2>4, <2>5 DEF BatchInv, BatchTyped, B!Steps
    <3> QED
      BY <1>1, <3>1, <3>2 DEF BatchInv, BatchTyped
  <2>10. DiskStep(t, c)
    BY <1>1, <2>2, <2>3, <2>4 DEF DiskStep
  <2>11. \A s \in Teacher \ {t} : pc[s] = "displaced" => Moved(s)'
    <3> SUFFICES ASSUME NEW s \in Teacher \ {t}, pc[s] = "displaced" PROVE Moved(s)'
      OBVIOUS
    <3>1. Moved(s) /\ \A j \in DOMAIN Class : Class[j] \in B!Classes
      BY AtWork DEF BatchInv, Own, Active
    <3> QED
      BY <2>2, <2>4, <3>1 DEF Moved, B!Last, B!Written
  <2>12. ASSUME NEW s \in Teacher \ {t}, pc[s] = "displaced", NEW k \in DOMAIN Class,
                NEW j \in DOMAIN Class, B!Last(s, k)', B!Last(t, j)', Class[k] = Class[j]
         PROVE  job'[s].moved # job'[t].moved
    <3>1. B!Last(s, k) /\ B!Last(t, j)
      BY <2>4, <2>5, <2>12 DEF B!Last, B!Written
    <3>2. j = i
      BY <1>1, <3>1, LastIsOne
    <3>3. job[s].moved \in aside[c]
      BY <2>12, <3>1, <3>2, MovedEntry
    <3>4. f \notin aside[c]
      BY <2>1 DEF OnePlace
    <3> QED
      BY <2>4, <2>5, <3>3, <3>4
  <2> QED
    BY <1>1, <2>4, <2>5, <2>8, <2>9, <2>10, <2>11, <2>12, BatchStepOf DEF Active
<1> QED
  BY <1>2, <1>3 DEF B!Displace, B!Go

\* The removal of a created copy comes to its end: of what others moved aside
\* nothing is touched.
LEMMA RemovalEnds ==
  ASSUME BatchInv, NEW t \in Teacher, NEW i \in DOMAIN Class, NEW c \in B!Classes, c = Class[i],
         pc[t] = "displaced", B!Last(t, i), pc' = [pc EXCEPT ![t] = "compensate"],
         Entered(t, c, "pending"), job[t].named \subseteq job'[t].named,
         UNCHANGED <<over, basis, batches, told>>,
         file' \in [B!Classes -> Zero], \A d \in B!Classes \ {c} : file'[d] = file[d],
         \/ aside' = aside \/ aside' = [aside EXCEPT ![c] = @ \ {job[t].moved}],
         NEW v, v = job[t].version,
         Shift(file[c], aside[c], over[c], file'[c], aside'[c], over'[c], v), Entry(t, c)'
  PROVE  BatchInv'
<1>1. Active(t) /\ "pending" \in B!Status /\ pc'[t] = "compensate"
      /\ \A s \in Teacher \ {t} : pc'[s] = pc[s] /\ job'[s] = job[s]
  BY DEF Active, B!Status, BatchInv, BatchTyped, Entered
<1>2. \A d \in B!Classes \ {c} : file'[d] = file[d] /\ aside'[d] = aside[d] /\ over'[d] = over[d]
  BY DEF BatchInv, BatchTyped
<1>3. Own(t)'
  BY <1>1, <1>2, EntryStep
<1>4. BatchTyped'
  <2>1. aside' \in [B!Classes -> SUBSET B!Version] /\ pc' \in [Teacher -> B!Steps]
    BY DEF BatchInv, BatchTyped, B!Steps
  <2> QED
    BY <2>1 DEF BatchInv, BatchTyped, Entered
<1>5. DiskStep(t, c)
  BY <1>1, <1>2 DEF DiskStep
<1>6. ASSUME NEW s \in Teacher \ {t}, pc[s] = "displaced" PROVE Moved(s)'
  <2>1. PICK j \in DOMAIN Class :
          B!Last(s, j) /\ job[s].status[Class[j]] = "created" /\ job[s].moved \in aside[Class[j]]
    BY <1>6 DEF BatchInv, Own, Active, Moved
  <2>2. Class[j] \in B!Classes
    BY DEF B!Classes
  <2>3. Class[j] = c => job[s].moved # job[t].moved
    BY <1>6, <1>1, <2>1 DEF BatchInv, Apart, Active
  <2>4. job[s].moved \in aside'[Class[j]]
    BY <1>2, <2>1, <2>2, <2>3 DEF BatchInv, BatchTyped
  <2> QED
    BY <1>1, <2>1, <2>4 DEF Moved, B!Last, B!Written
<1> QED
  BY <1>1, <1>3, <1>4, <1>5, <1>6, BatchStepOf DEF Active, Entered

LEMMA DisposeKeeps ==
  ASSUME BatchInv, NEW t \in Teacher, NEW i \in DOMAIN Class, B!Dispose(t, i)
  PROVE  BatchInv'
<1> DEFINE c == Class[i]
           v == job[t].version
<1>1. /\ c \in B!Classes /\ pc[t] = "displaced" /\ Active(t) /\ B!Last(t, i)
      /\ job[t].moved = v /\ UNCHANGED <<file, basis, batches, over, told>>
      /\ aside' = [aside EXCEPT ![c] = @ \ {v}]
      /\ job' = B!Done(t, c) /\ pc' = [pc EXCEPT ![t] = "compensate"]
  BY DEF B!Dispose, B!Disposable, B!Go, Active, B!Classes
<1>2. job[t].status[c] = "created" /\ v \in aside[c]
  BY <1>1, MovedEntry
<1>3. /\ job[t] \in BatchJob /\ v \in B!Version /\ file[c] \in Zero /\ aside[c] \in SUBSET B!Version
      /\ over[c] \in SUBSET (B!Version \X B!Version) /\ OnePlace(file[c], aside[c], over[c])
      /\ \A x \in B!Version : <<x, v>> \notin over[c]
  BY <1>1, <1>2, AtWork DEF Own, Entry
<1>4. file'[c] = file[c] /\ aside'[c] = aside[c] \ {v} /\ over'[c] = over[c]
  BY <1>1 DEF BatchInv, BatchTyped
<1>5. /\ Shift(file[c], aside[c], over[c], file'[c], aside'[c], over'[c], v)
      /\ Gone(file'[c], aside'[c], over'[c], v)
  <2> HIDE DEF c, v
  <2>1. SUFFICES ASSUME NEW f, f = file[c], NEW a, a = aside[c], NEW o, o = over[c]
        PROVE  Shift(f, a, o, f, a \ {v}, o, v) /\ Gone(f, a \ {v}, o, v)
    BY <1>4
  <2> QED
    BY <1>2, <1>3, <2>1, DisposeShifts
<1>6. Entered(t, c, "pending") /\ job'[t].named = job[t].named
  <2>1. "pending" \in B!Status
    BY DEF B!Status
  <2> QED
    BY <1>1, <2>1, Entering DEF B!Done
<1>7. Entry(t, c)'
  <2>1. job'[t].status[c] = "pending" /\ job'[t].version = v
    BY <1>1, <1>3, <1>6 DEF Entered, BatchJob
  <2> QED
    BY <2>1, <1>5 DEF Entry
<1>8. file' \in [B!Classes -> Zero] /\ (\A d \in B!Classes \ {c} : file'[d] = file[d])
      /\ aside' = [aside EXCEPT ![c] = @ \ {job[t].moved}]
  BY <1>1 DEF BatchInv, BatchTyped
<1> HIDE DEF c
<1> QED
  BY <1>1, <1>5, <1>6, <1>7, <1>8, RemovalEnds DEF c

LEMMA PutBackKeeps ==
  ASSUME BatchInv, NEW t \in Teacher, NEW i \in DOMAIN Class, B!PutBack(t, i)
  PROVE  BatchInv'
<1> DEFINE c == Class[i]
           m == job[t].moved
           v == job[t].version
<1>1. /\ c \in B!Classes /\ pc[t] = "displaced" /\ Active(t) /\ B!Last(t, i)
      /\ UNCHANGED <<basis, batches, over, told>>
      /\ job' = B!Name(t, c) /\ pc' = [pc EXCEPT ![t] = "compensate"]
  BY DEF B!PutBack, B!Go, Active, B!Classes
<1>2. m \in aside[c]
  BY <1>1, MovedEntry
<1>3. /\ job[t] \in BatchJob /\ v \in B!Version /\ file[c] \in Zero /\ aside[c] \in SUBSET B!Version
      /\ over[c] \in SUBSET (B!Version \X B!Version) /\ OnePlace(file[c], aside[c], over[c])
  BY <1>1, AtWork
<1>4. /\ Shift(file[c], aside[c], over[c], file'[c], aside'[c], over'[c], v)
      /\ file' \in [B!Classes -> Zero] /\ (\A d \in B!Classes \ {c} : file'[d] = file[d])
      /\ (aside' = aside \/ aside' = [aside EXCEPT ![c] = @ \ {m}])
  <2>1. CASE file[c] # 0
    <3>1. UNCHANGED <<file, aside, over>>
      BY <1>1, <2>1 DEF B!PutBack
    <3> QED
      BY <1>3, <3>1 DEF Shift, BatchInv, BatchTyped
  <2>2. CASE file[c] = 0
    <3>1. file' = [file EXCEPT ![c] = m] /\ aside' = [aside EXCEPT ![c] = @ \ {m}] /\ over' = over
      BY <1>1, <2>2 DEF B!PutBack
    <3>2. file'[c] = m /\ aside'[c] = aside[c] \ {m} /\ over'[c] = over[c] /\ m \in Zero
      BY <1>1, <1>2, <1>3, <3>1 DEF BatchInv, BatchTyped, Zero
    <3>3. Shift(file[c], aside[c], over[c], file'[c], aside'[c], over'[c], v)
      <4> HIDE DEF c, m, v
      <4> QED
        BY <1>2, <1>3, <2>2, <3>2, PutBackShifts
    <3> QED
      BY <3>1, <3>2, <3>3 DEF BatchInv, BatchTyped
  <2> QED
    BY <2>1, <2>2
<1>5. Entered(t, c, "pending") /\ job'[t].named = job[t].named \cup {c}
  BY <1>1, Naming
<1>6. Entry(t, c)'
  <2>1. job'[t].status[c] = "pending" /\ c \in job'[t].named
    BY <1>1, <1>3, <1>5 DEF Entered, BatchJob
  <2> QED
    BY <2>1 DEF Entry
<1> HIDE DEF c
<1> QED
  BY <1>1, <1>4, <1>5, <1>6, RemovalEnds DEF c

LEMMA BatchStep == ASSUME BatchInv, [B!Next]_(B!vars) PROVE BatchInv'
<1>0. ASSUME UNCHANGED <<file, aside, batches, pc, job, over, told>>, basis' \in {1, 2}
      PROVE  BatchInv'
  <2>1. BatchTyped' /\ \A c \in B!Classes : OnePlace(file'[c], aside'[c], over'[c])
    BY <1>0 DEF BatchInv, BatchTyped
  <2>2. \A v \in B!Version : Answered(v)' /\ (v > batches' => told'[v].answer = "none")
    BY <1>0 DEF BatchInv, Answered
  <2>3. ASSUME NEW t \in Teacher PROVE Own(t)'
    <3>1. Own(t)
      BY DEF BatchInv
    <3>2. Active(t) => \A c \in B!Classes : Entry(t, c)'
      BY <1>0, <3>1 DEF Own, Entry
    <3>3. Moved(t) => Moved(t)'
      BY <1>0 DEF Moved, B!Last, B!Written
    <3> QED
      BY <1>0, <3>1, <3>2, <3>3 DEF Own, Active
  <2>4. Apart'
    BY <1>0 DEF BatchInv, Apart, Active, B!Last, B!Written
  <2> QED
    BY <2>1, <2>2, <2>3, <2>4 DEF BatchInv
<1>1. CASE UNCHANGED B!vars
  <2>1. UNCHANGED <<file, aside, batches, pc, job, over, told>> /\ basis' \in {1, 2}
    BY <1>1 DEF B!vars, BatchInv, BatchTyped
  <2> QED
    BY <2>1, <1>0
<1>2. CASE B!EditBasis
  BY <1>2, <1>0 DEF B!EditBasis
<1>3. ASSUME NEW t \in Teacher,
             \/ B!PlanDestinations(t) \/ B!PlanCopy(t) \/ B!Confirm(t) \/ B!Refuse(t) \/ B!Preflight(t)
             \/ B!WriteFails(t) \/ B!Saved(t) \/ B!Failed(t) \/ B!Die(t)
             \/ \E i \in DOMAIN Class :
                  B!Write(t, i) \/ B!RestoreUpdated(t, i) \/ B!Displace(t, i) \/ B!Dispose(t, i) \/ B!PutBack(t, i)
      PROVE  BatchInv'
  <2>1. CASE B!PlanDestinations(t) \/ B!PlanCopy(t)
    BY <2>1, PlanKeeps
  <2>2. CASE B!Confirm(t) \/ B!Preflight(t) \/ B!WriteFails(t)
    BY <2>2, PreparationKeeps
  <2>3. CASE B!Refuse(t) \/ B!Saved(t) \/ B!Failed(t) \/ B!Die(t)
    BY <2>3, BatchEndKeeps
  <2>4. ASSUME NEW i \in DOMAIN Class,
               B!Write(t, i) \/ B!RestoreUpdated(t, i) \/ B!Displace(t, i) \/ B!Dispose(t, i) \/ B!PutBack(t, i)
        PROVE  BatchInv'
    BY <2>4, CopyWriteKeeps, RestoreKeeps, DisplaceKeeps, DisposeKeeps, PutBackKeeps
  <2> QED
    BY <1>3, <2>1, <2>2, <2>3, <2>4
<1> QED
  BY <1>1, <1>2, <1>3 DEF B!Next

LEMMA BatchHolds ==
  ASSUME BatchInv
  PROVE  B!TypeOK /\ B!RemainsAreNamed /\ B!SavedIsKept /\ B!UpdatesTakenBack
<1>1. B!TypeOK
  <2>1. BatchTyped
    BY DEF BatchInv
  <2>2. \A c \in B!Classes : aside[c] \subseteq B!Version /\ over[c] \subseteq B!Version \X B!Version
    BY <2>1 DEF BatchTyped
  <2>3. \A t \in Teacher : job[t] \in BatchJob
    BY <2>1 DEF BatchTyped
  <2>4. \A v \in B!Version : told[v].answer \in {"none", "ok", "failed"}
    BY <2>1 DEF BatchTyped, BatchTold
  <2> QED
    BY <2>1, <2>2, <2>3, <2>4 DEF BatchTyped, B!TypeOK, BatchJob, Zero
<1>2. ASSUME NEW v \in B!Version, NEW c \in B!Classes
      PROVE  /\ told[v].answer = "failed" /\ c \notin told[v].named =>
                  Gone(file[c], aside[c], over[c], v)
             /\ told[v].answer = "ok" => At(file[c], aside[c], over[c], v)
  BY DEF BatchInv, Answered
<1>3. B!RemainsAreNamed
  BY <1>2 DEF B!RemainsAreNamed, Gone, At
<1>4. B!SavedIsKept
  BY <1>2 DEF B!SavedIsKept, At
<1>5. B!UpdatesTakenBack
  BY <1>2 DEF B!UpdatesTakenBack, Gone
<1> QED
  BY <1>1, <1>3, <1>4, <1>5

-----------------------------------------------------------------------------
(***************************************************************************)
(* The class roster.                                                       *)
(***************************************************************************)
LEMMA RosterAssumption == MaxSaves \in Nat
BY MCWorkspaceAssumption

Call == [content : C!Content, overwrite : BOOLEAN, existed : SUBSET C!File,
         absent : BOOLEAN, quiet : BOOLEAN]
Step == {"idle", "planned", "roster", "metadata", "created", "clean", "failed", "staged"}

\* What a creation may count on while no other session writes.
Undisturbed(e) ==
  /\ step[e] \in {"metadata", "created"} => call[e].content # 0
  /\ call[e].absent => call[e].existed = {}
  /\ step[e] # "idle" => answer[e] = "none"
  /\ call[e].quiet =>
       /\ step[e] \in {"metadata", "created"} => roster # 0
       /\ step[e] = "created" => metadata # 0
       /\ step[e] = "failed" /\ call[e].absent => roster = 0 /\ metadata = 0

Whole(e) ==
  /\ answer[e] = "created" => roster # 0 /\ metadata # 0
  /\ answer[e] = "failed" => roster = 0 /\ metadata = 0

ClassInv ==
  /\ roster \in C!Content /\ metadata \in C!Content /\ contents \in C!Content
  /\ step \in [Editor -> Step] /\ call \in [Editor -> Call]
  /\ answer \in [Editor -> {"none", "created", "failed"}]
  /\ \A e \in Editor : Undisturbed(e) /\ Whole(e)

LEMMA ClassStart == ASSUME C!Init PROVE ClassInv
<1>1. C!NoCall \in Call /\ 0 \in C!Content
  BY RosterAssumption DEF C!NoCall, Call, C!Content, C!File
<1> QED
  BY <1>1 DEF C!Init, ClassInv, Step, Undisturbed, Whole, C!NoCall

\* The roster or the metadata changes hands: the others are no longer quiet.
LEMMA DisturbedCalls ==
  ASSUME ClassInv, NEW e \in Editor
  PROVE  /\ C!Disturbed(e) \in [Editor -> Call]
         /\ C!Disturbed(e)[e] = call[e]
         /\ \A o \in Editor \ {e} : ~C!Disturbed(e)[o].quiet
         /\ \A o \in Editor : /\ C!Disturbed(e)[o].content = call[o].content
                              /\ C!Disturbed(e)[o].absent = call[o].absent
                              /\ C!Disturbed(e)[o].existed = call[o].existed
BY DEF ClassInv, C!Disturbed, Call

LEMMA ClassStep == ASSUME ClassInv, [C!Next]_(C!vars) PROVE ClassInv'
<1> USE DEF C!Content
<1>0. CASE UNCHANGED C!vars
  BY <1>0 DEF C!vars, C!files, ClassInv, Undisturbed, Whole
<1>1. SUFFICES ASSUME NEW e \in Editor,
                      \/ C!PlanCreation(e) \/ C!CheckExisting(e) \/ C!WriteRoster(e) \/ C!WriteMetadata(e)
                      \/ C!Created(e) \/ C!WriteFails(e) \/ C!CleanUp(e) \/ C!Failed(e)
                      \/ C!LoadRoster(e) \/ C!SaveRoster(e) \/ C!GiveUp(e)
               PROVE  ClassInv'
  BY <1>0 DEF C!Next
<1>2. /\ C!NoCall \in Call /\ C!NoCall.absent = FALSE /\ C!Existing \in SUBSET C!File
      /\ [C!NoCall EXCEPT !.overwrite = C!Existing # {}] \in Call
      /\ [C!NoCall EXCEPT !.overwrite = C!Existing # {}].absent = FALSE
  <2>1. C!NoCall \in Call /\ C!NoCall.absent = FALSE /\ C!Existing \in SUBSET C!File
    BY RosterAssumption DEF C!NoCall, Call, C!Existing, C!File
  <2>2. ASSUME NEW x \in BOOLEAN
        PROVE  [C!NoCall EXCEPT !.overwrite = x] \in Call /\ [C!NoCall EXCEPT !.overwrite = x].absent = FALSE
    <3>1. x = TRUE \/ x = FALSE
      BY <2>2
    <3>2. 0 \in C!Content /\ {} \in SUBSET C!File
      BY RosterAssumption
    <3> QED
      BY <3>1, <3>2 DEF C!NoCall, Call
  <2>3. (C!Existing # {}) \in BOOLEAN
    OBVIOUS
  <2> QED
    BY <2>1, <2>2, <2>3
<1>3. \A o \in Editor : step[o] \in Step /\ call[o] \in Call
  BY DEF ClassInv
<1>4. ASSUME NEW to \in {"planned", "staged"}, NEW new \in Call, ~new.absent, C!Begin(e, to, new)
      PROVE  ClassInv'
  BY <1>4 DEF C!Begin, C!Go, C!Answered, C!files, ClassInv, Undisturbed, Whole, Step, Call
<1>5. ASSUME NEW o \in Editor \ {e}, call'[o] = C!Disturbed(e)[o], step'[o] = step[o],
             answer'[o] = "none"
      PROVE  Undisturbed(o)' /\ Whole(o)'
  <2>1. /\ ~call'[o].quiet /\ call'[o].content = call[o].content
        /\ call'[o].absent = call[o].absent /\ call'[o].existed = call[o].existed
    BY <1>5, DisturbedCalls
  <2>2. Undisturbed(o)
    BY DEF ClassInv
  <2> QED
    BY <1>5, <2>1, <2>2 DEF Undisturbed, Whole
<1>a. CASE C!PlanCreation(e)
  BY <1>a, <1>2, <1>4 DEF C!PlanCreation
<1>b. CASE C!CheckExisting(e)
  <2>1. call' \in [Editor -> Call]
    BY <1>b, <1>2 DEF C!CheckExisting, ClassInv, Call
  <2> QED
    BY <1>b, <2>1, <1>2, <1>3 DEF C!CheckExisting, C!Go, C!files, ClassInv, Undisturbed, Whole,
         Step, Call
<1>c. CASE C!WriteRoster(e)
  <2>1. contents' = contents + 1 /\ contents' \in C!Content /\ contents' # 0 /\ roster' = contents'
    BY <1>c, RosterAssumption DEF C!WriteRoster, C!NewRoster, ClassInv
  <2>2. call' \in [Editor -> Call]
    BY <1>c, <2>1, DisturbedCalls DEF C!WriteRoster, Call
  <2>3. /\ call'[e].content # 0 /\ call'[e].absent = call[e].absent
        /\ call'[e].existed = call[e].existed
        /\ \A o \in Editor \ {e} : call'[o] = C!Disturbed(e)[o]
    BY <1>c, <2>1, DisturbedCalls DEF C!WriteRoster, Call
  <2>4. /\ step' = [step EXCEPT ![e] = "metadata"] /\ metadata' = metadata
        /\ answer' = [o \in Editor |-> IF o = e THEN answer[o] ELSE "none"] /\ step[e] = "roster"
    BY <1>c DEF C!WriteRoster, C!NewRoster, C!Go, C!Silent
  <2> QED
    <3>1. Undisturbed(e)' /\ Whole(e)'
      BY <2>1, <2>3, <2>4, <1>3 DEF ClassInv, Undisturbed, Whole, Step
    <3>2. \A o \in Editor \ {e} : Undisturbed(o)' /\ Whole(o)'
      BY <2>3, <2>4, <1>3, <1>5 DEF ClassInv
    <3> QED
      BY <2>1, <2>2, <2>4, <3>1, <3>2 DEF ClassInv, Step
<1>d. CASE C!WriteMetadata(e)
  <2>1. /\ step' = [step EXCEPT ![e] = "created"] /\ metadata' = call[e].content
        /\ UNCHANGED <<roster, contents>> /\ call' = C!Disturbed(e)
        /\ answer' = [o \in Editor |-> IF o = e THEN answer[o] ELSE "none"] /\ step[e] = "metadata"
    BY <1>d DEF C!WriteMetadata, C!Go, C!Silent
  <2>2. call[e].content \in C!Content /\ call[e].content # 0
    BY <1>3, <2>1 DEF ClassInv, Undisturbed, Call
  <2> QED
    <3>1. Undisturbed(e)' /\ Whole(e)'
      BY <2>1, <2>2, <1>3, DisturbedCalls DEF ClassInv, Undisturbed, Whole, Step
    <3>2. \A o \in Editor \ {e} : Undisturbed(o)' /\ Whole(o)'
      BY <2>1, <1>3, <1>5 DEF ClassInv
    <3> QED
      BY <2>1, <2>2, <3>1, <3>2, DisturbedCalls DEF ClassInv, Step
<1>e. CASE C!Created(e)
  BY <1>e, <1>2, <1>3 DEF C!Created, C!Go, C!Answered, C!files, ClassInv, Undisturbed, Whole, Step
<1>f. CASE C!WriteFails(e)
  BY <1>f, <1>3 DEF C!WriteFails, C!Go, C!files, ClassInv, Undisturbed, Whole, Step
<1>g. CASE C!CleanUp(e)
  <2>1. step' = [step EXCEPT ![e] = "failed"] /\ contents' = contents /\ step[e] = "clean"
    BY <1>g DEF C!CleanUp, C!Go
  <2>2. /\ roster' \in C!Content /\ metadata' \in C!Content
        /\ call[e].existed = {} => roster' = 0 /\ metadata' = 0
    BY <1>g, RosterAssumption DEF C!CleanUp, C!Removed, C!File, ClassInv
  <2>3. CASE C!files' # C!files
    <3>1. /\ call' = C!Disturbed(e)
          /\ answer' = [o \in Editor |-> IF o = e THEN answer[o] ELSE "none"]
      BY <1>g, <2>3 DEF C!CleanUp, C!Silent
    <3> QED
      <4>1. Undisturbed(e)' /\ Whole(e)'
        BY <2>1, <2>2, <3>1, <1>3, DisturbedCalls DEF ClassInv, Undisturbed, Whole, Step
      <4>2. \A o \in Editor \ {e} : Undisturbed(o)' /\ Whole(o)'
        BY <2>1, <3>1, <1>3, <1>5 DEF ClassInv
      <4> QED
        BY <2>1, <2>2, <3>1, <4>1, <4>2, DisturbedCalls DEF ClassInv, Step
  <2>4. CASE C!files' = C!files
    <3>1. UNCHANGED <<call, answer, roster, metadata>>
      BY <1>g, <2>4 DEF C!CleanUp, C!files
    <3> QED
      BY <2>1, <2>2, <3>1, <1>3 DEF ClassInv, Undisturbed, Whole, Step
  <2> QED
    BY <2>3, <2>4
<1>h. CASE C!Failed(e)
  BY <1>h, <1>2, <1>3 DEF C!Failed, C!Go, C!Answered, C!files, ClassInv, Undisturbed, Whole, Step
<1>i. CASE C!LoadRoster(e)
  BY <1>i, <1>2, <1>4 DEF C!LoadRoster
<1>j. CASE C!SaveRoster(e)
  <2>1. contents' = contents + 1 /\ contents' \in C!Content /\ contents' # 0 /\ roster' = contents'
    BY <1>j, RosterAssumption DEF C!SaveRoster, C!NewRoster, ClassInv
  <2>2. call' \in [Editor -> Call]
    BY <1>j, <1>2, DisturbedCalls DEF C!SaveRoster
  <2>3. /\ call'[e] = C!NoCall
        /\ \A o \in Editor \ {e} : call'[o] = C!Disturbed(e)[o]
    BY <1>j, DisturbedCalls DEF C!SaveRoster
  <2>4. /\ step' = [step EXCEPT ![e] = "idle"] /\ metadata' = metadata
        /\ answer' = [o \in Editor |-> IF o = e THEN answer[o] ELSE "none"] /\ step[e] = "staged"
    BY <1>j DEF C!SaveRoster, C!NewRoster, C!Go, C!Silent
  <2> QED
    <3>1. Undisturbed(e)' /\ Whole(e)'
      BY <2>1, <2>3, <2>4, <1>2, <1>3 DEF ClassInv, Undisturbed, Whole, Step
    <3>2. \A o \in Editor \ {e} : Undisturbed(o)' /\ Whole(o)'
      BY <2>3, <2>4, <1>3, <1>5 DEF ClassInv
    <3> QED
      BY <2>1, <2>2, <2>4, <3>1, <3>2 DEF ClassInv, Step
<1>k. CASE C!GiveUp(e)
  BY <1>k, <1>2, <1>3 DEF C!GiveUp, C!Go, C!files, ClassInv, Undisturbed, Whole, Step
<1> QED
  BY <1>1, <1>a, <1>b, <1>c, <1>d, <1>e, <1>f, <1>g, <1>h, <1>i, <1>j, <1>k

LEMMA ClassHolds == ASSUME ClassInv PROVE C!TypeOK /\ C!CreationIsWhole
BY DEF ClassInv, Whole, Step, Call, C!TypeOK, C!CreationIsWhole

-----------------------------------------------------------------------------
(***************************************************************************)
(* The reports.                                                            *)
(***************************************************************************)
LEMMA ReportsAssumption ==
  MaxExports \in Nat /\ MaxEdits \in Nat /\ Record \subseteq P!Records /\ Roll \in Seq(P!Student)
BY MCWorkspaceAssumption

-----------------------------------------------------------------------------
(* A snapshot *)

\* What a snapshot holds of its students.
Snapshot(n) == IsFiniteSet(DOMAIN n) /\ \A s \in DOMAIN n : n[s] \in P!Records

\* Each student makes progress in one way, and counts for the standard in one way.
LEMMA OneCategory ==
  ASSUME NEW r \in P!Records
  PROVE  /\ P!IsReviewed(r) \/ P!IsInProgress(r) \/ P!IsNotReviewed(r) \/ P!IsReturned(r) \/ P!Attention(r)
         /\ ~(P!IsReviewed(r) /\ (P!IsInProgress(r) \/ P!IsNotReviewed(r) \/ P!IsReturned(r) \/ P!Attention(r)))
         /\ ~(P!IsInProgress(r) /\ (P!IsNotReviewed(r) \/ P!IsReturned(r) \/ P!Attention(r)))
         /\ ~(P!IsNotReviewed(r) /\ (P!IsReturned(r) \/ P!Attention(r)))
         /\ ~(P!IsReturned(r) /\ P!Attention(r))
         /\ P!Rating(r) => ~P!Attention(r)
<1>1. r.submission \in {"none", "orphan", "invalid", "mismatch", "valid"}
      /\ r.review \in {"none", "invalid"} \cup P!State /\ r.returned \in BOOLEAN /\ r.rated \in BOOLEAN
  BY DEF P!Records
<1>2. P!ReviewValid(r) => ~P!Attention(r)
  BY <1>1 DEF P!ReviewValid, P!Attention, P!Warnings, P!State, P!Returned
<1>3. "not_started" \notin P!RatedStates
  BY DEF P!RatedStates, P!ComposedStates
<1> QED
  BY <1>1, <1>2, <1>3 DEF P!IsReviewed, P!IsInProgress, P!IsNotReviewed, P!IsReturned, P!Rating,
       P!ReviewValid

\* The reports decide alike who is rated and who was returned.
LEMMA OneRating ==
  ASSUME NEW r \in P!Records
  PROVE  /\ P!PerformanceRated(r) <=> ~P!IsReturned(r) /\ ~P!Attention(r) /\ P!Rating(r)
         /\ P!PerformanceRated(r) <=> P!ReviewValid(r) /\ ~r.returned /\ r.rated
         /\ P!PerformanceRated(r) <=> P!ReportRated(r)
         /\ P!PerformanceRated(r) => P!ClassRated(r)
         /\ P!ClassRated(r) <=> P!ManifestRated(r)
         /\ P!ReviewValid(r) /\ r.returned <=> P!IsReturned(r)
         /\ P!ReviewValid(r) /\ ~r.returned /\ ~r.rated => ~P!IsReturned(r) /\ ~P!Attention(r) /\ ~P!Rating(r)
         /\ (P!ReportStatus(r) = "Returned") <=> (P!PerformanceStatus(r) = "Returned")
         /\ ~P!IsReturned(r) /\ P!Attention(r) <=> P!Attention(r)
<1>1. r.submission \in {"none", "orphan", "invalid", "mismatch", "valid"}
      /\ r.review \in {"none", "invalid"} \cup P!State /\ r.returned \in BOOLEAN /\ r.rated \in BOOLEAN
  BY DEF P!Records
<1>2. P!ReviewValid(r) => ~P!Attention(r)
  BY <1>1 DEF P!ReviewValid, P!Attention, P!Warnings, P!State, P!Returned
<1>3. /\ P!PerformanceRated(r) <=> P!ReviewValid(r) /\ ~r.returned /\ r.rated
      /\ P!PerformanceRated(r) <=> ~P!IsReturned(r) /\ ~P!Attention(r) /\ P!Rating(r)
      /\ P!PerformanceRated(r) <=> P!ReportRated(r)
      /\ P!PerformanceRated(r) => P!ClassRated(r)
      /\ P!ClassRated(r) <=> P!ManifestRated(r)
  BY <1>1, <1>2 DEF P!PerformanceRated, P!ReportRated, P!ClassRated, P!ManifestRated, P!Rating,
       P!IsReturned
<1>4. /\ P!ReviewValid(r) /\ r.returned <=> P!IsReturned(r)
      /\ P!ReviewValid(r) /\ ~r.returned /\ ~r.rated => ~P!IsReturned(r) /\ ~P!Attention(r) /\ ~P!Rating(r)
      /\ ~P!IsReturned(r) /\ P!Attention(r) <=> P!Attention(r)
  BY <1>1, <1>2 DEF P!IsReturned, P!Rating
<1>5. (P!ReportStatus(r) = "Returned") <=> P!IsReturned(r)
  BY <1>1, <1>2 DEF P!ReportStatus, P!IsReturned, P!ReviewValid, P!State, P!Returned
<1>6. (P!PerformanceStatus(r) = "Returned") <=> P!IsReturned(r)
  <2>1. CASE r.submission = "valid"
    BY <1>1, <2>1 DEF P!PerformanceStatus, P!IsReturned, P!ReviewValid, P!State, P!Returned
  <2>2. CASE r.submission # "valid"
    BY <1>1, <2>2 DEF P!PerformanceStatus, P!IsReturned, P!ReviewValid
  <2> QED
    BY <2>1, <2>2
<1> QED
  BY <1>3, <1>4, <1>5, <1>6

\* A finite set that is split in two.
LEMMA Split ==
  ASSUME NEW Q, IsFiniteSet(Q), NEW A, NEW Z, A \cup Z = Q, A \cap Z = {}
  PROVE  Cardinality(Q) = Cardinality(A) + Cardinality(Z)
<1>1. IsFiniteSet(A) /\ IsFiniteSet(Z)
  <2>1. A \subseteq Q /\ Z \subseteq Q
    OBVIOUS
  <2> QED
    BY <2>1, FS_Subset
<1>2. Cardinality(A \cup Z) = Cardinality(A) + Cardinality(Z) - Cardinality(A \cap Z)
  BY <1>1, FS_Union
<1>3. Cardinality(A \cap Z) = 0 /\ Cardinality(A) \in Nat /\ Cardinality(Z) \in Nat
  BY <1>1, FS_EmptySet, FS_CardinalityType
<1>4. Cardinality(Q) = Cardinality(A) + Cardinality(Z) - Cardinality(A \cap Z)
  BY <1>2
<1> QED
  BY <1>3, <1>4

\* The module of the reports counts as this one does.
LEMMA Counting == \A A : P!Cardinality(A) = Cardinality(A)
BY DEF P!Cardinality, Cardinality

LEMMA SnapshotsAgree ==
  ASSUME NEW n, Snapshot(n)
  PROVE  LET whole == P!AssignmentSummary(n)
             one == P!StandardSummary(n)
             row == P!StandardsRow(n)
         IN /\ whole.expected = whole.reviewed + whole.in_progress + whole.not_reviewed + whole.returned + whole.attention
            /\ whole.expected = one.rated + one.unrated + one.returned + one.excluded
            /\ one.rated = row.rated /\ one.returned = row.returned /\ row.missing <= one.unrated
            /\ one.rated = P!Count(n, P!PerformanceRated)
            /\ \A s \in DOMAIN n : /\ P!PerformanceRated(n[s]) = P!ReportRated(n[s])
                                   /\ P!PerformanceRated(n[s]) => P!ClassRated(n[s])
                                   /\ P!ClassRated(n[s]) = P!ManifestRated(n[s])
                                   /\ (P!ReportStatus(n[s]) = "Returned") = (P!PerformanceStatus(n[s]) = "Returned")
<1> DEFINE D == DOMAIN n
           Re == {s \in D : P!IsReviewed(n[s])}
           Ip == {s \in D : P!IsInProgress(n[s])}
           Nr == {s \in D : P!IsNotReviewed(n[s])}
           Rt == {s \in D : P!IsReturned(n[s])}
           Att == {s \in D : P!Attention(n[s])}
           Rated == {s \in D : ~P!IsReturned(n[s]) /\ ~P!Attention(n[s]) /\ P!Rating(n[s])}
           Excluded == {s \in D : ~P!IsReturned(n[s]) /\ P!Attention(n[s])}
           Unrated == {s \in D : ~P!IsReturned(n[s]) /\ ~P!Attention(n[s]) /\ ~P!Rating(n[s])}
           RowRated == {s \in D : P!ReviewValid(n[s]) /\ ~n[s].returned /\ n[s].rated}
           RowReturned == {s \in D : P!ReviewValid(n[s]) /\ n[s].returned}
           Missing == {s \in D : P!ReviewValid(n[s]) /\ ~n[s].returned /\ ~n[s].rated}
           Shown == {s \in D : P!PerformanceRated(n[s])}
<1>1. P!AssignmentSummary(n) =
        [expected |-> Cardinality(D), reviewed |-> Cardinality(Re), in_progress |-> Cardinality(Ip),
         not_reviewed |-> Cardinality(Nr), returned |-> Cardinality(Rt), attention |-> Cardinality(Att)]
  BY Counting DEF P!AssignmentSummary, P!Count
<1>2. P!StandardSummary(n) =
        [rated |-> Cardinality(Rated), returned |-> Cardinality(Rt),
         excluded |-> Cardinality(Excluded), unrated |-> Cardinality(Unrated)]
  BY Counting DEF P!StandardSummary, P!Count
<1>3. P!StandardsRow(n) =
        [rated |-> Cardinality(RowRated), returned |-> Cardinality(RowReturned),
         missing |-> Cardinality(Missing)]
  BY Counting DEF P!StandardsRow, P!Count
<1>4. P!Count(n, P!PerformanceRated) = Cardinality(Shown)
  BY Counting DEF P!Count
<1>5. \A s \in D : n[s] \in P!Records
  BY DEF Snapshot
<1>6. Rated = RowRated /\ Rt = RowReturned /\ Rated = Shown /\ Missing \subseteq Unrated
  BY <1>5, OneRating
<1>7. IsFiniteSet(D) /\ \A Q \in SUBSET D : IsFiniteSet(Q) /\ Cardinality(Q) \in Nat
  BY FS_Subset, FS_CardinalityType DEF Snapshot
<1>8. Cardinality(D) = Cardinality(Re) + Cardinality(Ip) + Cardinality(Nr) + Cardinality(Rt)
                       + Cardinality(Att)
  <2> DEFINE A1 == Ip \cup Nr \cup Rt \cup Att
             A2 == Nr \cup Rt \cup Att
             A3 == Rt \cup Att
  <2>1. /\ Re \cap A1 = {} /\ Ip \cap A2 = {} /\ Nr \cap A3 = {} /\ Rt \cap Att = {}
        /\ D \subseteq Re \cup A1 /\ Re \cup A1 \subseteq D
    BY <1>5, OneCategory
  <2>2. A1 = Ip \cup A2 /\ A2 = Nr \cup A3 /\ A3 = Rt \cup Att
    OBVIOUS
  <2>3. \A Q \in {D, A1, A2, A3, Re, Ip, Nr, Rt, Att} : IsFiniteSet(Q) /\ Cardinality(Q) \in Nat
    BY <1>7
  <2> HIDE DEF A1, A2, A3, D, Re, Ip, Nr, Rt, Att
  <2>4. Cardinality(D) = Cardinality(Re) + Cardinality(A1)
    <3>1. Re \cup A1 = D
      BY <2>1
    <3> QED
      BY <2>1, <2>3, <3>1, Split
  <2>5. Cardinality(A1) = Cardinality(Ip) + Cardinality(A2)
    <3>1. A1 = Ip \cup A2 /\ IsFiniteSet(A1) /\ Ip \cap A2 = {}
      BY <2>1, <2>2, <2>3
    <3> QED
      BY <3>1, Split
  <2>6. Cardinality(A2) = Cardinality(Nr) + Cardinality(A3)
    <3>1. A2 = Nr \cup A3 /\ IsFiniteSet(A2) /\ Nr \cap A3 = {}
      BY <2>1, <2>2, <2>3
    <3> QED
      BY <3>1, Split
  <2>7. Cardinality(A3) = Cardinality(Rt) + Cardinality(Att)
    BY <2>1, <2>2, <2>3, Split
  <2> QED
    BY <2>3, <2>4, <2>5, <2>6, <2>7
<1>9. Cardinality(D) = Cardinality(Rated) + Cardinality(Unrated) + Cardinality(Rt)
                       + Cardinality(Excluded)
  <2> DEFINE A1 == Unrated \cup Rt \cup Excluded
             A2 == Rt \cup Excluded
  <2>1. /\ Rated \cup A1 = D /\ Rated \cap A1 = {} /\ Unrated \cap A2 = {}
        /\ Rt \cap Excluded = {} /\ A1 = Unrated \cup A2
    OBVIOUS
  <2>2. \A Q \in {D, A1, A2, Rated, Unrated, Rt, Excluded} : IsFiniteSet(Q) /\ Cardinality(Q) \in Nat
    BY <1>7
  <2> HIDE DEF A1, D, Rated, Unrated, Rt, Excluded
  <2>3. Cardinality(D) = Cardinality(Rated) + Cardinality(A1)
    BY <2>1, <2>2, Split
  <2>4. Cardinality(A1) = Cardinality(Unrated) + Cardinality(A2)
    BY <2>1, <2>2, Split
  <2>5. Cardinality(A2) = Cardinality(Rt) + Cardinality(Excluded)
    BY <2>1, <2>2, Split
  <2> QED
    BY <2>2, <2>3, <2>4, <2>5
<1>10. Cardinality(Missing) <= Cardinality(Unrated)
  BY <1>6, <1>7, FS_Subset
<1>11. \A s \in D : /\ P!PerformanceRated(n[s]) = P!ReportRated(n[s])
                    /\ P!PerformanceRated(n[s]) => P!ClassRated(n[s])
                    /\ P!ClassRated(n[s]) = P!ManifestRated(n[s])
                    /\ (P!ReportStatus(n[s]) = "Returned") = (P!PerformanceStatus(n[s]) = "Returned")
  <2> TAKE s \in D
  <2>1. n[s] \in P!Records
    BY <1>5
  <2>2. /\ P!PerformanceRated(n[s]) <=> P!ReportRated(n[s])
        /\ P!PerformanceRated(n[s]) => P!ClassRated(n[s])
        /\ P!ClassRated(n[s]) <=> P!ManifestRated(n[s])
        /\ (P!ReportStatus(n[s]) = "Returned") <=> (P!PerformanceStatus(n[s]) = "Returned")
    BY <2>1, OneRating
  <2>3. P!PerformanceRated(n[s]) \in BOOLEAN /\ P!ReportRated(n[s]) \in BOOLEAN
    BY <2>1 DEF P!PerformanceRated, P!ReportRated, P!Rating, P!ReviewValid, P!IsReturned, P!Records
  <2>4. P!ClassRated(n[s]) = P!ManifestRated(n[s])
    BY DEF P!ClassRated, P!ManifestRated
  <2>5. P!PerformanceRated(n[s]) = P!ReportRated(n[s])
    BY <2>2, <2>3
  <2> QED
    BY <2>2, <2>4, <2>5
<1> HIDE DEF D, Re, Ip, Nr, Rt, Att, Rated, Unrated, Excluded, RowRated, RowReturned, Missing, Shown
<1> QED
  BY <1>1, <1>2, <1>3, <1>4, <1>6, <1>8, <1>9, <1>10, <1>11 DEF D

-----------------------------------------------------------------------------
(* The exports *)

Lists == {P!Reports, <<"performance">>, <<"class">>, <<"standards">>, <<"report">>, <<"manifest">>}

Loaded == UNION {[Q -> P!Records] : Q \in SUBSET P!Student}

ReportJob == [export : 0 .. MaxExports, reports : Lists \cup {<<>>}, overwrite : BOOLEAN,
        loaded : Loaded, students : SUBSET P!Student, done : 0 .. 5, inventory : SUBSET P!ReportIn]
ReportTold == [answer : {"none", "refused", "failed", "ok"}, reports : Lists \cup {<<>>},
         done : 0 .. 5, inventory : SUBSET P!ReportIn]

ReportsTyped ==
  /\ enrolled \subseteq P!Student /\ available \in BOOLEAN
  /\ record \in [P!Student -> P!Records] /\ edits \in 0 .. MaxEdits
  /\ file \in [P!ReportIn -> 0 .. MaxExports] /\ exports \in 0 .. MaxExports
  /\ stage \in [Reporter -> {"idle", "load", "write"}] /\ job \in [Reporter -> ReportJob]
  /\ told \in [P!Export -> ReportTold] /\ replaced \subseteq P!ReportIn \X (0 .. MaxExports)

\* What the export x has written of its reports is there or was replaced, and
\* what comes after the next one is not its own.
Written(x, list, done, files, old) ==
  /\ done <= Len(list)
  /\ \A i \in DOMAIN list :
       /\ i <= done => files[list[i]] = x \/ <<list[i], x>> \in old
       /\ i > done + 1 => files[list[i]] # x

Complete(list, done, inventory) ==
  list = P!Reports /\ done = 5 => inventory = P!ReportIn

Working(e) ==
  stage[e] # "idle" =>
    LET j == job[e] IN
    /\ j.export \in 1 .. exports /\ j.reports \in Lists /\ told[j.export] = P!NotTold
    /\ stage[e] = "load" => j.done = 0
    /\ stage[e] = "write" => DOMAIN j.loaded = j.students
    /\ DOMAIN j.loaded \subseteq j.students
    /\ Written(j.export, j.reports, j.done, file, replaced)
    /\ \A i \in DOMAIN j.reports :
         /\ i <= j.done => file[j.reports[i]] # 0
         /\ i > j.done => file[j.reports[i]] # j.export
    /\ Complete(j.reports, j.done, j.inventory)

Stands(x) ==
  /\ Written(x, told[x].reports, told[x].done, file, replaced)
  /\ told[x].answer = "ok" /\ told[x].reports = P!Reports => told[x].inventory = P!ReportIn
  /\ x > exports => told[x] = P!NotTold /\ \A r \in P!ReportIn : file[r] # x

ReportsInv ==
  /\ ReportsTyped
  /\ \A e \in Reporter : /\ Working(e)
                         /\ stage[e] = "idle" => job[e] = P!NoJob
  /\ \A x \in P!Export : Stands(x)
  /\ \A e, d \in Reporter :
       e # d /\ stage[e] # "idle" /\ stage[d] # "idle" => job[e].export # job[d].export

LEMMA ReportLists ==
  ASSUME NEW l \in Lists \cup {<<>>}
  PROVE  /\ Len(l) \in 0 .. 5 /\ DOMAIN l = 1 .. Len(l) /\ l \in Seq(P!ReportIn)
         /\ \A i \in DOMAIN l : l[i] \in P!ReportIn
         /\ \A i, j \in DOMAIN l : l[i] = l[j] => i = j
<1>1. P!Reports = <<"performance", "class", "standards", "report", "manifest">>
      /\ P!ReportIn = {"performance", "class", "standards", "report", "manifest"}
  <2>1. DOMAIN P!Reports = 1 .. 5
    BY DEF P!Reports
  <2>2. P!Reports[1] = "performance" /\ P!Reports[2] = "class" /\ P!Reports[3] = "standards"
        /\ P!Reports[4] = "report" /\ P!Reports[5] = "manifest"
    BY DEF P!Reports
  <2>3. \A i \in 1 .. 5 : i = 1 \/ i = 2 \/ i = 3 \/ i = 4 \/ i = 5
    OBVIOUS
  <2>4. P!ReportIn = {"performance", "class", "standards", "report", "manifest"}
    BY <2>1, <2>2, <2>3 DEF P!ReportIn
  <2> QED
    BY <2>4 DEF P!Reports
<1>2. CASE l = P!Reports
  BY <1>1, <1>2
<1>3. CASE l = <<>>
  BY <1>3
<1>4. CASE \E r \in P!ReportIn : l = <<r>>
  BY <1>4
<1> QED
  BY <1>1, <1>2, <1>3, <1>4 DEF Lists

LEMMA ReportsStart == ASSUME P!Init PROVE ReportsInv
<1>1. <<>> \in Loaded
  <2>1. <<>> \in [{} -> P!Records]
    OBVIOUS
  <2> QED
    BY <2>1 DEF Loaded
<1>2. P!NoJob \in ReportJob /\ P!NotTold \in ReportTold /\ P!NotTold.reports = <<>> /\ P!NotTold.done = 0
      /\ P!NotTold.answer = "none"
  BY <1>1, ReportsAssumption DEF P!NoJob, P!NotTold, ReportJob, ReportTold
<1>3. ReportsTyped
  <2>1. record \in [P!Student -> P!Records]
    BY ReportsAssumption DEF P!Init
  <2>2. file \in [P!ReportIn -> 0 .. MaxExports] /\ 0 \in 0 .. MaxEdits /\ 0 \in 0 .. MaxExports
    BY ReportsAssumption DEF P!Init
  <2> QED
    BY <1>2, <2>1, <2>2 DEF P!Init, ReportsTyped
<1>4. ASSUME NEW x \in P!Export PROVE Stands(x)
  <2>1. x # 0 /\ DOMAIN <<>> = {} /\ Len(<<>>) = 0
    BY ReportsAssumption DEF P!Export
  <2>2. told[x] = P!NotTold /\ \A r \in P!ReportIn : file[r] = 0
    BY DEF P!Init
  <2> QED
    BY <1>2, <2>1, <2>2 DEF Stands, Written
<1> QED
  BY <1>3, <1>4 DEF P!Init, ReportsInv, Working

\* Export x is installed at r, over nothing or over what is counted as replaced.
Puts(x, r) ==
  /\ r \in P!ReportIn /\ x \in 1 .. exports
  /\ file' = [file EXCEPT ![r] = x]
  /\ replaced \subseteq replaced' /\ replaced' \subseteq P!ReportIn \X (0 .. MaxExports)
  /\ file[r] = 0 \/ <<r, file[r]>> \in replaced'

\* Files are left alone, or one is put there.
Files(x) == UNCHANGED <<file, replaced>> \/ \E r \in P!ReportIn : Puts(x, r)

LEMMA FilesKeep ==
  ASSUME ReportsInv, NEW x, Files(x), x \in Nat
  PROVE  /\ file' \in [P!ReportIn -> 0 .. MaxExports]
         /\ replaced' \subseteq P!ReportIn \X (0 .. MaxExports)
         /\ \A r \in P!ReportIn : file[r] # 0 => file'[r] # 0
         /\ \A y \in Nat \ {0, x}, r \in P!ReportIn :
              /\ file[r] # y => file'[r] # y
              /\ file[r] = y \/ <<r, y>> \in replaced => file'[r] = y \/ <<r, y>> \in replaced'
<1>0. file \in [P!ReportIn -> 0 .. MaxExports] /\ replaced \subseteq P!ReportIn \X (0 .. MaxExports)
      /\ exports \in 0 .. MaxExports
  BY DEF ReportsInv, ReportsTyped
<1>1. CASE UNCHANGED <<file, replaced>>
  BY <1>0, <1>1
<1>2. ASSUME NEW r \in P!ReportIn, Puts(x, r)
      PROVE  /\ file' \in [P!ReportIn -> 0 .. MaxExports]
             /\ replaced' \subseteq P!ReportIn \X (0 .. MaxExports)
             /\ \A q \in P!ReportIn : file[q] # 0 => file'[q] # 0
             /\ \A y \in Nat \ {0, x}, q \in P!ReportIn :
                  /\ file[q] # y => file'[q] # y
                  /\ file[q] = y \/ <<q, y>> \in replaced => file'[q] = y \/ <<q, y>> \in replaced'
  <2>1. x \in 0 .. MaxExports /\ x # 0
    BY <1>0, <1>2, ReportsAssumption DEF Puts
  <2>2. file' \in [P!ReportIn -> 0 .. MaxExports] /\ \A q \in P!ReportIn : file[q] # 0 => file'[q] # 0
    BY <1>0, <1>2, <2>1 DEF Puts
  <2>3. \A q \in P!ReportIn : file'[q] = IF q = r THEN x ELSE file[q]
    BY <1>0, <1>2 DEF Puts
  <2> QED
    BY <1>2, <2>2, <2>3 DEF Puts
<1> QED
  BY <1>1, <1>2 DEF Files

LEMMA WrittenStays ==
  ASSUME ReportsInv, NEW x, x \in Nat, Files(x), NEW y \in Nat \ {0, x},
         NEW l \in Lists \cup {<<>>}, NEW done \in 0 .. 5, Written(y, l, done, file, replaced)
  PROVE  Written(y, l, done, file', replaced')
BY FilesKeep, ReportLists DEF Written

\* A step of e: the other sessions and what is told of other exports stay.
LEMMA OthersStay ==
  ASSUME ReportsInv, NEW e \in Reporter, NEW x, x \in Nat, Files(x),
         \A d \in Reporter \ {e} : stage'[d] = stage[d] /\ job'[d] = job[d],
         \A d \in Reporter \ {e} : stage[d] # "idle" => job[d].export # x,
         exports' \in Nat, exports <= exports', \A y \in P!Export \ {x} : told'[y] = told[y]
  PROVE  /\ \A d \in Reporter \ {e} : /\ Working(d)'
                                      /\ stage'[d] = "idle" => job'[d] = P!NoJob
         /\ \A y \in P!Export \ {x} : Stands(y)'
<1>1. ASSUME NEW d \in Reporter \ {e} PROVE Working(d)'
  <2> SUFFICES ASSUME stage[d] # "idle" PROVE Working(d)'
    BY DEF Working
  <2>1. Working(d) /\ job[d] \in ReportJob /\ job'[d] = job[d] /\ stage'[d] = stage[d]
    BY DEF ReportsInv, ReportsTyped
  <2>2. /\ job[d].export \in 1 .. exports /\ job[d].export \in Nat \ {0, x}
        /\ job[d].reports \in Lists /\ job[d].done \in 0 .. 5 /\ exports \in Nat
    BY <2>1 DEF Working, ReportJob, ReportsInv, ReportsTyped
  <2>3. job[d].export \in 1 .. exports'
    BY <2>2
  <2>4. Written(job[d].export, job[d].reports, job[d].done, file', replaced')
    BY <2>1, <2>2, WrittenStays DEF Working
  <2>5. \A i \in DOMAIN job[d].reports :
          /\ i <= job[d].done => file'[job[d].reports[i]] # 0
          /\ i > job[d].done => file'[job[d].reports[i]] # job[d].export
    <3>1. \A i \in DOMAIN job[d].reports : job[d].reports[i] \in P!ReportIn
      BY <2>2, ReportLists
    <3>2. \A i \in DOMAIN job[d].reports :
            /\ i <= job[d].done => file[job[d].reports[i]] # 0
            /\ i > job[d].done => file[job[d].reports[i]] # job[d].export
      BY <2>1 DEF Working
    <3> QED
      BY <2>2, <3>1, <3>2, FilesKeep
  <2>6. told'[job[d].export] = P!NotTold
    <3>1. job[d].export \in P!Export \ {x} /\ told[job[d].export] = P!NotTold
      <4>1. exports \in 0 .. MaxExports
        BY DEF ReportsInv, ReportsTyped
      <4>2. job[d].export \in 1 .. MaxExports
        BY <2>2, <4>1, ReportsAssumption
      <4> QED
        BY <2>1, <2>2, <4>2 DEF Working, P!Export
    <3> QED
      BY <3>1
  <2> QED
    BY <2>1, <2>2, <2>3, <2>4, <2>5, <2>6 DEF Working
<1>2. ASSUME NEW y \in P!Export \ {x} PROVE Stands(y)'
  <2>1. Stands(y) /\ told[y] \in ReportTold /\ y \in Nat \ {0, x} /\ exports \in Nat
    BY ReportsAssumption DEF ReportsInv, ReportsTyped, P!Export
  <2>2. told[y].reports \in Lists \cup {<<>>} /\ told[y].done \in 0 .. 5
    BY <2>1 DEF ReportTold
  <2>3. Written(y, told[y].reports, told[y].done, file', replaced')
    BY <2>1, <2>2, WrittenStays DEF Stands
  <2>4. y > exports' => told'[y] = P!NotTold /\ \A r \in P!ReportIn : file'[r] # y
    <3>1. y > exports' => y > exports
      BY <2>1
    <3>2. y > exports' => told[y] = P!NotTold /\ \A r \in P!ReportIn : file[r] # y
      BY <2>1, <3>1 DEF Stands
    <3> QED
      BY <2>1, <3>2, FilesKeep
  <2> QED
    BY <2>1, <2>3, <2>4 DEF Stands
<1>3. \A d \in Reporter \ {e} : stage'[d] = "idle" => job'[d] = P!NoJob
  BY DEF ReportsInv
<1> QED
  BY <1>1, <1>2, <1>3

\* The invariant after a step of e with its export x, once its own part is known.
LEMMA ExportStepOf ==
  ASSUME ReportsInv, NEW e \in Reporter, NEW x \in P!Export, Files(x),
         \A d \in Reporter \ {e} : stage'[d] = stage[d] /\ job'[d] = job[d],
         \A d \in Reporter \ {e} : stage[d] # "idle" => job[d].export # x,
         exports' \in Nat, exports <= exports', ReportsTyped', Working(e)',
         stage'[e] = "idle" => job'[e] = P!NoJob, stage'[e] # "idle" => job'[e].export = x,
         \A y \in P!Export \ {x} : told'[y] = told[y], Stands(x)'
  PROVE  ReportsInv'
<1>1. x \in Nat
  BY ReportsAssumption DEF P!Export
<1>2. /\ \A d \in Reporter : /\ Working(d)'
                             /\ stage'[d] = "idle" => job'[d] = P!NoJob
      /\ \A y \in P!Export : Stands(y)'
  BY <1>1, OthersStay
<1>3. ASSUME NEW d \in Reporter, NEW c \in Reporter, c # d, stage'[c] # "idle", stage'[d] # "idle"
      PROVE  job'[c].export # job'[d].export
  <2>1. CASE c # e /\ d # e
    BY <1>3, <2>1 DEF ReportsInv
  <2>2. CASE c = e
    BY <1>3, <2>2
  <2>3. CASE d = e
    BY <1>3, <2>3
  <2> QED
    BY <2>1, <2>2, <2>3
<1> QED
  BY <1>2, <1>3 DEF ReportsInv

\* What is known of a session with an export at hand.
LEMMA AtHand ==
  ASSUME ReportsInv, NEW e \in Reporter, stage[e] # "idle"
  PROVE  /\ job[e] \in ReportJob /\ job[e].export \in P!Export /\ job[e].export \in 1 .. exports
         /\ job[e].reports \in Lists /\ Working(e) /\ exports \in Nat /\ exports <= MaxExports
         /\ \A d \in Reporter \ {e} : stage[d] # "idle" => job[d].export # job[e].export
<1>1. job[e] \in ReportJob /\ Working(e) /\ exports \in 0 .. MaxExports
  BY DEF ReportsInv, ReportsTyped
<1>2. job[e].export \in 1 .. exports /\ job[e].reports \in Lists
  BY <1>1 DEF Working
<1>3. exports \in Nat /\ exports <= MaxExports /\ job[e].export \in P!Export
  BY <1>1, <1>2, ReportsAssumption DEF P!Export
<1> QED
  BY <1>1, <1>2, <1>3 DEF ReportsInv

LEMMA BeginKeeps ==
  ASSUME ReportsInv, NEW e \in Reporter, NEW l \in Lists, P!Begin(e, l)
  PROVE  ReportsInv'
<1>0. SUFFICES ASSUME NEW x, x = exports + 1 PROVE ReportsInv'
  OBVIOUS
<1>1. exports \in Nat /\ exports < MaxExports /\ x \in P!Export /\ exports' = x /\ x \in 0 .. MaxExports
      /\ x \in 1 .. x /\ x > exports /\ stage[e] = "idle"
  BY <1>0, ReportsAssumption DEF P!Begin, ReportsInv, ReportsTyped, P!Export
<1>2. PICK o \in BOOLEAN :
        job' = [job EXCEPT ![e] = [P!NoJob EXCEPT !.export = x, !.reports = l, !.overwrite = o,
                                                !.students = P!Discovered]]
  BY <1>0 DEF P!Begin
<1>3. /\ stage' = [stage EXCEPT ![e] = "load"]
      /\ UNCHANGED <<enrolled, available, record, edits, file, told, replaced>>
  BY DEF P!Begin, P!Go, P!records
<1> DEFINE new == [export |-> x, reports |-> l, overwrite |-> o, loaded |-> <<>>,
                   students |-> P!Discovered, done |-> 0, inventory |-> {}]
<1>4. P!Discovered \in SUBSET P!Student
  BY DEF P!Discovered, ReportsInv, ReportsTyped
<1>5. <<>> \in Loaded /\ DOMAIN <<>> = {}
  <2>1. <<>> \in [{} -> P!Records]
    OBVIOUS
  <2> QED
    BY <2>1 DEF Loaded
<1>6. new \in ReportJob
  BY <1>1, <1>4, <1>5 DEF ReportJob
<1>7. job' = [job EXCEPT ![e] = new]
  <2>1. [P!NoJob EXCEPT !.export = x, !.reports = l, !.overwrite = o, !.students = P!Discovered] = new
    <3>1. P!NoJob \in ReportJob
      BY <1>5, ReportsAssumption DEF P!NoJob, ReportJob
    <3>2. P!NoJob.loaded = <<>> /\ P!NoJob.done = 0 /\ P!NoJob.inventory = {}
      BY DEF P!NoJob
    <3> DEFINE old == [P!NoJob EXCEPT !.export = x, !.reports = l, !.overwrite = o, !.students = P!Discovered]
    <3>3. /\ old.export = x /\ old.reports = l /\ old.overwrite = o /\ old.students = P!Discovered
          /\ old.loaded = <<>> /\ old.done = 0 /\ old.inventory = {}
      BY <3>1, <3>2 DEF ReportJob
    <3>4. old \in ReportJob
      BY <1>1, <1>4, <3>1 DEF ReportJob
    <3>5. old = [export |-> old.export, reports |-> old.reports, overwrite |-> old.overwrite,
                 loaded |-> old.loaded, students |-> old.students, done |-> old.done,
                 inventory |-> old.inventory]
      <4> HIDE DEF old
      <4> QED
        BY <3>4 DEF ReportJob
    <3> HIDE DEF old
    <3>6. old = new
      BY <3>3, <3>5
    <3> QED
      BY <3>6 DEF old
  <2> QED
    BY <1>2, <2>1, Zenon
<1>8. /\ stage'[e] = "load" /\ job'[e] = new
      /\ \A d \in Reporter \ {e} : stage'[d] = stage[d] /\ job'[d] = job[d]
  BY <1>3, <1>7 DEF ReportsInv, ReportsTyped
<1>9. ReportsTyped'
  <2>1. job' \in [Reporter -> ReportJob] /\ stage' \in [Reporter -> {"idle", "load", "write"}]
    BY <1>3, <1>6, <1>7 DEF ReportsInv, ReportsTyped
  <2>2. exports' \in 0 .. MaxExports
    BY <1>1
  <2> HIDE DEF new
  <2> QED
    BY <1>3, <2>1, <2>2 DEF ReportsInv, ReportsTyped
<1>10. Stands(x) /\ told[x] \in ReportTold
  BY <1>1 DEF ReportsInv, ReportsTyped
<1>11. Stands(x)'
  <2>1. ~(x > exports')
    BY <1>1
  <2> QED
    BY <1>3, <1>10, <2>1 DEF Stands
<1>12. Working(e)'
  <2>1. \A i \in DOMAIN l : l[i] \in P!ReportIn /\ i > 0
    BY ReportLists
  <2>2. \A r \in P!ReportIn : file[r] # x
    BY <1>1, <1>10 DEF Stands
  <2>3. Written(x, l, 0, file', replaced')
    BY <1>3, <2>1, <2>2, ReportLists DEF Written
  <2>4. \A i \in DOMAIN l : ~(i <= 0) /\ file'[l[i]] # x
    BY <1>3, <2>1, <2>2, ReportLists
  <2>5. /\ job'[e].export = x /\ job'[e].reports = l /\ job'[e].done = 0 /\ job'[e].loaded = <<>>
        /\ job'[e].inventory = {}
    BY <1>8
  <2>6. x \in 1 .. exports'
    BY <1>1
  <2>7. told'[x] = P!NotTold
    BY <1>1, <1>3, <1>10 DEF Stands
  <2> HIDE DEF new
  <2> QED
    BY <1>3, <1>5, <1>8, <2>3, <2>4, <2>5, <2>6, <2>7 DEF Working, Complete
<1>13. /\ exports' \in Nat /\ exports <= exports'
       /\ \A d \in Reporter \ {e} : stage[d] # "idle" => job[d].export # x
  <2>1. \A d \in Reporter : stage[d] # "idle" => job[d].export \in 1 .. exports
    BY DEF ReportsInv, Working
  <2> QED
    BY <1>1, <2>1
<1>14. job'[e].export = x /\ Files(x) /\ told' = told
  BY <1>3, <1>8 DEF Files
<1> HIDE DEF new
<1> QED
  BY <1>1, <1>8, <1>9, <1>11, <1>12, <1>13, <1>14, ExportStepOf

LEMMA LoadKeeps ==
  ASSUME ReportsInv, NEW e \in Reporter, NEW i \in DOMAIN Roll, P!LoadStudent(e, i)
  PROVE  ReportsInv'
<1>0. SUFFICES ASSUME NEW x, x = job[e].export PROVE ReportsInv'
  OBVIOUS
<1>1. /\ job[e] \in ReportJob /\ x \in P!Export /\ x \in 1 .. exports /\ Working(e) /\ exports \in Nat
      /\ \A d \in Reporter \ {e} : stage[d] # "idle" => job[d].export # x
      /\ stage[e] = "load" /\ stage[e] # "idle"
  BY <1>0, AtHand DEF P!LoadStudent
<1> DEFINE more == [s \in DOMAIN job[e].loaded \cup {Roll[i]} |->
                      IF s = Roll[i] THEN record[s] ELSE job[e].loaded[s]]
           new == [job[e] EXCEPT !.loaded = more]
<1>2. /\ job' = [job EXCEPT ![e] = new] /\ Roll[i] \in job[e].students
      /\ UNCHANGED <<enrolled, available, record, edits, file, exports, stage, told, replaced>>
  BY DEF P!LoadStudent, P!records
<1>3. more \in Loaded /\ DOMAIN more \subseteq job[e].students
  <2>1. PICK Q \in SUBSET P!Student : job[e].loaded \in [Q -> P!Records]
    BY <1>1 DEF ReportJob, Loaded
  <2>2. Roll[i] \in P!Student /\ record \in [P!Student -> P!Records]
    BY DEF P!Student, ReportsInv, ReportsTyped
  <2>3. more \in [Q \cup {Roll[i]} -> P!Records]
    BY <2>1, <2>2
  <2>4. Q \cup {Roll[i]} \in SUBSET P!Student
    BY <2>2
  <2>5. DOMAIN more \subseteq job[e].students
    BY <1>1, <1>2 DEF Working
  <2> QED
    BY <2>3, <2>4, <2>5 DEF Loaded
<1> HIDE DEF more
<1>4. /\ new \in ReportJob /\ new.export = x /\ new.reports = job[e].reports /\ new.done = job[e].done
      /\ new.students = job[e].students /\ new.inventory = job[e].inventory /\ new.loaded = more
  BY <1>0, <1>1, <1>3 DEF ReportJob
<1> HIDE DEF new
<1>5. job'[e] = new /\ \A d \in Reporter \ {e} : stage'[d] = stage[d] /\ job'[d] = job[d]
  BY <1>2 DEF ReportsInv, ReportsTyped
<1>6. ReportsTyped'
  BY <1>2, <1>4 DEF ReportsInv, ReportsTyped
<1>7. Stands(x)'
  BY <1>1, <1>2 DEF ReportsInv, Stands
<1>8. Working(e)'
  BY <1>0, <1>1, <1>2, <1>3, <1>4, <1>5 DEF Working
<1>9. Files(x) /\ exports' \in Nat /\ exports <= exports' /\ told' = told
      /\ stage'[e] # "idle" /\ job'[e].export = x
  BY <1>1, <1>2, <1>4, <1>5 DEF Files
<1> QED
  BY <1>1, <1>5, <1>6, <1>7, <1>8, <1>9, ExportStepOf

LEMMA CheckKeeps ==
  ASSUME ReportsInv, NEW e \in Reporter, P!CheckTargets(e)
  PROVE  ReportsInv'
<1>0. SUFFICES ASSUME NEW x, x = job[e].export PROVE ReportsInv'
  OBVIOUS
<1>1. /\ job[e] \in ReportJob /\ x \in P!Export /\ x \in 1 .. exports /\ Working(e) /\ exports \in Nat
      /\ \A d \in Reporter \ {e} : stage[d] # "idle" => job[d].export # x
      /\ stage[e] = "load" /\ stage[e] # "idle"
  BY <1>0, AtHand DEF P!CheckTargets
<1>2. /\ stage' = [stage EXCEPT ![e] = "write"] /\ job[e].students = DOMAIN job[e].loaded
      /\ UNCHANGED <<enrolled, available, record, edits, file, exports, job, told, replaced>>
  BY DEF P!CheckTargets, P!Go, P!records
<1>3. /\ stage'[e] = "write" /\ job'[e] = job[e]
      /\ \A d \in Reporter \ {e} : stage'[d] = stage[d] /\ job'[d] = job[d]
  BY <1>2 DEF ReportsInv, ReportsTyped
<1>4. ReportsTyped'
  BY <1>2 DEF ReportsInv, ReportsTyped
<1>5. Stands(x)'
  BY <1>1, <1>2 DEF ReportsInv, Stands
<1>6. Working(e)'
  BY <1>0, <1>1, <1>2, <1>3 DEF Working
<1>7. Files(x) /\ exports' \in Nat /\ exports <= exports' /\ told' = told
      /\ stage'[e] # "idle" /\ job'[e].export = x
  BY <1>0, <1>1, <1>2, <1>3 DEF Files
<1> QED
  BY <1>1, <1>3, <1>4, <1>5, <1>6, <1>7, ExportStepOf

\* The answer of an export, whose files stand as it says.
LEMMA AnswerKeeps ==
  ASSUME ReportsInv, NEW e \in Reporter, NEW x, x = job[e].export, stage[e] # "idle",
         NEW ans \in {"refused", "failed", "ok"}, P!Answer(e, ans), Files(x),
         UNCHANGED <<enrolled, available, record, edits, exports>>,
         Written(x, job[e].reports, job[e].done, file', replaced'),
         ans = "ok" => job[e].done = Len(job[e].reports)
  PROVE  ReportsInv'
<1>1. /\ job[e] \in ReportJob /\ x \in P!Export /\ x \in 1 .. exports /\ Working(e) /\ exports \in Nat
      /\ \A d \in Reporter \ {e} : stage[d] # "idle" => job[d].export # x
  BY AtHand
<1> DEFINE said == [answer |-> ans, reports |-> job[e].reports, done |-> job[e].done,
                    inventory |-> job[e].inventory]
<1>2. /\ stage' = [stage EXCEPT ![e] = "idle"] /\ job' = [job EXCEPT ![e] = P!NoJob]
      /\ told' = [told EXCEPT ![x] = said]
  BY DEF P!Answer, P!Go
<1>3. /\ said \in ReportTold /\ said.answer = ans /\ said.reports = job[e].reports
      /\ said.done = job[e].done /\ said.inventory = job[e].inventory
  BY <1>1 DEF ReportJob, ReportTold
<1> HIDE DEF said
<1>4. P!NoJob \in ReportJob
  <2>1. <<>> \in [{} -> P!Records]
    OBVIOUS
  <2>2. <<>> \in Loaded
    BY <2>1 DEF Loaded
  <2> QED
    BY <2>2, ReportsAssumption DEF P!NoJob, ReportJob
<1>5. /\ stage'[e] = "idle" /\ job'[e] = P!NoJob /\ told'[x] = said
      /\ \A d \in Reporter \ {e} : stage'[d] = stage[d] /\ job'[d] = job[d]
      /\ \A y \in P!Export \ {x} : told'[y] = told[y]
  BY <1>1, <1>2 DEF ReportsInv, ReportsTyped
<1>6. ReportsTyped'
  <2>1. x \in Nat
    BY <1>1
  <2>2. file' \in [P!ReportIn -> 0 .. MaxExports] /\ replaced' \subseteq P!ReportIn \X (0 .. MaxExports)
    BY <2>1, FilesKeep
  <2>3. stage' \in [Reporter -> {"idle", "load", "write"}] /\ job' \in [Reporter -> ReportJob]
        /\ told' \in [P!Export -> ReportTold]
    BY <1>1, <1>2, <1>3, <1>4 DEF ReportsInv, ReportsTyped
  <2> QED
    BY <2>2, <2>3 DEF ReportsInv, ReportsTyped
<1>7. Stands(x)'
  <2>1. Written(x, said.reports, said.done, file', replaced')
    BY <1>3
  <2>2. said.answer = "ok" /\ said.reports = P!Reports => said.inventory = P!ReportIn
    <3>1. Len(P!Reports) = 5
      BY DEF P!Reports
    <3>2. Complete(job[e].reports, job[e].done, job[e].inventory)
      BY <1>1 DEF Working
    <3> QED
      BY <1>3, <3>1, <3>2 DEF Complete
  <2>3. ~(x > exports')
    BY <1>1
  <2> QED
    BY <1>5, <2>1, <2>2, <2>3 DEF Stands
<1>8. Working(e)' /\ exports' \in Nat /\ exports <= exports'
  BY <1>1, <1>5 DEF Working
<1> QED
  BY <1>1, <1>5, <1>6, <1>7, <1>8, ExportStepOf

LEMMA DieKeeps ==
  ASSUME ReportsInv, NEW e \in Reporter, P!Die(e)
  PROVE  ReportsInv'
<1>0. SUFFICES ASSUME NEW x, x = job[e].export PROVE ReportsInv'
  OBVIOUS
<1>1. /\ job[e] \in ReportJob /\ x \in P!Export /\ x \in 1 .. exports /\ exports \in Nat
      /\ \A d \in Reporter \ {e} : stage[d] # "idle" => job[d].export # x
  BY <1>0, AtHand DEF P!Die
<1>2. /\ stage' = [stage EXCEPT ![e] = "idle"] /\ job' = [job EXCEPT ![e] = P!NoJob]
      /\ UNCHANGED <<enrolled, available, record, edits, file, exports, told, replaced>>
  BY DEF P!Die, P!Go, P!records
<1>3. /\ stage'[e] = "idle" /\ job'[e] = P!NoJob
      /\ \A d \in Reporter \ {e} : stage'[d] = stage[d] /\ job'[d] = job[d]
  BY <1>2 DEF ReportsInv, ReportsTyped
<1>4. P!NoJob \in ReportJob
  <2>1. <<>> \in [{} -> P!Records]
    OBVIOUS
  <2>2. <<>> \in Loaded
    BY <2>1 DEF Loaded
  <2> QED
    BY <2>2, ReportsAssumption DEF P!NoJob, ReportJob
<1>5. ReportsTyped'
  BY <1>2, <1>4 DEF ReportsInv, ReportsTyped
<1>6. Stands(x)'
  BY <1>1, <1>2 DEF ReportsInv, Stands
<1>7. Files(x) /\ exports' \in Nat /\ exports <= exports' /\ Working(e)'
  BY <1>1, <1>2, <1>3 DEF Files, Working
<1> QED
  BY <1>1, <1>2, <1>3, <1>5, <1>6, <1>7, ExportStepOf

\* Installing the next file of e puts it there, and the files so far stand.
LEMMA InstallPuts ==
  ASSUME ReportsInv, NEW e \in Reporter, NEW x, x = job[e].export, P!Install(e)
  PROVE  /\ P!Target(e) \in P!ReportIn /\ Puts(x, P!Target(e)) /\ Files(x)
         /\ job[e].done + 1 \in DOMAIN job[e].reports /\ P!Target(e) = job[e].reports[job[e].done + 1]
         /\ Written(x, job[e].reports, job[e].done, file', replaced')
         /\ Written(x, job[e].reports, job[e].done + 1, file', replaced')
         /\ \A i \in DOMAIN job[e].reports :
              file'[job[e].reports[i]] = IF i = job[e].done + 1 THEN x ELSE file[job[e].reports[i]]
<1>1. /\ job[e] \in ReportJob /\ x \in P!Export /\ x \in 1 .. exports /\ Working(e)
      /\ job[e].reports \in Lists /\ stage[e] = "write"
  BY AtHand DEF P!Install
<1>2. SUFFICES ASSUME NEW l, l = job[e].reports, NEW d, d = job[e].done, NEW t, t = l[d + 1]
      PROVE  /\ t \in P!ReportIn /\ Puts(x, t) /\ Files(x) /\ d + 1 \in DOMAIN l
             /\ Written(x, l, d, file', replaced') /\ Written(x, l, d + 1, file', replaced')
             /\ \A i \in DOMAIN l : file'[l[i]] = IF i = d + 1 THEN x ELSE file[l[i]]
  BY DEF P!Target
<1>3. /\ l \in Lists /\ d \in Nat /\ d < Len(l) /\ Len(l) \in 0 .. 5 /\ DOMAIN l = 1 .. Len(l)
      /\ \A i \in DOMAIN l : l[i] \in P!ReportIn
      /\ \A i, j \in DOMAIN l : l[i] = l[j] => i = j
  BY <1>1, <1>2, ReportLists DEF P!Install, P!Remaining, ReportJob
<1>4. d + 1 \in DOMAIN l /\ t \in P!ReportIn
  BY <1>2, <1>3
<1>5. /\ file' = [file EXCEPT ![t] = x]
      /\ replaced' = IF job[e].overwrite THEN replaced \cup {<<t, file[t]>>} ELSE replaced
      /\ job[e].overwrite \/ file[t] = 0
  BY <1>2 DEF P!Install, P!MayInstall, P!Target
<1>6. file \in [P!ReportIn -> 0 .. MaxExports] /\ replaced \subseteq P!ReportIn \X (0 .. MaxExports)
  BY DEF ReportsInv, ReportsTyped
<1>7. Puts(x, t)
  BY <1>1, <1>4, <1>5, <1>6 DEF Puts
<1>8. \A i \in DOMAIN l : file'[l[i]] = IF i = d + 1 THEN x ELSE file[l[i]]
  BY <1>2, <1>3, <1>4, <1>5, <1>6
<1>9. /\ d <= Len(l)
      /\ \A i \in DOMAIN l : /\ i <= d => file[l[i]] = x \/ <<l[i], x>> \in replaced
                             /\ i > d => file[l[i]] # x
  BY <1>1, <1>2 DEF Working, Written
<1>10. replaced \subseteq replaced'
  BY <1>7 DEF Puts
<1>11. Written(x, l, d, file', replaced') /\ Written(x, l, d + 1, file', replaced')
  BY <1>3, <1>8, <1>9, <1>10 DEF Written
<1> QED
  BY <1>4, <1>7, <1>8, <1>11 DEF Files

LEMMA ReportWriteKeeps ==
  ASSUME ReportsInv, NEW e \in Reporter, P!WriteReport(e)
  PROVE  ReportsInv'
<1>0. SUFFICES ASSUME NEW x, x = job[e].export PROVE ReportsInv'
  OBVIOUS
<1>1. /\ job[e] \in ReportJob /\ x \in P!Export /\ x \in 1 .. exports /\ Working(e) /\ exports \in Nat
      /\ \A d \in Reporter \ {e} : stage[d] # "idle" => job[d].export # x
      /\ job[e].reports \in Lists /\ stage[e] = "write" /\ stage[e] # "idle"
  BY <1>0, AtHand DEF P!WriteReport, P!Install
<1>2. SUFFICES ASSUME NEW l, l = job[e].reports, NEW d, d = job[e].done, NEW inv, inv = P!Inventory(e)
      PROVE  ReportsInv'
  OBVIOUS
<1>3. /\ Files(x) /\ d + 1 \in DOMAIN l /\ P!Target(e) = l[d + 1] /\ P!Target(e) \in P!ReportIn
      /\ Written(x, l, d + 1, file', replaced')
      /\ \A i \in DOMAIN l : file'[l[i]] = IF i = d + 1 THEN x ELSE file[l[i]]
  BY <1>0, <1>2, InstallPuts DEF P!WriteReport
<1>4. /\ l \in Lists /\ DOMAIN l = 1 .. Len(l) /\ Len(l) \in 0 .. 5 /\ d \in Nat /\ x \in Nat /\ x # 0
  BY <1>1, <1>2, ReportLists DEF ReportJob
<1>5. inv \in SUBSET P!ReportIn
  <2>1. job[e].inventory \in SUBSET P!ReportIn
    BY <1>1 DEF ReportJob
  <2>2. CASE P!Target(e) = "manifest"
    BY <1>2, <1>3, <2>2 DEF P!Inventory
  <2>3. CASE P!Target(e) # "manifest"
    BY <1>2, <2>1, <2>3 DEF P!Inventory
  <2> QED
    BY <2>2, <2>3
<1>6. Complete(l, d + 1, inv)
  <2> SUFFICES ASSUME l = P!Reports, d + 1 = 5 PROVE inv = P!ReportIn
    BY DEF Complete
  <2>1. Len(P!Reports) = 5 /\ P!Reports[5] = "manifest"
    BY DEF P!Reports
  <2>2. inv = {r \in P!ReportIn : file[r] # 0} \cup {"manifest"}
    BY <1>2, <1>3, <2>1 DEF P!Inventory
  <2>3. \A i \in DOMAIN l : i <= d => file[l[i]] # 0
    BY <1>1, <1>2 DEF Working
  <2>4. \A r \in P!ReportIn : \E i \in 1 .. 5 : r = P!Reports[i]
    BY <1>4, <2>1 DEF P!ReportIn
  <2>5. \A r \in P!ReportIn : file[r] # 0 \/ r = "manifest"
    <3> TAKE r \in P!ReportIn
    <3>1. PICK i \in 1 .. 5 : r = P!Reports[i]
      BY <2>4
    <3>2. i <= d \/ i = 5
      BY <1>4, <3>1
    <3> QED
      BY <1>4, <2>1, <2>3, <3>1, <3>2
  <2> QED
    BY <1>5, <2>2, <2>5
<1> DEFINE new == [job[e] EXCEPT !.done = d + 1, !.inventory = inv]
<1>7. job' = [job EXCEPT ![e] = new] /\ UNCHANGED <<enrolled, available, record, edits, exports, stage, told>>
  BY <1>2 DEF P!WriteReport, P!records
<1>8. /\ new \in ReportJob /\ new.export = x /\ new.reports = l /\ new.done = d + 1
      /\ new.inventory = inv /\ new.loaded = job[e].loaded /\ new.students = job[e].students
  <2>1. d + 1 \in 0 .. 5
    BY <1>3, <1>4
  <2> QED
    BY <1>0, <1>1, <1>2, <1>5, <2>1 DEF ReportJob
<1> HIDE DEF new
<1>9. /\ job'[e] = new /\ stage'[e] = "write"
      /\ \A c \in Reporter \ {e} : stage'[c] = stage[c] /\ job'[c] = job[c]
  BY <1>1, <1>7 DEF ReportsInv, ReportsTyped
<1>10. ReportsTyped'
  <2>1. file' \in [P!ReportIn -> 0 .. MaxExports] /\ replaced' \subseteq P!ReportIn \X (0 .. MaxExports)
    BY <1>3, <1>4, FilesKeep
  <2> QED
    BY <1>7, <1>8, <2>1 DEF ReportsInv, ReportsTyped
<1>11. Stands(x)'
  <2>1. Stands(x) /\ told[x] \in ReportTold
    BY <1>1 DEF ReportsInv, ReportsTyped
  <2>2. ~(x > exports')
    BY <1>1, <1>7
  <2>3. Written(x, told[x].reports, told[x].done, file', replaced')
    <3>1. told[x] = P!NotTold
      BY <1>0, <1>1 DEF Working
    <3>2. told[x].reports = <<>> /\ told[x].done = 0
      BY <3>1 DEF P!NotTold
    <3> QED
      BY <3>2 DEF Written
  <2> QED
    BY <1>7, <2>1, <2>2, <2>3 DEF Stands
<1>12. \A i \in DOMAIN l : /\ i <= d + 1 => file'[l[i]] # 0
                           /\ i > d + 1 => file'[l[i]] # x
  <2>1. \A i \in DOMAIN l : /\ i <= d => file[l[i]] # 0
                            /\ i > d => file[l[i]] # x
    BY <1>0, <1>1, <1>2 DEF Working
  <2> QED
    BY <1>3, <1>4, <2>1
<1>13. Working(e)'
  <2>1. /\ x \in 1 .. exports' /\ told'[x] = P!NotTold /\ DOMAIN new.loaded = new.students
    BY <1>0, <1>1, <1>7, <1>8 DEF Working
  <2>2. SUFFICES ASSUME NEW j, j = job'[e] PROVE Working(e)'
    OBVIOUS
  <2>3. /\ j.export = x /\ j.reports = l /\ j.done = d + 1 /\ j.inventory = inv
        /\ DOMAIN j.loaded = j.students
    BY <1>8, <1>9, <2>1, <2>2
  <2> QED
    BY <1>3, <1>4, <1>6, <1>9, <1>12, <2>1, <2>2, <2>3 DEF Working
<1>14. exports' \in Nat /\ exports <= exports'
  BY <1>1, <1>7
<1> QED
  BY <1>1, <1>3, <1>7, <1>8, <1>9, <1>10, <1>11, <1>13, <1>14, ExportStepOf

\* The ends of an export.
LEMMA EndKeeps ==
  ASSUME ReportsInv, NEW e \in Reporter, P!Refuse(e) \/ P!Exported(e) \/ P!WriteFails(e)
  PROVE  ReportsInv'
<1>0. SUFFICES ASSUME NEW x, x = job[e].export PROVE ReportsInv'
  OBVIOUS
<1>1. stage[e] # "idle"
  BY DEF P!Refuse, P!Exported, P!WriteFails
<1>2. job[e] \in ReportJob /\ job[e].reports \in Lists /\ Working(e)
  BY <1>1, AtHand
<1>3. Written(x, job[e].reports, job[e].done, file, replaced)
  BY <1>0, <1>1, <1>2 DEF Working
<1>4. CASE P!Refuse(e)
  <2>1. /\ P!Answer(e, "refused") /\ UNCHANGED <<enrolled, available, record, edits, exports>>
        /\ file' = file /\ replaced' = replaced
    BY <1>4 DEF P!Refuse, P!records
  <2> QED
    BY <1>0, <1>1, <1>3, <2>1, AnswerKeeps DEF Files
<1>5. CASE P!Exported(e)
  <2>1. /\ P!Answer(e, "ok") /\ UNCHANGED <<enrolled, available, record, edits, exports>>
        /\ file' = file /\ replaced' = replaced /\ ~P!Remaining(e)
    BY <1>5 DEF P!Exported, P!records
  <2>2. job[e].done = Len(job[e].reports)
    <3>1. job[e].done \in Nat /\ Len(job[e].reports) \in Nat /\ job[e].done <= Len(job[e].reports)
      BY <1>2, <1>3, ReportLists DEF ReportJob, Written
    <3> QED
      BY <2>1, <3>1 DEF P!Remaining
  <2> QED
    BY <1>0, <1>1, <1>3, <2>1, <2>2, AnswerKeeps DEF Files
<1>6. CASE P!WriteFails(e)
  <2>1. P!Answer(e, "failed") /\ UNCHANGED <<enrolled, available, record, edits, exports>>
    BY <1>6 DEF P!WriteFails, P!records
  <2>2. CASE P!Install(e)
    <3>1. Files(x) /\ Written(x, job[e].reports, job[e].done, file', replaced')
      BY <1>0, <2>2, InstallPuts
    <3> QED
      BY <1>0, <1>1, <2>1, <3>1, AnswerKeeps
  <2>3. CASE UNCHANGED <<file, replaced>>
    BY <1>0, <1>1, <1>3, <2>1, <2>3, AnswerKeeps DEF Files
  <2> QED
    BY <1>6, <2>2, <2>3 DEF P!WriteFails
<1> QED
  BY <1>4, <1>5, <1>6

\* The records and the roster are none of the exports' business.
LEMMA ChangeKeeps ==
  ASSUME ReportsInv, P!ChangeRoster \/ \E s \in P!Student : P!ChangeRecord(s)
  PROVE  ReportsInv'
<1>1. UNCHANGED <<file, exports, stage, job, told, replaced>>
  BY DEF P!ChangeRoster, P!ChangeRecord
<1>2. edits \in Nat /\ edits < MaxEdits /\ edits' = edits + 1
  BY DEF P!ChangeRoster, P!ChangeRecord, ReportsInv, ReportsTyped
<1>3. edits' \in 0 .. MaxEdits
  BY <1>2, ReportsAssumption
<1>4. record' \in [P!Student -> P!Records] /\ enrolled' \subseteq P!Student /\ available' \in BOOLEAN
  <2>1. CASE P!ChangeRoster
    BY <2>1 DEF P!ChangeRoster, ReportsInv, ReportsTyped
  <2>2. ASSUME NEW s \in P!Student, P!ChangeRecord(s)
        PROVE  record' \in [P!Student -> P!Records] /\ enrolled' \subseteq P!Student /\ available' \in BOOLEAN
    <3>1. PICK r \in Record : record' = [record EXCEPT ![s] = r]
      BY <2>2 DEF P!ChangeRecord
    <3>2. r \in P!Records
      BY ReportsAssumption
    <3> QED
      BY <2>2, <3>1, <3>2 DEF P!ChangeRecord, ReportsInv, ReportsTyped
  <2> QED
    BY <2>1, <2>2
<1>5. ReportsTyped'
  BY <1>1, <1>3, <1>4 DEF ReportsInv, ReportsTyped
<1>6. \A e \in Reporter : Working(e)'
  BY <1>1 DEF ReportsInv, Working
<1>7. \A x \in P!Export : Stands(x)'
  BY <1>1 DEF ReportsInv, Stands
<1>8. /\ \A e \in Reporter : stage'[e] = "idle" => job'[e] = P!NoJob
      /\ \A e, d \in Reporter :
           e # d /\ stage'[e] # "idle" /\ stage'[d] # "idle" => job'[e].export # job'[d].export
  BY <1>1 DEF ReportsInv
<1> QED
  BY <1>5, <1>6, <1>7, <1>8 DEF ReportsInv

LEMMA ReportsStep == ASSUME ReportsInv, [P!Next]_(P!vars) PROVE ReportsInv'
<1>1. CASE UNCHANGED P!vars
  <2>1. UNCHANGED <<enrolled, available, record, edits, file, exports, stage, job, told, replaced>>
    BY <1>1 DEF P!vars
  <2>2. ReportsTyped'
    BY <2>1 DEF ReportsInv, ReportsTyped
  <2>3. \A e \in Reporter : Working(e)'
    BY <2>1 DEF ReportsInv, Working
  <2>4. \A x \in P!Export : Stands(x)'
    BY <2>1 DEF ReportsInv, Stands
  <2> QED
    BY <2>1, <2>2, <2>3, <2>4 DEF ReportsInv
<1>2. CASE P!ChangeRoster \/ \E s \in P!Student : P!ChangeRecord(s)
  BY <1>2, ChangeKeeps
<1>3. ASSUME NEW e \in Reporter,
             \/ P!ExportPacket(e) \/ P!ExportPerformanceSummary(e) \/ P!ExportClassSummary(e)
             \/ P!ExportStandardsSummary(e) \/ P!ExportReviewReport(e) \/ P!ExportResultsManifest(e)
      PROVE  ReportsInv'
  <2>1. PICK l \in Lists : P!Begin(e, l)
    BY <1>3 DEF Lists, P!ExportPacket, P!ExportPerformanceSummary, P!ExportClassSummary,
                P!ExportStandardsSummary, P!ExportReviewReport, P!ExportResultsManifest
  <2> QED
    BY <2>1, BeginKeeps
<1>4. ASSUME NEW e \in Reporter, NEW i \in DOMAIN Roll, P!LoadStudent(e, i) PROVE ReportsInv'
  BY <1>4, LoadKeeps
<1>5. ASSUME NEW e \in Reporter, P!CheckTargets(e) PROVE ReportsInv'
  BY <1>5, CheckKeeps
<1>6. ASSUME NEW e \in Reporter, P!Refuse(e) \/ P!Exported(e) \/ P!WriteFails(e) PROVE ReportsInv'
  BY <1>6, EndKeeps
<1>7. ASSUME NEW e \in Reporter, P!WriteReport(e) PROVE ReportsInv'
  BY <1>7, ReportWriteKeeps
<1>8. ASSUME NEW e \in Reporter, P!Die(e) PROVE ReportsInv'
  BY <1>8, DieKeeps
<1> QED
  BY <1>1, <1>2, <1>3, <1>4, <1>5, <1>6, <1>7, <1>8 DEF P!Next

LEMMA ReportsHolds ==
  ASSUME ReportsInv
  PROVE  P!TypeOK /\ P!ReportsAgree /\ P!CompletedStand /\ P!PacketInventory
<1>1. P!TypeOK
  <2>1. \A e \in Reporter : DOMAIN job[e].loaded \subseteq job[e].students
    <3> TAKE e \in Reporter
    <3>1. CASE stage[e] = "idle"
      BY <3>1 DEF ReportsInv, P!NoJob
    <3>2. CASE stage[e] # "idle"
      BY <3>2 DEF ReportsInv, Working
    <3> QED
      BY <3>1, <3>2
  <2>2. \A x \in P!Export : told[x].answer \in {"none", "refused", "failed", "ok"}
    BY DEF ReportsInv, ReportsTyped, ReportTold
  <2> QED
    BY <2>1, <2>2 DEF ReportsInv, ReportsTyped, P!TypeOK
<1>2. P!ReportsAgree
  <2> SUFFICES ASSUME NEW n \in P!Snapshots PROVE Snapshot(n)
    BY SnapshotsAgree DEF P!ReportsAgree
  <2>1. PICK e \in Reporter : n = job[e].loaded
    BY DEF P!Snapshots
  <2>2. PICK Q \in SUBSET P!Student : n \in [Q -> P!Records]
    <3>1. job[e] \in ReportJob
      BY DEF ReportsInv, ReportsTyped
    <3>2. n \in Loaded
      BY <2>1, <3>1 DEF ReportJob
    <3> QED
      BY <3>2 DEF Loaded
  <2>3. IsFiniteSet(P!Student)
    <3>1. DOMAIN Roll = 1 .. Len(Roll) /\ Len(Roll) \in Nat
      BY ReportsAssumption
    <3>2. IsFiniteSet(1 .. Len(Roll))
      BY <3>1, FS_Interval
    <3>3. Roll \in Surjection(DOMAIN Roll, P!Student)
      BY <3>1, ReportsAssumption DEF P!Student, Surjection
    <3> QED
      BY <3>2, <3>3, FS_Surjection
  <2>4. DOMAIN n = Q /\ IsFiniteSet(Q)
    BY <2>2, <2>3, FS_Subset
  <2> QED
    BY <2>2, <2>4 DEF Snapshot
<1>3. P!CompletedStand
  <2> SUFFICES ASSUME NEW x \in P!Export, NEW i \in 1 .. Len(P!Reports)
      PROVE  /\ i <= told[x].done => \/ file[told[x].reports[i]] = x
                                     \/ <<told[x].reports[i], x>> \in replaced
             /\ i \in DOMAIN told[x].reports /\ i > told[x].done + 1 => file[told[x].reports[i]] # x
    BY DEF P!CompletedStand
  <2>1. told[x] \in ReportTold /\ Written(x, told[x].reports, told[x].done, file, replaced)
    BY DEF ReportsInv, ReportsTyped, Stands
  <2>2. /\ DOMAIN told[x].reports = 1 .. Len(told[x].reports) /\ Len(told[x].reports) \in 0 .. 5
        /\ told[x].done \in 0 .. 5 /\ told[x].done <= Len(told[x].reports)
    BY <2>1, ReportLists DEF ReportTold, Written
  <2>3. i \in Nat /\ 1 <= i
    BY DEF P!Reports
  <2>4. i <= told[x].done => i \in DOMAIN told[x].reports
    BY <2>2, <2>3
  <2> QED
    BY <2>1, <2>4 DEF Written
<1>4. P!PacketInventory
  BY DEF ReportsInv, Stands, P!PacketInventory
<1> QED
  BY <1>1, <1>2, <1>3, <1>4

-----------------------------------------------------------------------------
(***************************************************************************)
(* The four together.                                                      *)
(***************************************************************************)

IInv ==
  /\ component = "session" => SessionInv
  /\ component = "batch" => BatchInv
  /\ component = "class" => ClassInv
  /\ component = "reports" => ReportsInv

LEMMA IInvStarts == Init => IInv
<1> SUFFICES ASSUME Init PROVE IInv
  OBVIOUS
<1>1. component = "session" => S!Init
  BY DEF Init
<1>2. component = "batch" => B!Init
  BY DEF Init
<1>3. component = "class" => C!Init
  BY DEF Init
<1>4. component = "reports" => P!Init
  BY DEF Init
<1> QED
  BY <1>1, <1>2, <1>3, <1>4, SessionStart, BatchStart, ClassStart, ReportsStart DEF IInv

\* Each step is one of the component in hand.
LEMMA StepOfOne ==
  ASSUME [Next]_all
  PROVE  /\ component' = component
         /\ component = "session" => [S!Next]_(S!vars)
         /\ component = "batch" => [B!Next]_(B!vars)
         /\ component = "class" => [C!Next]_(C!vars)
         /\ component = "reports" => [P!Next]_(P!vars)
<1>1. CASE Next
  BY <1>1 DEF Next
<1>2. CASE UNCHANGED all
  BY <1>2 DEF all, session, batch, class, reports, shared, S!vars, B!vars, C!vars, P!vars
<1> QED
  BY <1>1, <1>2

LEMMA IInvStays == IInv /\ [Next]_all => IInv'
<1> SUFFICES ASSUME IInv, [Next]_all PROVE IInv'
  OBVIOUS
<1>1. component' = "session" => SessionInv'
  BY StepOfOne, SessionStep DEF IInv
<1>2. component' = "batch" => BatchInv'
  BY StepOfOne, BatchStep DEF IInv
<1>3. component' = "class" => ClassInv'
  BY StepOfOne, ClassStep DEF IInv
<1>4. component' = "reports" => ReportsInv'
  BY StepOfOne, ReportsStep DEF IInv
<1> QED
  BY <1>1, <1>2, <1>3, <1>4 DEF IInv

LEMMA IInvHolds == Spec => []IInv
BY IInvStarts, IInvStays, PTL DEF Spec

(* Every variable of the review session, of an assignment's copies, of a   *)
(* roster's files and of the reports keeps its type.                       *)
THEOREM TypeCorrect == Spec => []TypeOK
<1>1. IInv => TypeOK
  BY SessionHolds, BatchHolds, ClassHolds, ReportsHolds DEF IInv, TypeOK
<1> QED
  BY <1>1, IInvHolds, PTL

(* Whoever saves, edits, fails or dies meanwhile: a failed save of an      *)
(* assignment takes back every copy it may and names the others, and a     *)
(* successful one is kept until a later one replaces it; a class is        *)
(* created with both its files or neither; and the reports of a packet     *)
(* agree, stand as they were told, and are listed by its manifest.         *)
THEOREM SavesStayWhole == Spec => []SavesAreWhole
<1>1. IInv => SavesAreWhole
  BY BatchHolds, ClassHolds, ReportsHolds DEF IInv, SavesAreWhole
<1> QED
  BY <1>1, IInvHolds, PTL

(* A stage that the teacher closes where the guidance led takes the        *)
(* student's work to a later category.                                     *)
THEOREM GuidanceGoesOn == Spec => GuidanceAdvances
<1>1. IInv /\ [Next]_all => [component = "session" => S!StageAdvances]_all
  BY StepOfOne, SessionAdvances DEF IInv
<1> QED
  BY <1>1, IInvHolds, PTL DEF Spec, GuidanceAdvances
=============================================================================
