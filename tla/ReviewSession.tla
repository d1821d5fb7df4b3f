---------------------------- MODULE ReviewSession ----------------------------
(***************************************************************************)
(* A teacher reviews the work of a class at the menus (quillan/            *)
(* review_menu.py).  The work queue (review_work_queue.py) puts each       *)
(* student in one category; Continue Review (review_continuation.py) opens *)
(* the stage the category asks for, and the student navigation             *)
(* (review_student_navigation.py) leads to who still needs work.  A screen *)
(* shows what was read when it was drawn; evidence is routed, batches are  *)
(* exported and the assignment is edited meanwhile.  What a stage writes   *)
(* is atomic (AtomicRecord); ReviewRecord and FeedbackExport have its      *)
(* detail.  Steps that no guidance asks for, also refused and canceled     *)
(* ones, are extras.                                                       *)
(***************************************************************************)
EXTENDS Naturals, Sequences, ReviewState

CONSTANTS
  Session,   \* teachers at the menus
  Roster,    \* the students, in roster order
  MaxExtras  \* bound on the steps beside the guidance

VARIABLES
  policy,  \* what the assignment asks: a minimum requirement, returns allowed
  work,    \* student -> evidence, submission, review and exports
  at,      \* Session -> the menu it is in, and what its screen shows
  extras   \* steps beside the guidance taken so far

vars == <<policy, work, at, extras>>

Student == {Roster[i] : i \in DOMAIN Roster}
Place(st) == CHOOSE i \in DOMAIN Roster : Roster[i] = st

None == [state |-> "none"]
NewReview == [state |-> "not_started", check |-> "unchecked", outcome |-> "not_checked",
              units |-> FALSE]
Format == {"pdf", "markdown"}
NoWork == [routed |-> FALSE, assembled |-> FALSE, review |-> None,
           export |-> [f \in Format |-> "missing"]]

-----------------------------------------------------------------------------
(* The work queue *)

IsReturned(r) == r.state = Returned /\ r.outcome = Returned
HalfReturned(r) == (r.state = Returned) # (r.outcome = Returned)

\* Mutant: work that was exported counts as observed only after new marks.
ObservedBefore == ObservedStates \ {"exported"}

Observed == ObservedStates
Rated == RatedStates
Composed == ComposedStates

\* _export_or_complete_item
ExportCategory(w) ==
  IF \E f \in Format : w.export[f] = "present" THEN "complete" ELSE "export_pending"

StageCategory(w, r) ==
  IF r.state \notin Observed THEN "observations_pending"
  ELSE IF r.state \notin Rated THEN "ratings_pending"
  ELSE IF r.state \notin Composed THEN "feedback_pending"
  ELSE ExportCategory(w)

\* classify_review_work_queue_item; records that cannot be read are left out.
Category(w) ==
  LET r == IF w.review = None THEN NewReview ELSE w.review IN
  IF ~w.assembled
  THEN IF w.routed THEN "needs_assembly" ELSE "no_submission"
  ELSE IF HalfReturned(r) \/ (IsReturned(r) /\ ~policy.required) THEN "attention_required"
  ELSE IF policy.required /\ r.outcome = "not_checked" THEN "minimum_requirements_pending"
  ELSE IF IsReturned(r) THEN ExportCategory(w)
  ELSE StageCategory(w, r)

\* review_continuation: the menu that a category opens.
Target == [minimum_requirements_pending |-> "minimum", observations_pending |-> "observations",
           ratings_pending |-> "ratings", feedback_pending |-> "feedback",
           export_pending |-> "export"]
Stage == {Target[c] : c \in DOMAIN Target}

NeedsWork(st) == Category(work[st]) # "complete"

\* derive_review_student_navigation: only later students, without wrapping.
Later(st) == {o \in Student : Place(o) > Place(st)}
First(sts) == CHOOSE st \in sts : \A o \in sts : Place(st) <= Place(o)
NextNeedingReview(st) == {o \in Later(st) : NeedsWork(o)}
Neighbours(st) == {o \in Student : Place(o) = Place(st) + 1 \/ Place(o) + 1 = Place(st)}

-----------------------------------------------------------------------------
Closed == [menu |-> "list", student |-> Roster[1], shown |-> "complete", guided |-> FALSE]

Init ==
  /\ policy \in [required : BOOLEAN, allowed : BOOLEAN]
  /\ work = [st \in Student |-> NoWork]
  /\ at = [s \in Session |-> Closed] /\ extras = 0

Guided == UNCHANGED extras
Extra == extras < MaxExtras /\ extras' = extras + 1

Go(s, menu) == at' = [at EXCEPT ![s].menu = menu]
Open(s, menu, guided) == at' = [at EXCEPT ![s].menu = menu, ![s].guided = guided]
Show(s, st) == at' = [at EXCEPT ![s].menu = "redraw", ![s].student = st, ![s].guided = FALSE]

\* A change of the record or of the selected evidence makes exports stale.
Staled(w) ==
  [w EXCEPT !.export = [f \in Format |-> IF @[f] = "missing" THEN "missing" ELSE "stale"]]
Save(st, r) == work' = [work EXCEPT ![st] = Staled([@ EXCEPT !.review = r])]

Shown(s) == work[at[s].student]
Review(s) == Shown(s).review
OrNew(r) == IF r = None THEN NewReview ELSE r
Reviewable(r) == r # None /\ r.state # Returned

-----------------------------------------------------------------------------
(* Choosing a student *)

\* _menu_class_review_progress, its filter set to a category with work to do.
SelectNeedingWork(s, st) ==
  /\ at[s].menu = "list" /\ Category(work[st]) \notin {"complete", "attention_required"}
  /\ Show(s, st)
  /\ Guided /\ UNCHANGED <<policy, work>>

\* _prompt_student_id: any student.
SelectStudent(s, st) ==
  /\ at[s].menu = "list" /\ Show(s, st)
  /\ Extra /\ UNCHANGED <<policy, work>>

\* _launch_selected_student_review draws the screen from one reading.
Redraw(s) ==
  /\ at[s].menu = "redraw"
  /\ at' = [at EXCEPT ![s].menu = "student", ![s].shown = Category(Shown(s))]
  /\ Guided /\ UNCHANGED <<policy, work>>

\* X: the next student who needs review.
GoToNextNeeding(s) ==
  LET next == NextNeedingReview(at[s].student) IN
  /\ at[s].menu = "student" /\ at[s].shown \in {"complete", "attention_required"}
  /\ next # {} /\ Show(s, First(next))
  /\ Guided /\ UNCHANGED <<policy, work>>

\* P and N, whatever the student's category.
GoToNeighbour(s, st) ==
  /\ at[s].menu = "student" /\ st \in Neighbours(at[s].student) /\ Show(s, st)
  /\ Extra /\ UNCHANGED <<policy, work>>

\* Back to the list, when nobody later needs work.
BackToList(s) ==
  /\ at[s].menu = "student" /\ at[s].shown \in {"complete", "attention_required"}
  /\ NextNeedingReview(at[s].student) = {}
  /\ Go(s, "list") /\ Guided /\ UNCHANGED <<policy, work>>

\* Back from a stage that no guidance opened.
BackToStudent(s) ==
  /\ at[s].menu \in Stage /\ ~at[s].guided /\ Show(s, at[s].student)
  /\ Guided /\ UNCHANGED <<policy, work>>

\* Back from anywhere: canceled, refused, or an error that left all as it was.
Leave(s) ==
  /\ at[s].menu # "list"
  /\ IF at[s].menu \in Stage THEN Show(s, at[s].student) ELSE Go(s, "list")
  /\ Extra /\ UNCHANGED <<policy, work>>

-----------------------------------------------------------------------------
(* From the student's screen *)

\* _run_review_continuation
Continue(s) ==
  /\ at[s].menu = "student" /\ at[s].shown \in DOMAIN Target
  /\ Open(s, Target[at[s].shown], TRUE)
  /\ Guided /\ UNCHANGED <<policy, work>>

\* _menu_advanced_review_actions, and E: any stage at any time.
Advanced(s, menu) ==
  /\ at[s].menu = "student" /\ Category(Shown(s)) \notin {"no_submission", "needs_assembly"}
  /\ Open(s, menu, FALSE)
  /\ Extra /\ UNCHANGED <<policy, work>>

\* _create_plain_paper_submission_menu: refused where evidence came meanwhile.
CreatePlainPaper(s) ==
  /\ at[s].menu = "student" /\ at[s].shown = "no_submission"
  /\ work' = IF Shown(s).routed \/ Shown(s).assembled THEN work
             ELSE [work EXCEPT ![at[s].student].assembled = TRUE,
                               ![at[s].student].review = NewReview]
  /\ Go(s, "redraw") /\ Guided /\ UNCHANGED policy

Assembled == [st \in Student |-> [work[st] EXCEPT !.assembled = @ \/ work[st].routed]]

\* _assemble_assignment: every student's routed evidence.
AssembleAssignment(s) ==
  /\ at[s].menu = "student" /\ at[s].shown = "needs_assembly"
  /\ work' = Assembled
  /\ Go(s, "redraw") /\ Guided /\ UNCHANGED policy

\* _menu_add_review_note
AddReviewNote(s) ==
  /\ at[s].menu = "student" /\ Shown(s).assembled
  /\ Save(at[s].student, OrNew(Review(s)))
  /\ Go(s, "redraw") /\ Extra /\ UNCHANGED policy

\* _menu_update_review_workflow_state: not into or out of the returned state.
UpdateReviewWorkflowState(s, state) ==
  /\ at[s].menu = "student" /\ Shown(s).assembled
  /\ state # Returned /\ OrNew(Review(s)).outcome # Returned
  /\ Save(at[s].student, [OrNew(Review(s)) EXCEPT !.state = state])
  /\ Go(s, "redraw") /\ Extra /\ UNCHANGED policy

\* _menu_change_submission_page: the selected evidence is another.
ChangeSubmissionPage(s) ==
  /\ at[s].menu = "student" /\ Shown(s).assembled
  /\ work' = [work EXCEPT ![at[s].student] = Staled(@)]
  /\ Go(s, "redraw") /\ Extra /\ UNCHANGED policy

-----------------------------------------------------------------------------
(* The stages.  A completed one closes its menu. *)

In(s, menu) == at[s].menu = menu /\ UNCHANGED policy
Stay == UNCHANGED at
Completed(s) == Go(s, "redraw")

\* _menu_review_minimum_requirements with none configured.
NoRequirements(s) ==
  /\ In(s, "minimum") /\ ~policy.required
  /\ Completed(s) /\ Guided /\ UNCHANGED work

CheckSaved(s, met) ==
  Save(at[s].student, [OrNew(Review(s)) EXCEPT !.check = met, !.state = Checked(@)])

\* _prompt_and_set_requirement_check, as the stage needs it, and again.
RecordRequirementCheck(s, met) ==
  /\ In(s, "minimum") /\ policy.required /\ CheckSaved(s, met) /\ Stay
  /\ IF OrNew(Review(s)).check = "unchecked" THEN Guided ELSE Extra

\* _menu_finalize_minimum_requirement_outcome
FinalizeOutcome(s, outcome) ==
  /\ In(s, "minimum") /\ policy.required
  /\ outcome \in AvailableOutcomes(OrNew(Review(s)).check, policy.allowed)
  /\ Save(at[s].student, [OrNew(Review(s)) EXCEPT !.outcome = outcome, !.state = Decided(outcome)])
  /\ Completed(s) /\ Guided

\* _menu_define_review_units
DefineReviewUnits(s) ==
  /\ In(s, "observations") /\ OrNew(Review(s)).state # Returned
  /\ Save(at[s].student, [OrNew(Review(s)) EXCEPT !.units = TRUE, !.state = InProgress(@)])
  /\ Stay /\ IF OrNew(Review(s)).units THEN Extra ELSE Guided

\* _record_review_unit_observation
RecordObservation(s) ==
  /\ In(s, "observations") /\ Reviewable(Review(s)) /\ Review(s).units
  /\ Save(at[s].student, [Review(s) EXCEPT !.state = InProgress(@)])
  /\ Stay /\ Extra

\* _menu_mark_observations_complete
MarkObservationsComplete(s) ==
  /\ In(s, "observations") /\ Reviewable(Review(s)) /\ Review(s).units
  /\ Save(at[s].student, [Review(s) EXCEPT !.state = "observations_complete"])
  /\ Completed(s) /\ Guided

\* _record_overall_focus_standard_rating
RecordRating(s) ==
  /\ In(s, "ratings") /\ Reviewable(Review(s))
  /\ Save(at[s].student, [Review(s) EXCEPT !.state = Rerated(@)])
  /\ Stay /\ Extra

\* Mutant: the menu closes, and the state is as after the last rating.
RatingsSaved(s) ==
  /\ In(s, "ratings") /\ Reviewable(Review(s))
  /\ Save(at[s].student, [Review(s) EXCEPT !.state = Rerated(@)])
  /\ Completed(s) /\ Guided

\* _menu_mark_overall_ratings_complete
MarkRatingsComplete(s) ==
  /\ In(s, "ratings") /\ Reviewable(Review(s))
  /\ Save(at[s].student, [Review(s) EXCEPT !.state = "ratings_complete"])
  /\ Completed(s) /\ Guided

FeedbackEdited(s) ==
  /\ In(s, "feedback") /\ Reviewable(Review(s))
  /\ Save(at[s].student, [Review(s) EXCEPT !.state = Recomposed(@)])
  /\ Stay /\ Extra

\* _menu_configure_standard_feedback_options
ConfigureFeedbackOptions(s) == FeedbackEdited(s)

\* _menu_add_custom_focus_standard_feedback_comment, or a reusable one.
AddFeedbackComment(s) == FeedbackEdited(s)

\* _menu_mark_feedback_composed
MarkFeedbackComposed(s) ==
  /\ In(s, "feedback") /\ Reviewable(Review(s))
  /\ Save(at[s].student, [Review(s) EXCEPT !.state = "feedback_composed"])
  /\ Completed(s) /\ Guided

\* Exported feedback is current; other feedback was, before the export's write.
Exported(w, formats) ==
  [w EXCEPT !.review.state = IF @ = Returned THEN Returned ELSE "exported",
            !.export = [f \in Format |-> IF f \in formats THEN "present" ELSE Staled(w).export[f]]]

\* _menu_export_student_feedback; what is there is overwritten on request.
ExportStudentFeedback(s, formats) ==
  /\ In(s, "export") /\ Review(s) # None
  /\ work' = [work EXCEPT ![at[s].student] = Exported(@, formats)]
  /\ Completed(s) /\ Guided

-----------------------------------------------------------------------------
(* Meanwhile *)

\* Scan intake routes evidence for a student.
RouteEvidence(st) ==
  /\ ~work[st].routed
  /\ work' = [work EXCEPT ![st].routed = TRUE]
  /\ Extra /\ UNCHANGED <<policy, at>>

\* _menu_batch_feedback_export: of the reviews that are composed.
BatchExport(st, formats) ==
  /\ Category(work[st]) \in {"export_pending", "complete"}
  /\ work' = [work EXCEPT ![st] = Exported(@, formats)]
  /\ Extra /\ UNCHANGED <<policy, at>>

\* The assignment is saved with another requirement policy.
EditPolicy(p) ==
  /\ policy' = p
  /\ Extra /\ UNCHANGED <<work, at>>

-----------------------------------------------------------------------------
Formats == (SUBSET Format) \ {{}}

\* What the screens lead a teacher to do.
Follow(s) ==
  \/ \E st \in Student : SelectNeedingWork(s, st)
  \/ Redraw(s) \/ GoToNextNeeding(s) \/ BackToList(s) \/ BackToStudent(s)
  \/ Continue(s) \/ CreatePlainPaper(s) \/ AssembleAssignment(s)
  \/ NoRequirements(s)
  \/ \E met \in {"met", "not_met"} : RecordRequirementCheck(s, met)
  \/ \E outcome \in Outcome : FinalizeOutcome(s, outcome)
  \/ DefineReviewUnits(s) \/ MarkObservationsComplete(s) \/ MarkRatingsComplete(s)
  \/ MarkFeedbackComposed(s)
  \/ \E formats \in Formats : ExportStudentFeedback(s, formats)

Aside(s) ==
  \/ \E st \in Student : SelectStudent(s, st) \/ GoToNeighbour(s, st)
  \/ Leave(s)
  \/ \E menu \in Stage : Advanced(s, menu)
  \/ AddReviewNote(s) \/ ChangeSubmissionPage(s)
  \/ \E state \in State : UpdateReviewWorkflowState(s, state)
  \/ RecordObservation(s) \/ RecordRating(s) \/ ConfigureFeedbackOptions(s) \/ AddFeedbackComment(s)

Meanwhile ==
  \/ \E st \in Student : RouteEvidence(st)
  \/ \E st \in Student, formats \in Formats : BatchExport(st, formats)
  \/ \E p \in [required : BOOLEAN, allowed : BOOLEAN] : EditPolicy(p)

Next == (\E s \in Session : Follow(s) \/ Aside(s)) \/ Meanwhile

\* A teacher who keeps doing what the screens lead to.
Fairness == \A s \in Session : WF_vars(Follow(s))

Spec == Init /\ [][Next]_vars /\ Fairness

-----------------------------------------------------------------------------
(* Properties *)

Categories == DOMAIN Target \cup {"no_submission", "needs_assembly", "complete", "attention_required"}

\* Type invariant.
TypeOK ==
  /\ policy \in [required : BOOLEAN, allowed : BOOLEAN] /\ extras \in 0 .. MaxExtras
  /\ \A st \in Student :
       /\ work[st].review = None \/ (work[st].review.state \in State /\ work[st].review.outcome \in Outcome)
       /\ work[st].export \in [Format -> {"missing", "present", "stale"}]
  /\ \A s \in Session : /\ at[s].menu \in Stage \cup {"list", "redraw", "student"}
                        /\ at[s].student \in Student /\ at[s].shown \in Categories

\* The order in which the guidance works through the categories.
Rank == [no_submission |-> 0, needs_assembly |-> 0, minimum_requirements_pending |-> 1,
         observations_pending |-> 2, ratings_pending |-> 3, feedback_pending |-> 4,
         export_pending |-> 5, complete |-> 6, attention_required |-> 6]

\* A stage that Continue Review opened, and that the teacher completes while the
\* student is still where the screen showed.
StageAdvances ==
  \A s \in Session :
    LET st == at[s].student IN
    /\ at[s].guided /\ at[s].menu \in Stage /\ at'[s].menu = "redraw" /\ extras' = extras
    /\ Category(work[st]) = at[s].shown
    => Rank[Category(work[st])'] > Rank[Category(work[st])]

\* Such a step takes the student to a later category: no order of edits, states set
\* by hand, exports and notes lets the guidance go around in a circle or stand still.
GuidanceAdvances == [][StageAdvances]_vars

AllDone == \A st \in Student : Category(work[st]) \in {"complete", "attention_required"}

\* However the reviews were left, a teacher who does what the screens lead to
\* gets every student's review done, or to where only the assignment can help.
EveryReviewCompletes == <>[]AllDone
=============================================================================
