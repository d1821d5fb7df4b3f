---------------------------- MODULE ReviewRecord ----------------------------
(***************************************************************************)
(* One student's review record (quillan/review_*.py): minimum              *)
(* requirements, review units and their observations, overall ratings,     *)
(* feedback selections and comments, and the workflow state they move.     *)
(* A call that loads the record once and writes it once under the revision *)
(* guard is one action: AtomicRecord shows that the guard makes it one.    *)
(* The calls that read twice, or touch the reusable comment bank before or *)
(* after the write, are modelled step by step, with an error, a conflict   *)
(* or a death between any two steps.                                       *)
(***************************************************************************)
EXTENDS Naturals, FiniteSets, FiniteSetsExt, ReviewState

CONSTANTS
  Session,    \* processes that edit the record step by step
  Unit,       \* unit ids a teacher may define
  MaxBirths,  \* bound on the observations ever created
  MaxSaved    \* bound on entries of the comment bank, and on its usage counts

VARIABLES
  review,     \* the record, or None
  allowed,    \* the assignment allows returning work without full review
  bank,       \* the comment set: entries saved from this record, and the usage
              \* count of the reusable comment it selects
  copy,       \* Session -> the comment set as its call read it
  pc,         \* Session -> the next step of its call
  wants,      \* Session -> the outcome or the comment its call will write
  current,    \* Session -> the record is still what its call loaded
  births,     \* history: observations created so far
  meant       \* history: selected id -> which observation the teacher selected

vars == <<review, allowed, bank, copy, pc, wants, current, births, meant>>

None == [state |-> "none"]
Id == 1 .. MaxBirths
NoUse == [saved |-> 0, used |-> 0]

\* build_empty_review_record.  One requirement is configured, and one Focus
\* Standard; units maps the defined units to their observation of it, or to
\* Nothing.
Nothing == [id |-> 0]
Empty == [state |-> "not_started", check |-> "unchecked", outcome |-> "not_checked",
          units |-> <<>>, picked |-> {}, saved |-> 0, used |-> 0]

Observations(r) == {r.units[u] : u \in DOMAIN r.units} \ {Nothing}
Ids(r) == {o.id : o \in Observations(r)}

\* _included_review_unit_observations: what the feedback shows.
Appearing(r) == {o \in Observations(r) : o.id \in r.picked}

\* validate_review_record, what it demands across fields.
Valid(r) ==
  /\ r.picked \subseteq Ids(r)
  /\ Cardinality(Ids(r)) = Cardinality(Observations(r))
  /\ r.outcome = Returned => r.state = Returned

-----------------------------------------------------------------------------
(* The edits: what each does to the record it loaded.                      *)

OrEmpty(r) == IF r = None THEN Empty ELSE r

\* _guard_returned_without_full_review, and REVIEW_REQUIRED.
Reviewable(r) == r.state # Returned
Existing(r) == r # None /\ Reviewable(r)

\* Mutant: selected observations stay in the feedback when their unit goes.
KeepReferences(r, units) == r.picked

\* _drop_stale_feedback_observation_references.
DropReferences(r, units) ==
  {i \in r.picked : \E u \in DOMAIN units : units[u].id = i}

\* set_review_units: a unit that stays keeps its observation.
WithUnits(r, us) ==
  LET units == [u \in us |-> IF u \in DOMAIN r.units THEN r.units[u] ELSE Nothing]
  IN [r EXCEPT !.units = units, !.picked = DropReferences(r, units),
               !.state = InProgress(@)]

\* Mutant: the next id counts the observations there are.
CountingId(r) == Cardinality(Ids(r)) + 1

\* _next_observation_id: one more than the highest in use, so that an id may be
\* used again once its observation, the highest, is gone.
NextId(r) == 1 + Max(Ids(r) \cup {0})

\* set_review_unit_observation creates or replaces; it may exclude an
\* observation from feedback that is selected there.
WithObservation(r, u, include, birth) ==
  LET old == r.units[u]
      new == IF old = Nothing THEN [id |-> NextId(r), include |-> include, birth |-> birth]
             ELSE [old EXCEPT !.include = include]
  IN [r EXCEPT !.units[u] = new, !.state = InProgress(@)]

\* set_standard_feedback_options.
WithPicked(r, ids) == [r EXCEPT !.picked = ids, !.state = Recomposed(@)]

\* set_requirement_check.
WithCheck(r, met) ==
  [r EXCEPT !.check = met, !.state = Checked(@)]

Available(r, allow) == AvailableOutcomes(r.check, allow)

\* Mutant: an outcome other than returned leaves the workflow state alone.
KeepingState(r, status) ==
  [r EXCEPT !.outcome = status, !.state = IF status = Returned THEN Returned ELSE @]

\* set_minimum_requirement_outcome.
WithOutcome(r, status) ==
  [r EXCEPT !.outcome = status, !.state = Decided(status)]

-----------------------------------------------------------------------------
Init ==
  /\ review = None /\ allowed \in BOOLEAN /\ bank = NoUse
  /\ copy = [s \in Session |-> NoUse]
  /\ pc = [s \in Session |-> "idle"]
  /\ wants = [s \in Session |-> "nothing"]
  /\ current = [s \in Session |-> FALSE]
  /\ births = 0 /\ meant = [i \in Id |-> 0]

Idle == UNCHANGED <<allowed, bank, copy, pc, wants>>

\* Validation refuses what is not valid; nothing is written then.  Each write
\* has a later updated_at, so that the guard of every other call fails.
Put(r) ==
  /\ Valid(r)
  /\ review' = r
  /\ current' = [s \in Session |-> FALSE]

SetReviewUnits(us) ==
  /\ review # None => Reviewable(review)
  /\ Put(WithUnits(OrEmpty(review), us))
  /\ Idle /\ UNCHANGED <<births, meant>>

SetReviewUnitObservation(u, include) ==
  /\ Existing(review) /\ u \in DOMAIN review.units
  /\ births < MaxBirths \/ review.units[u] # Nothing
  /\ Put(WithObservation(review, u, include, births + 1))
  /\ births' = IF review.units[u] = Nothing THEN births + 1 ELSE births
  /\ Idle /\ UNCHANGED meant

\* mark_observations_complete
MarkObservationsComplete ==
  /\ Existing(review) /\ review.units # <<>>
  /\ Put([review EXCEPT !.state = "observations_complete"])
  /\ Idle /\ UNCHANGED <<births, meant>>

\* set_overall_standard_rating; the rating itself is not kept here.
SetOverallStandardRating ==
  /\ Existing(review)
  /\ Put([review EXCEPT !.state = Rerated(@)])
  /\ Idle /\ UNCHANGED <<births, meant>>

\* add_review_note: a private note moves nothing but updated_at.
AddReviewNote ==
  /\ Put(OrEmpty(review))
  /\ Idle /\ UNCHANGED <<births, meant>>

\* mark_overall_ratings_complete, mark_feedback_composed: no condition on what
\* is there.
MarkRatingsComplete ==
  /\ Existing(review)
  /\ Put([review EXCEPT !.state = "ratings_complete"])
  /\ Idle /\ UNCHANGED <<births, meant>>

MarkFeedbackComposed ==
  /\ Existing(review)
  /\ Put([review EXCEPT !.state = "feedback_composed"])
  /\ Idle /\ UNCHANGED <<births, meant>>

\* set_standard_feedback_options: every selected id is there and includable.
SetStandardFeedbackOptions(ids) ==
  /\ Existing(review)
  /\ ids \subseteq {o.id : o \in {p \in Observations(review) : p.include}}
  /\ Put(WithPicked(review, ids))
  /\ meant' = [i \in Id |-> IF i \notin ids THEN 0
                            ELSE (CHOOSE o \in Observations(review) : o.id = i).birth]
  /\ Idle /\ UNCHANGED births

\* set_requirement_check, through set_configured_requirement_check.
SetRequirementCheck(met) ==
  /\ Put(WithCheck(OrEmpty(review), met))
  /\ Idle /\ UNCHANGED <<births, meant>>

\* set_review_workflow_state: the returned state is entered and left only with
\* its outcome.
SetReviewWorkflowState(state) ==
  /\ IF state = Returned
       THEN /\ review # None /\ review.state = Returned /\ review.outcome = Returned
            /\ allowed /\ review.check = "not_met"
       ELSE review # None => review.outcome # Returned
  /\ Put([OrEmpty(review) EXCEPT !.state = state])
  /\ Idle /\ UNCHANGED <<births, meant>>

\* The assignment's policy is edited.
EditPolicy ==
  /\ allowed' = ~allowed
  /\ UNCHANGED <<review, bank, copy, pc, wants, current, births, meant>>

-----------------------------------------------------------------------------
(* Calls of more than one step.                                            *)

Begin(s, step, what) ==
  /\ pc[s] = "idle"
  /\ pc' = [pc EXCEPT ![s] = step]
  /\ wants' = [wants EXCEPT ![s] = what]
  /\ current' = [current EXCEPT ![s] = step \in {"bank", "write"}]
  /\ UNCHANGED <<review, allowed, bank, copy, births, meant>>

End(s) ==
  /\ pc' = [pc EXCEPT ![s] = "idle"]
  /\ wants' = [wants EXCEPT ![s] = "nothing"]

\* set_configured_minimum_requirement_outcome looks at the checks, and
\* set_minimum_requirement_outcome loads again: only a return is checked again.
SetOutcome(s) ==
  \E status \in Available(OrEmpty(review), allowed) : Begin(s, "outcome", status)

WriteOutcome(s) ==
  /\ pc[s] = "outcome"
  /\ wants[s] = Returned => OrEmpty(review).check = "not_met"
  /\ Put(WithOutcome(OrEmpty(review), wants[s]))
  /\ End(s)
  /\ UNCHANGED <<allowed, bank, copy, births, meant>>

\* add_custom_feedback_comment with save_for_reuse: append_saved_comment first,
\* then the record.
AddCustomComment(s) ==
  /\ Existing(review) /\ review.saved < MaxSaved
  /\ Begin(s, "bank", "saved")

\* load_comment_set: nothing guards the set until it is written again.
LoadCommentSet(s) ==
  /\ pc[s] \in {"bank", "count"}
  /\ copy' = [copy EXCEPT ![s] = bank]
  /\ pc' = [pc EXCEPT ![s] = IF pc[s] = "bank" THEN "append" ELSE "increment"]
  /\ UNCHANGED <<review, allowed, bank, wants, current, births, meant>>

\* write_comment_set replaces the file.
WriteCommentSet(s, set) == bank' = set /\ copy' = [copy EXCEPT ![s] = NoUse]

AppendSavedComment(s) ==
  /\ pc[s] = "append" /\ copy[s].saved < MaxSaved
  /\ WriteCommentSet(s, [copy[s] EXCEPT !.saved = @ + 1])
  /\ pc' = [pc EXCEPT ![s] = "write"]
  /\ UNCHANGED <<review, allowed, wants, current, births, meant>>

\* select_reusable_feedback_comment: the record first, then increment_usage.
SelectReusableComment(s) ==
  /\ Existing(review) /\ review.used < MaxSaved
  /\ Begin(s, "write", "used")

\* The comment is appended under the feedback of its standard.
WithComment(r, s) ==
  [r EXCEPT !.saved = IF wants[s] = "saved" THEN @ + 1 ELSE @,
            !.used = IF wants[s] = "used" THEN @ + 1 ELSE @,
            !.state = Recomposed(@)]

\* Mutant: the usage is counted also when the guard refused the record.
WriteAnyhow(s) ==
  /\ pc[s] = "write"
  /\ IF current[s] THEN Put(WithComment(review, s)) ELSE UNCHANGED <<review, current>>
  /\ IF wants[s] = "used"
       THEN pc' = [pc EXCEPT ![s] = "count"] /\ UNCHANGED wants
       ELSE End(s)
  /\ UNCHANGED <<allowed, bank, copy, births, meant>>

\* persist_quillan_review_record under the guard, then increment_usage for a
\* reusable comment.
Write(s) ==
  /\ pc[s] = "write"
  /\ current[s]
  /\ Put(WithComment(review, s))
  /\ IF wants[s] = "used"
       THEN pc' = [pc EXCEPT ![s] = "count"] /\ UNCHANGED wants
       ELSE End(s)
  /\ UNCHANGED <<allowed, bank, copy, births, meant>>

IncrementUsage(s) ==
  /\ pc[s] = "increment"
  /\ WriteCommentSet(s, [copy[s] EXCEPT !.used = @ + 1])
  /\ End(s)
  /\ UNCHANGED <<review, allowed, current, births, meant>>

\* A conflict, an error or a death ends the call where it is.
Fail(s) ==
  /\ pc[s] # "idle"
  /\ End(s)
  /\ copy' = [copy EXCEPT ![s] = NoUse]
  /\ UNCHANGED <<review, allowed, bank, current, births, meant>>

Next ==
  \/ \E us \in (SUBSET Unit) \ {{}} : SetReviewUnits(us)
  \/ \E u \in Unit, include \in BOOLEAN : SetReviewUnitObservation(u, include)
  \/ MarkObservationsComplete \/ SetOverallStandardRating \/ AddReviewNote \/ MarkRatingsComplete
  \/ MarkFeedbackComposed
  \/ \E ids \in SUBSET Id : SetStandardFeedbackOptions(ids)
  \/ \E met \in {"met", "not_met"} : SetRequirementCheck(met)
  \/ \E state \in State : SetReviewWorkflowState(state)
  \/ EditPolicy
  \/ \E s \in Session :
       \/ SetOutcome(s) \/ WriteOutcome(s)
       \/ AddCustomComment(s) \/ LoadCommentSet(s) \/ AppendSavedComment(s) \/ SelectReusableComment(s)
       \/ Write(s) \/ IncrementUsage(s) \/ Fail(s)

Spec == Init /\ [][Next]_vars

-----------------------------------------------------------------------------
(* Properties.                                                             *)

TypeOK ==
  /\ review = None \/
       /\ review.state \in State /\ review.outcome \in Outcome
       /\ review.check \in {"unchecked", "met", "not_met"}
       /\ DOMAIN review.units \subseteq Unit /\ review.picked \subseteq Id
       /\ \A o \in Observations(review) :
            o.id \in Id /\ o.include \in BOOLEAN /\ o.birth \in 1 .. births
       /\ review.saved \in 0 .. MaxSaved /\ review.used \in 0 .. MaxSaved
  /\ bank.saved \in 0 .. MaxSaved /\ bank.used \in 0 .. MaxSaved /\ births \in 0 .. MaxBirths
  /\ pc \in [Session -> {"idle", "outcome", "bank", "append", "write", "count", "increment"}]
  /\ wants \in [Session -> Outcome \cup {"nothing", "saved", "used"}]
  /\ current \in [Session -> BOOLEAN]

\* Whatever was done before, no edit that the functions let through is refused
\* by the validation in front of the write: a teacher is never stuck with a
\* record that an operation can no longer change.
EveryEditIsValid ==
  /\ review # None => Valid(review)
  /\ review = None \/ Reviewable(review) =>
       \A us \in (SUBSET Unit) \ {{}} : Valid(WithUnits(OrEmpty(review), us))
  /\ Existing(review) =>
       \A u \in DOMAIN review.units, include \in BOOLEAN :
         Valid(WithObservation(review, u, include, births + 1))
  /\ \A status \in Available(OrEmpty(review), TRUE) :
       Valid(WithOutcome(OrEmpty(review), status))

\* Work is in the returned state exactly when its outcome says so, through every
\* order of checks, outcomes, edits and corrections of the state.
ReturnedIsCoherent == review # None => (review.state = Returned <=> review.outcome = Returned)

\* An observation selected for feedback is the one the teacher selected, also
\* after units were replaced and its id was used again.
SelectedIsMeant ==
  review # None =>
    \A o \in Appearing(review) : o.birth = meant[o.id]

\* The usage count never runs ahead of the selections, wherever a call stops and
\* however many count at once.  A comment that the record says was saved for reuse
\* is in the bank, while one session at a time works with the comment set.
OneSession == \A s, t \in Session : s = t
BankAgrees ==
  review # None =>
    /\ bank.used <= review.used
    /\ OneSession => review.saved <= bank.saved

\* docs/review_record_contract.md:717-719: each selected observation must itself
\* have include_in_feedback true; lines 590-591: it controls whether the
\* observation may appear in student-facing feedback.
SelectedMayAppear == review # None => \A o \in Appearing(review) : o.include
=============================================================================
