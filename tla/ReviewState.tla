----------------------------- MODULE ReviewState -----------------------------
(***************************************************************************)
(* The workflow states of a review (quillan/review_record.py), how an edit *)
(* moves them, and what they say about its progress.                       *)
(***************************************************************************)

Returned == "returned_without_full_review"
State == {"not_started", "requirements_checked", Returned, "observations_in_progress",
          "observations_complete", "ratings_complete", "feedback_composed",
          "ready_for_export", "exported"}
Outcome == {"not_checked", "met", "unmet_continue_review", Returned}

-----------------------------------------------------------------------------
(* Where an edit of a stage leaves the state *)

\* Editing units or observations.
InProgress(state) ==
  IF state \in {"not_started", "requirements_checked", "observations_complete"}
    THEN "observations_in_progress" ELSE state

\* Editing a rating.
Rerated(state) ==
  IF state \in {"not_started", "requirements_checked"} THEN "observations_in_progress"
  ELSE IF state \in {"feedback_composed", "ready_for_export", "exported"}
    THEN "ratings_complete" ELSE state

\* Editing the feedback.
Recomposed(state) ==
  IF state \in {"feedback_composed", "ready_for_export", "exported"}
    THEN "ratings_complete" ELSE state

\* A requirement check.
Checked(state) == IF state = "not_started" THEN "requirements_checked" ELSE state

\* Mutant: the state takes the outcome's name.
DecidedAsOutcome(outcome) == outcome

\* An outcome.
Decided(outcome) == IF outcome = Returned THEN Returned ELSE "requirements_checked"

\* available_minimum_requirement_outcomes, of one requirement.
AvailableOutcomes(check, allow) ==
  (IF check = "met" THEN {"met"} ELSE {})
  \cup (IF check = "not_met" THEN {"unmet_continue_review"} ELSE {})
  \cup (IF check = "not_met" /\ allow THEN {Returned} ELSE {})

-----------------------------------------------------------------------------
(* review_progress_status *)

ComposedStates == {"feedback_composed", "ready_for_export", "exported"}
RatedStates == ComposedStates \cup {"ratings_complete"}
ObservedStates == RatedStates \cup {"observations_complete"}
=============================================================================
