--------------------------- MODULE ResultProjection ---------------------------
(***************************************************************************)
(* What of a student's review an academic-result manifest publishes:       *)
(* publication_projection_policy.py, as academic_result_manifest_          *)
(* generation.py applies it and academic_result_manifest.py validates the  *)
(* result, beside what feedback_export.py shows the student of the same    *)
(* review.  The two select texts by rules written down twice.              *)
(*                                                                         *)
(* The review is edited by whole calls (ReviewRecord takes them apart); of *)
(* its workflow states only the returned one matters here.  An observation *)
(* is named by its unit and its standard.                                  *)
(***************************************************************************)
EXTENDS FiniteSets, ReviewState

CONSTANTS
  Unit,     \* review units a teacher may define
  Standard  \* standards that may be in focus

VARIABLES
  assignment, \* its Focus Standards, unit type, rating scale, and whether work may be returned
  review,     \* the student's review
  rewritten   \* the assignment was written over since the review began

vars == <<assignment, review, rewritten>>

Observation == Unit \X Standard
Options == [rating : BOOLEAN, rationale : BOOLEAN, picked : SUBSET Observation]
Assignment == [focus : (SUBSET Standard) \ {{}}, kind : {1, 2}, scale : {1, 2}, returns : BOOLEAN]

\* A review: its units with the type they were made for; observations and overall
\* ratings, each of a level of one scale and with a rationale or none; and the
\* feedback composed of them.  Partial functions: what there is not is not in the
\* domain.
Empty == [state |-> "open", outcome |-> "not_checked", note |-> FALSE, unmet |-> FALSE,
          units |-> {}, kind |-> 0, observed |-> <<>>, rated |-> <<>>, options |-> <<>>,
          comments |-> {}, showObservations |-> FALSE]

With(f, x, y) == [z \in DOMAIN f \cup {x} |-> IF z = x THEN y ELSE f[z]]

Init ==
  /\ assignment \in {a \in Assignment : a.kind = 1 /\ a.scale = 1}
  /\ review = Empty /\ rewritten = FALSE

-----------------------------------------------------------------------------
(* The publication policy *)

\* _published_text
Published(there, include) == IF ~there THEN "absent" ELSE IF include THEN "included" ELSE "withheld"

\* Mutant: an observation is published because it may be shown.
ObservationSelectedAnyhow(r, o) == r.showObservations

\* observation_is_selected_for_feedback: by its own standard's options.
ObservationSelected(r, o) ==
  r.showObservations /\ o[2] \in DOMAIN r.options /\ o \in r.options[o[2]].picked

\* Mutant: a standard without options is taken for one without ratings.
RatingSelectedByOptions(r, s) == s \in DOMAIN r.options /\ r.options[s].rating

\* overall_rating_is_selected_for_feedback; without options the rating's own flag
\* decides.  (include_overall_standard_ratings is TRUE: nothing writes it.)
RatingSelected(r, s) ==
  IF s \in DOMAIN r.options THEN r.options[s].rating ELSE r.rated[s].include

\* project_overall_rating_rationale
RationaleSelected(r, s) ==
  RatingSelected(r, s) /\ (s \in DOMAIN r.options => r.options[s].rationale)

\* _returned_without_full_review: the outcome and the state must agree.
ReturnedSignalsAgree(r) == (r.outcome = Returned) <=> (r.state = Returned)

\* project_minimum_outcome_teacher_note
NoteText(r) == Published(r.note, r.outcome = Returned)

\* _build_review_snapshot: what becomes of each rationale of an observation,
ObservationTexts(r) ==
  [o \in DOMAIN r.observed |-> Published(r.observed[o].text, ObservationSelected(r, o))]

\* of each rationale of an overall rating, and of the rest.
Projection(r) ==
  [observations |-> ObservationTexts(r),
   ratings      |-> [s \in DOMAIN r.rated |-> Published(r.rated[s].text, RationaleSelected(r, s))],
   comments     |-> r.comments,
   note         |-> NoteText(r)]

\* _validate_student: units of the assignment's type, and observations of standards
\* in focus with a rating of its scale,
ObservationsFit(r, a) ==
  /\ r.units # {} => r.kind = a.kind
  /\ \A o \in DOMAIN r.observed : o[2] \in a.focus /\ r.observed[o].scale = a.scale

\* the same of overall ratings,
RatingsFit(r, a) == \A s \in DOMAIN r.rated : s \in a.focus /\ r.rated[s].scale = a.scale

\* and feedback of standards in focus that selects their own observations.
FeedbackFits(r, a) ==
  /\ \A s \in DOMAIN r.options :
       s \in a.focus /\ \A o \in r.options[s].picked : o \in DOMAIN r.observed /\ o[2] = s
  /\ \A c \in r.comments : c.of \in a.focus

\* What the generator does not refuse, and with it the manifest of the whole class.
Publishable(r, a) ==
  /\ ReturnedSignalsAgree(r) /\ (r.outcome = Returned => a.returns)
  /\ ObservationsFit(r, a) /\ RatingsFit(r, a) /\ FeedbackFits(r, a)

\* A set of texts, each named by what it is and what it is about.
Texts(observations, rationales, comments, note) ==
  {<<"observation", o>> : o \in observations} \cup {<<"rationale", s>> : s \in rationales}
  \cup {<<"comment", c.of>> : c \in {d \in comments : d.include}}
  \cup {<<"note">> : n \in {TRUE} \cap {note}}

\* The texts that can be read in the manifest.
IncludedTexts(p) ==
  Texts({o \in DOMAIN p.observations : p.observations[o] = "included"},
        {s \in DOMAIN p.ratings : p.ratings[s] = "included"},
        p.comments, p.note = "included")

-----------------------------------------------------------------------------
(* The student's feedback *)

\* _included_review_unit_observations, as _render_markdown prints them
ShownObservations(r) ==
  IF ~r.showObservations THEN {}
  ELSE {o \in DOMAIN r.observed :
          /\ r.observed[o].text
          /\ \E s \in DOMAIN r.options : s = o[2] /\ o \in r.options[s].picked}

\* _included_standard_ratings
ShownRationales(r) ==
  {s \in DOMAIN r.rated :
     /\ r.rated[s].text
     /\ \/ s \notin DOMAIN r.options /\ r.rated[s].include
        \/ s \in DOMAIN r.options /\ r.options[s].rating /\ r.options[s].rationale}

\* _assemble_student_feedback; of returned work, the note alone.
ShownTexts(r) ==
  IF r.state = Returned THEN Texts({}, {}, {}, TRUE)
  ELSE Texts(ShownObservations(r), ShownRationales(r), r.comments, FALSE)

\* _validated_returned_work_requirements: there is feedback of returned work.
Exportable(r) == r.state = Returned => r.outcome = Returned /\ r.note /\ r.unmet

-----------------------------------------------------------------------------
(* The edits *)

Open == review.state # Returned
Edit(r) == review' = r /\ UNCHANGED <<assignment, rewritten>>

\* _reconcile_feedback_observation_references
Dropped(r, kept) ==
  [s \in DOMAIN r.options |-> [r.options[s] EXCEPT !.picked = @ \cap kept]]

\* set_review_units: a unit is kept by its type and its number.
SetReviewUnits(us) ==
  LET kept == IF review.kind = assignment.kind
              THEN {o \in DOMAIN review.observed : o[1] \in us} ELSE {} IN
  /\ Open
  /\ Edit([review EXCEPT !.units = us, !.kind = assignment.kind,
                         !.observed = [o \in kept |-> review.observed[o]],
                         !.options = Dropped(review, kept)])

\* set_review_unit_observation, with a rating of the scale
SetObservation(o, text) ==
  /\ Open /\ o[1] \in review.units /\ o[2] \in assignment.focus
  /\ Edit([review EXCEPT !.observed = With(@, o, [text |-> text, scale |-> assignment.scale])])

\* set_overall_standard_rating
SetOverallRating(s, text, include) ==
  /\ Open /\ s \in assignment.focus
  /\ Edit([review EXCEPT !.rated =
             With(@, s, [text |-> text, include |-> include, scale |-> assignment.scale])])

\* Mutant: any observation there is may be selected.
EligibleAny(s) == DOMAIN review.observed

\* _validate_observation_ids_for_standard
Eligible(s) == {o \in DOMAIN review.observed : o[2] = s}

\* set_standard_feedback_options; the switch follows from what is selected.
SetFeedbackOptions(s, options) ==
  LET all == With(review.options, s, options) IN
  /\ Open /\ s \in assignment.focus /\ options.picked \subseteq Eligible(s)
  /\ Edit([review EXCEPT !.options = all,
                         !.showObservations = \E t \in DOMAIN all : all[t].picked # {}])

\* add_custom_feedback_comment and select_reusable_feedback_comment: options come
\* into being with the first comment.
AddComment(s, include) ==
  LET Default == [rating |-> TRUE, rationale |-> TRUE, picked |-> {}] IN
  /\ Open /\ s \in assignment.focus
  /\ Edit([review EXCEPT !.comments = @ \cup {[of |-> s, include |-> include]},
                         !.options = IF s \in DOMAIN @ THEN @ ELSE With(@, s, Default)])

\* set_requirement_check, of returned work too
SetRequirementCheck(met) == Edit([review EXCEPT !.unmet = ~met])

\* Mutant: the state is moved by a return and by nothing else.
StateOfReturn(status) == IF status = Returned THEN Returned ELSE review.state

StateAfter(status) == IF status = Returned THEN Returned ELSE "open"

\* set_minimum_requirement_outcome: whatever has been reviewed before.
SetOutcome(status, note) ==
  /\ status = Returned => note /\ assignment.returns /\ review.unmet
  /\ Edit([review EXCEPT !.outcome = status, !.note = note, !.state = StateAfter(status)])

\* The assignment is saved again over what is there (AssignmentBatch).
OverwriteAssignment ==
  /\ assignment' \in Assignment \ {assignment} /\ rewritten' = TRUE
  /\ UNCHANGED review

Next ==
  \/ \E us \in SUBSET Unit : us # {} /\ SetReviewUnits(us)
  \/ \E o \in Observation, text \in BOOLEAN : SetObservation(o, text)
  \/ \E s \in Standard, text, include \in BOOLEAN : SetOverallRating(s, text, include)
  \/ \E s \in Standard, options \in Options : SetFeedbackOptions(s, options)
  \/ \E s \in Standard, include \in BOOLEAN : AddComment(s, include)
  \/ \E met \in BOOLEAN : SetRequirementCheck(met)
  \/ \E status \in Outcome \ {"not_checked"}, note \in BOOLEAN : SetOutcome(status, note)
  \/ OverwriteAssignment

Spec == Init /\ [][Next]_vars

-----------------------------------------------------------------------------
(* Properties *)

\* Type invariant.
TypeOK ==
  /\ assignment \in Assignment /\ rewritten \in BOOLEAN
  /\ review.state \in {"open", Returned} /\ review.outcome \in Outcome
  /\ review.units \subseteq Unit /\ DOMAIN review.observed \subseteq review.units \X Standard
  /\ \A s \in DOMAIN review.options : review.options[s] \in Options
  /\ DOMAIN review.rated \cup DOMAIN review.options \subseteq Standard

\* The two selections agree: a review that is not returned publishes the texts its
\* feedback shows, and no other; of returned work both show the note.
PublishedAsShown ==
  LET included == IncludedTexts(Projection(review)) IN
  IF review.state = Returned
  THEN Exportable(review) => <<"note">> \in included
  ELSE included = ShownTexts(review)

\* No sequence of edits brings a review into a form that the generator refuses, and
\* so keeps the results of the class from being published, unless the assignment
\* was written over.
EditsStayPublishable == rewritten \/ Publishable(review, assignment)
=============================================================================
