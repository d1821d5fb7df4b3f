---------------------------- MODULE FeedbackExport ----------------------------
(***************************************************************************)
(* Feedback of one student: quillan/feedback_export.py renders the review  *)
(* record into a PDF and a Markdown file and then records in the review    *)
(* from which state of it; assignment_summary_context.py tells from that   *)
(* whether a file is current; batch_feedback_export.py plans, exports and  *)
(* verifies for a class; batch_feedback_assembly.py collects current PDFs  *)
(* into a packet.  Editors change the review, and submissions their        *)
(* selection, between any two steps; exports fail or die anywhere.         *)
(***************************************************************************)
EXTENDS Naturals, FiniteSets

CONSTANTS
  Exporter,  \* processes that export feedback, alone or in a batch
  MaxTime,   \* bound on time stamps given out
  MaxText    \* bound on versions of the review's content

VARIABLES
  review,    \* its content's version, updated_at, and whether it is composed
  exports,   \* Format -> the metadata of its export, in the review record
  file,      \* Format -> the file, or NoFile
  selected,  \* the evidence selection of the submission
  clock,     \* time stamps given out
  at, job,   \* Exporter -> its next step and what it works with
  selecting, \* a selection in progress: what was loaded
  slipped,   \* history: the selection moved without binding legacy feedback
  packet     \* an assembly of the student's PDF in progress

vars == <<review, exports, file, selected, clock, at, job, selecting, slipped, packet>>

Format == {"pdf", "markdown"}
Time == 0 .. MaxTime
Text == 1 .. MaxText
Selection == {1, 2}
Unbound == 0   \* metadata from before selections were recorded

NoFile == [text |-> 0, time |-> 0]
NoMetadata == [source |-> 0, selection |-> 0, there |-> FALSE]
Metadata == [source : Time, selection : Selection \cup {Unbound}, there : {TRUE}]

-----------------------------------------------------------------------------
(* Freshness *)

\* feedback_status; feedback without a selection is judged by time alone.
Status(f) ==
  IF exports[f].there
  THEN IF file[f] = NoFile THEN "missing"
       ELSE IF \/ exports[f].source # review.updated
               \/ exports[f].selection \notin {Unbound, selected}
       THEN "stale" ELSE "present"
  ELSE IF file[f] # NoFile THEN "unknown" ELSE "missing"

\* classify_review_work_queue_item, from the point where feedback is composed.
Category ==
  IF ~review.composed THEN "in_review"
  ELSE IF \E f \in Format : Status(f) = "present" THEN "complete" ELSE "export_pending"

-----------------------------------------------------------------------------
Single == [formats |-> {}, overwrite |-> FALSE, planned |-> {}]
Idle == [want |-> Single, time |-> 0, text |-> 0, selection |-> 0, current |-> FALSE, left |-> {}]
NotSelecting == [step |-> "no", loaded |-> 1, fresh |-> FALSE]
NoPacket == [step |-> "idle", updated |-> 0, bytes |-> NoFile, then |-> 0]

Init ==
  /\ review = [text |-> 1, updated |-> 1, composed |-> TRUE]
  \* feedback of an earlier release may be there, current or not.
  /\ \/ exports = [f \in Format |-> NoMetadata] /\ file = [f \in Format |-> NoFile]
     \/ /\ exports = [f \in Format |-> IF f = "pdf" THEN
                        [source |-> 1, selection |-> Unbound, there |-> TRUE] ELSE NoMetadata]
        /\ file = [f \in Format |-> IF f = "pdf" THEN [text |-> 1, time |-> 1] ELSE NoFile]
  /\ selected = 1 /\ clock = 1
  /\ at = [e \in Exporter |-> "idle"] /\ job = [e \in Exporter |-> Idle]
  /\ selecting = NotSelecting /\ slipped = FALSE /\ packet = NoPacket

\* After a write of the review record, whoever loaded it before is refused; so
\* is, after a write of the manifest, a selection.
Outdated == [e \in Exporter |-> [job[e] EXCEPT !.current = FALSE]]
ReviewWritten ==
  /\ job' = Outdated
  /\ selecting' = IF selecting.step = "bind" THEN NotSelecting ELSE selecting
ManifestWritten == selecting' = [selecting EXCEPT !.fresh = FALSE]
Go(e, step) == at' = [at EXCEPT ![e] = step]
End(e) == Go(e, "idle") /\ job' = [job EXCEPT ![e] = Idle]
surroundings == <<selected, selecting, slipped, packet>>

-----------------------------------------------------------------------------
(* One export *)

Wanted == {{"markdown"}, {"pdf"}, Format}

\* The time is taken before the records are loaded.
Begin(e, want) ==
  /\ clock < MaxTime
  /\ clock' = clock + 1
  /\ Go(e, "load")
  /\ job' = [job EXCEPT ![e] = [Idle EXCEPT !.want = want, !.time = clock + 1]]
  /\ UNCHANGED <<review, exports, file, surroundings>>

Export(e) ==
  /\ at[e] = "idle"
  /\ \E fs \in Wanted, ow \in BOOLEAN : Begin(e, [formats |-> fs, overwrite |-> ow, planned |-> {}])

\* Mutant: both formats are exported whichever was asked for.
LoadForBoth(e) ==
  /\ at[e] = "load"
  /\ Go(e, "write")
  /\ job' = [job EXCEPT ![e] = [@ EXCEPT !.text = review.text, !.selection = selected,
                                         !.current = TRUE, !.left = Format]]
  /\ UNCHANGED <<review, exports, file, clock, surroundings>>

\* _load_export_context and the look whether there is something to overwrite.
Load(e) ==
  LET w == job[e].want IN
  /\ at[e] = "load"
  /\ w.overwrite \/ \A f \in w.formats : file[f] = NoFile
  /\ Go(e, "write")
  /\ job' = [job EXCEPT ![e] = [@ EXCEPT !.text = review.text, !.selection = selected,
                                         !.current = TRUE, !.left = w.formats]]
  /\ UNCHANGED <<review, exports, file, clock, surroundings>>

\* export_student_feedback_pdf writes the PDF first, and the Markdown if it is wanted.
NextFormat(left) == IF "pdf" \in left THEN "pdf" ELSE "markdown"

\* _write_feedback_pdf and _write_feedback: each at once, and only where there is
\* nothing unless something may be overwritten.
WriteFile(e) ==
  LET f == NextFormat(job[e].left) IN
  /\ at[e] = "write" /\ job[e].left # {}
  /\ job[e].want.overwrite \/ file[f] = NoFile
  /\ file' = [file EXCEPT ![f] = [text |-> job[e].text, time |-> job[e].time]]
  /\ job' = [job EXCEPT ![e] = [@ EXCEPT !.left = job[e].left \ {f}]]
  /\ UNCHANGED <<review, exports, clock, at, surroundings>>

NewMetadata(e) ==
  [f \in Format |-> IF f \in job[e].want.formats
     THEN [source |-> job[e].time, selection |-> job[e].selection, there |-> TRUE]
     ELSE exports[f]]

AfterExport(e) == IF job[e].want.planned = {} THEN "idle" ELSE "verify"

\* Mutant: the metadata is written over whatever the review has become.
UpdateMetadataAnyhow(e) ==
  /\ at[e] = "write" /\ job[e].left = {}
  /\ review' = [review EXCEPT !.updated = job[e].time, !.composed = TRUE]
  /\ exports' = NewMetadata(e)
  /\ Go(e, AfterExport(e)) /\ ReviewWritten
  /\ UNCHANGED <<file, selected, clock, slipped, packet>>

\* _update_export_metadata: the review is exported as of the time taken, if it
\* is still the one that was loaded.
UpdateMetadata(e) ==
  /\ at[e] = "write" /\ job[e].left = {} /\ job[e].current
  /\ review' = [review EXCEPT !.updated = job[e].time, !.composed = TRUE]
  /\ exports' = NewMetadata(e)
  /\ Go(e, AfterExport(e)) /\ ReviewWritten
  /\ UNCHANGED <<file, selected, clock, slipped, packet>>

\* A refusal, an error or a death, wherever the export stands.
Fail(e) ==
  /\ at[e] # "idle" /\ End(e)
  /\ UNCHANGED <<review, exports, file, clock, surroundings>>

-----------------------------------------------------------------------------
(* Batch export: preview, confirm, look again, export, verify *)

Policy == {"none", "stale", "all"}
Statuses(fs) == {Status(f) : f \in fs}

\* _planned_action
Planned(fs, policy) ==
  IF "unknown" \in Statuses(fs) THEN "blocked"
  ELSE IF Statuses(fs) = {"missing"} THEN "create"
  ELSE IF policy = "all" /\ Statuses(fs) # {"missing"} THEN "replace"
  ELSE IF policy = "stale" /\ "stale" \in Statuses(fs) THEN "replace"
  ELSE IF Statuses(fs) = {"present"} THEN "skip"
  ELSE "blocked"

Snapshot(fs) == [category |-> Category, updated |-> review.updated,
                 status |-> [f \in fs |-> Status(f)]]

\* build_batch_feedback_export_plan
Preview(e) ==
  \E fs \in Wanted, policy \in Policy :
    /\ at[e] = "idle" /\ review.composed
    /\ Planned(fs, policy) \in {"create", "replace"}
    /\ Go(e, "preview")
    /\ job' = [job EXCEPT ![e] = [@ EXCEPT !.want =
                 [formats |-> fs, planned |-> {Snapshot(fs)},
                  overwrite |-> Planned(fs, policy) = "replace"]]]
    /\ UNCHANGED <<review, exports, file, clock, surroundings>>

\* execute_batch_feedback_export: a student whose state changed is left alone.
Confirm(e) ==
  /\ at[e] = "preview"
  /\ Snapshot(job[e].want.formats) \in job[e].want.planned
  /\ Begin(e, job[e].want)

\* _verify_student_export: the student is reported as exported.
Verified(e) ==
  /\ at[e] = "verify"
  /\ \A f \in job[e].want.formats : Status(f) = "present" /\ exports[f].source = review.updated

Verify(e) ==
  /\ at[e] = "verify" /\ End(e)
  /\ UNCHANGED <<review, exports, file, clock, surroundings>>

-----------------------------------------------------------------------------
(* Assembly of the PDF into a packet *)

Step(step) == packet' = [packet EXCEPT !.step = step]
others == <<review, exports, file, selected, clock, at, job, selecting, slipped>>

\* _inspect_student, its first half: the status, then (InspectBytes) the file.
Inspect ==
  /\ packet.step \in {"idle", "confirmed"}
  /\ Status("pdf") = "present" /\ exports["pdf"].source = review.updated
  /\ IF packet.step = "idle"
     THEN packet' = [packet EXCEPT !.step = "inspected", !.updated = review.updated]
     ELSE /\ packet.updated = review.updated
          /\ packet' = [packet EXCEPT !.step = "again", !.then = review.text]
  /\ UNCHANGED others

InspectBytes ==
  /\ packet.step \in {"inspected", "again"}
  /\ file["pdf"] # NoFile
  /\ IF packet.step = "inspected"
     THEN packet' = [packet EXCEPT !.step = "confirmed", !.bytes = file["pdf"]]
     ELSE packet.bytes = file["pdf"] /\ Step("read")
  /\ UNCHANGED others

\* Mutant: the last read is used whatever it is.
UsableAnyhow == packet.step = "read" /\ file["pdf"] # NoFile

\* The last guarded read, compared with the preview, is what every output is
\* made of.
Usable == packet.step = "read" /\ packet.bytes = file["pdf"]

\* execute_feedback_assembly installs all outputs together.
Assemble ==
  /\ Usable /\ packet' = NoPacket
  /\ UNCHANGED others

\* The student is excluded, or the assembly fails.
GiveUp ==
  /\ packet.step # "idle" /\ packet' = NoPacket
  /\ UNCHANGED others

-----------------------------------------------------------------------------
(* The records change meanwhile *)

\* An edit of the review (ReviewRecord), in which it may be composed or not.
EditReview ==
  /\ clock < MaxTime /\ review.text < MaxText
  /\ clock' = clock + 1
  /\ \E composed \in BOOLEAN :
       review' = [text |-> review.text + 1, updated |-> clock + 1, composed |-> composed]
  /\ ReviewWritten
  /\ UNCHANGED <<exports, file, selected, at, slipped, packet>>

IsLegacy(f) == exports[f].there /\ exports[f].source = review.updated /\ exports[f].selection = Unbound

\* Mutant: the selection moves without binding.
LoadForSelectionOnly ==
  /\ selecting = NotSelecting
  /\ selecting' = [step |-> "move", loaded |-> selected, fresh |-> TRUE]
  /\ UNCHANGED <<review, exports, file, selected, clock, at, job, slipped, packet>>

\* select_submission_evidence_candidate loads review and manifest; there may be
\* current legacy feedback to bind.
LoadForSelection ==
  /\ selecting = NotSelecting
  /\ selecting' = [step |-> IF \E f \in Format : IsLegacy(f) THEN "bind" ELSE "move",
                   loaded |-> selected, fresh |-> TRUE]
  /\ UNCHANGED <<review, exports, file, selected, clock, at, job, slipped, packet>>

\* _bind_legacy_feedback_exports_to_selection, refused once the review was
\* written; updated_at stays as it is.
Bind ==
  /\ selecting.step = "bind"
  /\ exports' = [f \in Format |-> IF IsLegacy(f) THEN [exports[f] EXCEPT !.selection = selecting.loaded]
                                  ELSE exports[f]]
  /\ selecting' = [selecting EXCEPT !.step = "move"]
  /\ job' = Outdated
  /\ UNCHANGED <<review, file, selected, clock, at, slipped, packet>>

\* update_quillan_submission_manifest, refused once the manifest was written.
MoveSelection ==
  /\ selecting.step = "move" /\ selecting.fresh
  /\ selecting' = NotSelecting
  /\ selected' \in Selection \ {selected}
  /\ UNCHANGED <<review, exports, file, clock, at, job, slipped, packet>>

FailSelection ==
  /\ selecting.step # "no" /\ selecting' = NotSelecting
  /\ UNCHANGED <<review, exports, file, selected, clock, at, job, slipped, packet>>

\* Excluding or restoring a page, or assembling the first scan of one, moves the
\* selection too, and binds nothing.
OtherSelection ==
  /\ ManifestWritten /\ selected' \in Selection \ {selected}
  /\ slipped' = (slipped \/ \E f \in Format : IsLegacy(f))
  /\ UNCHANGED <<review, exports, file, clock, at, job, packet>>

Next ==
  \/ \E e \in Exporter :
       \/ Export(e) \/ Load(e) \/ WriteFile(e) \/ UpdateMetadata(e) \/ Fail(e)
       \/ Preview(e) \/ Confirm(e) \/ Verify(e)
  \/ Inspect \/ InspectBytes \/ Assemble \/ GiveUp
  \/ EditReview \/ LoadForSelection \/ Bind \/ MoveSelection \/ FailSelection \/ OtherSelection

Spec == Init /\ [][Next]_vars

-----------------------------------------------------------------------------
(* Properties *)

\* Type invariant.
TypeOK ==
  /\ review \in [text : Text, updated : Time, composed : BOOLEAN]
  /\ exports \in [Format -> Metadata \cup {NoMetadata}]
  /\ file \in [Format -> [text : Text \cup {0}, time : Time]]
  /\ selected \in Selection /\ clock \in Time
  /\ at \in [Exporter -> {"idle", "preview", "load", "write", "verify"}]
  /\ \A e \in Exporter : job[e].left \subseteq job[e].want.formats
  /\ packet.step \in {"idle", "inspected", "confirmed", "again", "read"}

\* Two processes that export at once may leave the file of one beside the metadata
\* of the other.
OneExporter == \A d, e \in Exporter : d = e

\* While one process exports at a time, feedback that is called current shows the
\* review as it is, although the file is written first and the record of it later,
\* if at all.
CurrentIsTrue ==
  OneExporter => \A f \in Format : Status(f) = "present" => file[f].text = review.text

\* Work that the queue calls complete has such feedback.
CompleteIsExported ==
  OneExporter /\ Category = "complete" => \E f \in Format : file[f].text = review.text

\* Legacy feedback, which records no selection, is called current only for the
\* selection it was made for: the first selection a teacher changes binds it.
\* Selections that page operations moved meanwhile are not covered.
LegacyIsBound ==
  \A f \in Format : Status(f) = "present" /\ exports[f].selection = Unbound => selected = 1 \/ slipped

\* What a batch reports as exported shows the review as it is.
BatchIsTrue ==
  OneExporter =>
    \A e \in Exporter : Verified(e) => \A f \in job[e].want.formats : file[f].text = review.text

\* What goes into a packet was current when the assembly looked at it for the
\* second time, whatever was exported or edited since the preview.
PacketIsCurrent == OneExporter /\ Usable => file["pdf"].text = packet.then
=============================================================================
