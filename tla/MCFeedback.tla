------------------------------ MODULE MCFeedback ------------------------------
(* The feedback of one student, and the reader that hands it out with a     *)
(* published result, each on a small instance, in one run: the initial      *)
(* state picks the component.                                               *)
EXTENDS Naturals

CONSTANTS Exporter, MaxTime, MaxText, MaxVersion  \* ResultArtifacts

ASSUME MCFeedbackAssumption ==
  MaxTime \in Nat \ {0} /\ MaxText \in Nat \ {0} /\ MaxVersion \in Nat \ {0}

VARIABLES
  subject,  \* the component
  content, exports, file, selection, clock, at, doing, selecting, slipped, packet,
  version, work, bound, reading

A == INSTANCE ResultArtifacts WITH review <- content, selected <- selection, job <- doing

Unread == "off"
artifacts == <<version, work, bound, reading>>
allOfFeedback ==
  <<subject, content, exports, file, selection, clock, at, doing, selecting, slipped, packet, artifacts>>

FeedbackInit ==
  \/ /\ subject = "export" /\ A!Init
     /\ version = Unread /\ work = Unread /\ bound = Unread /\ reading = Unread
  \/ subject = "artifacts" /\ A!StartOfArtifacts

FeedbackNext ==
  /\ UNCHANGED subject
  /\ \/ subject = "export" /\ A!Next /\ UNCHANGED artifacts
     \/ subject = "artifacts" /\ A!NextOfArtifacts

FeedbackSpec == FeedbackInit /\ [][FeedbackNext]_allOfFeedback

\* Bounds: no assembly while a selection is in progress.  While results are
\* read, there is neither an assembly nor a batch, one time stamp less is given
\* out, and the evidence of one selection is damaged.
FeedbackBounds ==
  /\ subject = "export" => packet'.step = "idle" \/ selecting'.step = "no"
  /\ subject = "artifacts" =>
       /\ packet'.step = "idle" /\ \A e \in Exporter : at'[e] # "preview"
       /\ clock' < MaxTime
       /\ \A s, t \in A!Selection : work'[s] # "sound" /\ work'[t] # "sound" => s = t

-----------------------------------------------------------------------------
(* Properties: each of its component, as the component's module states it *)

\* Both components' type invariants.
FeedbackTypeOK == /\ subject = "export" => A!TypeOK
                  /\ subject = "artifacts" => A!ArtifactsTypeOK

\* What is called current, complete, exported by a batch, or put into a packet,
\* shows the review as it is, and for the selection it was made for; what is
\* handed out with a published result belongs to it.
FeedbackIsTrue ==
  /\ subject = "export" =>
       /\ A!CurrentIsTrue /\ A!CompleteIsExported /\ A!LegacyIsBound
       /\ A!BatchIsTrue /\ A!PacketIsCurrent
  /\ subject = "artifacts" => A!ArtifactIsBound
=============================================================================
