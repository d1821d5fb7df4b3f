-------------------------------- MODULE Sharing --------------------------------
(***************************************************************************)
(* A teacher shares the results of one assignment: the guided menu of      *)
(* quillan/share_results_menu.py over the status of share_results.py.      *)
(*                                                                         *)
(* The status is read in three steps, registration, publication series and *)
(* native results; the menu offers what it derives from it, asks for a     *)
(* typed confirmation and calls one service.  Before a publication it reads*)
(* the status again twice, to preview it and to see that nothing changed.  *)
(* The services are one step each (ManifestGeneration and Publication take *)
(* them apart).  Meanwhile others use the unguided menus and the command   *)
(* line, edit the assignment and its reviews.  A publication id is its     *)
(* position in Core's series.                                              *)
(***************************************************************************)
EXTENDS Integers, Sequences

CONSTANTS
  Sharer,    \* the teachers at the guided menu
  MaxEvents  \* bound on everything but following the menu

ASSUME SharingAssumption == MaxEvents \in Nat

VARIABLES
  title,      \* of the assignment, a version
  content,    \* what a manifest made now would show, a version
  valid,      \* whether one could be made
  producer,   \* the manifest revisions: what each shows
  registered, \* Core's current registration
  pubs,       \* Core's series: [rev, sup, reg]
  withdrawn,  \* publications that are withdrawn
  desk,       \* Sharer -> the screen and what was read for it
  shares,     \* history: publications made, as confirmed
  events

vars == <<title, content, valid, producer, registered, pubs, withdrawn, desk, shares, events>>
native == <<title, content, valid>>
core == <<registered, pubs, withdrawn>>

Event == events < MaxEvents /\ events' = events + 1
Quiet == UNCHANGED events

NoStatus == [reg |-> 0, stale |-> FALSE, cancelled |-> FALSE, producer |-> 0,
             head |-> 0, headRev |-> 0, withdrawn |-> FALSE, native |-> "unread"]
Away == [at |-> "away", use |-> "menu", saw |-> NoStatus, preview |-> NoStatus, intended |-> "none",
         accepted |-> 0, existing |-> FALSE, asked |-> 0,
         got |-> 0, slipped |-> FALSE, told |-> "nothing"]

Init ==
  /\ title = 0 /\ content = 0 /\ valid \in BOOLEAN
  /\ producer = <<>> /\ pubs = <<>> /\ withdrawn = {}
  /\ registered = [rev |-> 0, title |-> 0, cancelled |-> FALSE]
  /\ desk = [t \in Sharer |-> Away]
  /\ shares = {} /\ events = 0

-----------------------------------------------------------------------------
(* The status *)

\* plan_share_publication
Plan(s) ==
  IF s.producer = 0 THEN "manifest_required"
  ELSE IF s.head = 0 THEN "initial_publication"
  ELSE IF s.withdrawn THEN "advanced_republication_required"
  ELSE IF s.headRev = s.producer THEN "already_current"
  ELSE "supersede_current"

\* Mutant: whatever the results are now.
NextStepByHead(s) ==
  IF Plan(s) = "already_current" THEN "already_shared_current"
  ELSE IF s.reg = 0 THEN "register_academic_work"
  ELSE IF s.cancelled THEN "update_cancelled_registration"
  ELSE IF s.native = "invalid" THEN "resolve_native_result_state"
  ELSE IF s.native # "matches" THEN "generate_manifest"
  ELSE IF Plan(s) = "initial_publication" THEN "publish_initial"
  ELSE Plan(s)

\* _derive_next_step
NextStep(s) ==
  IF s.native = "matches" /\ Plan(s) = "already_current" THEN "already_shared_current"
  ELSE IF s.reg = 0 THEN "register_academic_work"
  ELSE IF s.cancelled THEN "update_cancelled_registration"
  ELSE IF s.native = "invalid" THEN "resolve_native_result_state"
  ELSE IF s.native # "matches" THEN "generate_manifest"
  ELSE IF Plan(s) = "initial_publication" THEN "publish_initial"
  ELSE Plan(s)

\* Mutant: the same revision, of whatever head.
SamePreviewOfRevision(before, after, intended) ==
  NextStep(after) = intended /\ after.producer = before.producer

\* _same_publication_preview
SamePreview(before, after, intended) ==
  /\ NextStep(after) = intended
  /\ after.reg = before.reg /\ after.producer = before.producer
  /\ after.head = before.head /\ after.headRev = before.headRev
  /\ after.withdrawn = before.withdrawn

\* stale_needs_choice
StaleNeedsChoice(d) ==
  /\ d.saw.stale /\ d.accepted # d.saw.reg
  /\ NextStep(d.saw) \notin {"already_shared_current", "advanced_republication_required"}

\* _print_verified_publication_result
Reconciled(d, s) == NextStep(s) = "already_shared_current" /\ s.head = d.got /\ ~s.withdrawn

Put(t, d) == desk' = [desk EXCEPT ![t] = d]
ToMenu(d) == [d EXCEPT !.at = "registration", !.use = "menu", !.saw = NoStatus, !.asked = Away.asked,
                       !.preview = NoStatus, !.intended = "none", !.got = 0, !.slipped = FALSE]
ToRead(d, use) == [d EXCEPT !.at = "registration", !.use = use, !.saw = NoStatus]
Stopped(told) == [Away EXCEPT !.told = told]

\* build_share_results_status: the assignment and its registration,
ReadRegistration(t) ==
  LET d == desk[t] IN
  /\ d.at = "registration"
  /\ Put(t, [d EXCEPT !.at = "series", !.saw.reg = registered.rev,
                      !.saw.stale = registered.rev # 0 /\ registered.title # title,
                      !.saw.cancelled = registered.rev # 0 /\ registered.cancelled])
  /\ Quiet /\ UNCHANGED <<native, producer, core, shares>>

\* the producer's and Core's history,
ReadSeries(t) ==
  LET d == desk[t] head == Len(pubs) IN
  /\ d.at = "series"
  /\ Put(t, [d EXCEPT !.at = "native", !.saw.producer = Len(producer), !.saw.head = head,
                      !.saw.headRev = IF head = 0 THEN 0 ELSE pubs[head].rev,
                      !.saw.withdrawn = head \in withdrawn])
  /\ Quiet /\ UNCHANGED <<native, producer, core, shares>>

\* and the results as they are now, against the newest revision.
Native(saw) ==
  IF ~valid THEN "invalid"
  ELSE IF saw.producer # 0 /\ producer[saw.producer] = content THEN "matches" ELSE "differs"
Read(d) == [d.saw EXCEPT !.native = Native(d.saw)]

ReadNative(t, use, shown) ==
  /\ desk[t].at = "native" /\ desk[t].use = use
  /\ Put(t, shown)
  /\ Quiet /\ UNCHANGED <<native, producer, core, shares>>

\* The menu shows it;
ShowMenu(t) ==
  LET d == desk[t] IN ReadNative(t, "menu", [d EXCEPT !.at = "menu", !.saw = Read(d)])

\* the publication is previewed, if it is still the next step;
ShowPreview(t) ==
  LET d == desk[t] s == Read(d) IN
  ReadNative(t, "preview",
    IF NextStep(s) = d.intended
    THEN [d EXCEPT !.at = "confirm publication", !.saw = s, !.preview = s] ELSE ToMenu(d))

\* nothing may have changed since the preview;
CheckFresh(t) ==
  LET d == desk[t] s == Read(d) IN
  ReadNative(t, "fresh",
    IF SamePreview(d.preview, s, d.intended) THEN [d EXCEPT !.at = "publish", !.saw = s] ELSE ToMenu(d))

\* and the publication must be what is shared now.
Reconcile(t) ==
  LET d == desk[t] IN
  ReadNative(t, "final",
    IF Reconciled(d, Read(d)) THEN [ToMenu(d) EXCEPT !.told = "published"] ELSE Stopped("not reconciled"))

\* ShareResultsError: the menu may be tried again; a publication is not started,
\* or is made and not confirmed.
StatusUnavailable(t) ==
  LET d == desk[t] IN
  /\ d.at \in {"registration", "series"}
  /\ Put(t, IF d.use = "final" THEN Stopped("not reconciled") ELSE ToMenu(d))
  /\ Event /\ UNCHANGED <<native, producer, core, shares>>

-----------------------------------------------------------------------------
(* The menu *)

Moves(t, d) == Put(t, d) /\ UNCHANGED <<native, producer, core, shares>>
AtMenu(t) == desk[t].at = "menu"

\* launch_share_results_with_meridian_menu, from the actions of an assignment.
OpenMenu(t) == desk[t].at = "away" /\ Moves(t, ToMenu(Away)) /\ Quiet

\* The teacher goes back, or the process ends.
Leave(t) == desk[t].at # "away" /\ Moves(t, Away) /\ Event

\* _action_for_status: what can be done here.
Offered(s) ==
  NextStep(s) \in {"register_academic_work", "update_cancelled_registration", "generate_manifest",
                  "publish_initial", "supersede_current"}

\* R, which is all there is to do when nothing is offered.
Refresh(t) ==
  /\ AtMenu(t) /\ Moves(t, ToMenu(desk[t]))
  /\ IF Offered(desk[t].saw) THEN Event ELSE Quiet

\* Mutant: the choice is not remembered.
ContinueStaleOnce(t) ==
  AtMenu(t) /\ StaleNeedsChoice(desk[t]) /\ Moves(t, ToMenu(desk[t])) /\ Quiet

\* Continue using this registration
ContinueStale(t) ==
  /\ AtMenu(t) /\ StaleNeedsChoice(desk[t])
  /\ Moves(t, [ToMenu(desk[t]) EXCEPT !.accepted = desk[t].saw.reg]) /\ Quiet

ToRegistration(d, existing) == [d EXCEPT !.at = "register", !.existing = existing, !.accepted = 0]

\* Update registration before sharing
UpdateStale(t) ==
  /\ AtMenu(t) /\ StaleNeedsChoice(desk[t])
  /\ Moves(t, ToRegistration(desk[t], TRUE)) /\ Quiet

\* The one step that the menu offers.
TakeStep(t) ==
  LET d == desk[t] step == NextStep(d.saw) IN
  /\ AtMenu(t) /\ ~StaleNeedsChoice(d) /\ Offered(d.saw) /\ Quiet
  /\ \/ /\ step \in {"register_academic_work", "update_cancelled_registration"}
        /\ Moves(t, ToRegistration(d, step = "update_cancelled_registration"))
     \/ /\ step = "generate_manifest" /\ Moves(t, [d EXCEPT !.at = "confirm generation"])
     \/ /\ step \in {"publish_initial", "supersede_current"}
        /\ Moves(t, ToRead([d EXCEPT !.intended = step], "preview"))

\* Nothing, or another word, is typed.
Decline(t) ==
  /\ desk[t].at \in {"confirm registration", "confirm generation", "confirm publication"}
  /\ Moves(t, ToMenu(desk[t])) /\ Event

\* _guided_registration up to its confirmation.
PreviewRegistration(t) ==
  LET d == desk[t] IN
  /\ d.at = "register" /\ Quiet
  /\ Moves(t, IF (registered.rev # 0) # d.existing THEN ToMenu(d)
              ELSE [d EXCEPT !.at = "confirm registration",
                             !.asked = registered.rev])

-----------------------------------------------------------------------------
(* The services *)

\* A menu between the check and the call does not see that the registration changed.
Slip(d) ==
  [d EXCEPT !.slipped = @ \/ /\ registered' # registered
                             /\ d.use = "fresh" /\ d.at \in {"series", "native", "publish"}]
PutAndSlip(t, d) == desk' = [u \in Sharer |-> IF u = t THEN d ELSE Slip(desk[u])]

\* Core registers what is not registered, and replaces the expected revision; the
\* exact registration that is there is an answer too.
Registerable(expected, cancelled) ==
  \/ registered.rev = expected
  \/ expected = 0 /\ registered.title = title /\ registered.cancelled = cancelled

\* register_quillan_academic_work and update_quillan_academic_work_registration:
\* with the title the assignment has at the call.
Register(cancelled) ==
  registered' =
    IF registered.rev # 0 /\ registered.title = title /\ registered.cancelled = cancelled
    THEN registered
    ELSE [rev |-> registered.rev + 1, title |-> title, cancelled |-> cancelled]

\* REGISTER or UPDATE is typed; a conflict is told, and nothing is written.
ConfirmRegistration(t) ==
  LET d == desk[t] IN
  /\ d.at = "confirm registration" /\ Quiet
  /\ IF Registerable(d.asked, FALSE)
     THEN Register(FALSE) ELSE UNCHANGED registered
  /\ PutAndSlip(t, ToMenu(d))
  /\ UNCHANGED <<native, producer, pubs, withdrawn, shares>>

\* generate_academic_result_manifest: the newest revision is replayed while it
\* shows the results.
Generated ==
  producer' = IF producer # <<>> /\ producer[Len(producer)] = content THEN producer
              ELSE Append(producer, content)

\* GENERATE is typed; it fails where the results are not valid.
ConfirmGeneration(t) ==
  /\ desk[t].at = "confirm generation" /\ Quiet
  /\ IF valid THEN Generated ELSE UNCHANGED producer
  /\ Put(t, ToMenu(desk[t]))
  /\ UNCHANGED <<native, core, shares>>

\* PUBLISH or SUPERSEDE is typed: everything is read again.
ConfirmPublication(t) ==
  /\ desk[t].at = "confirm publication" /\ Quiet
  /\ Moves(t, ToRead(desk[t], "fresh"))

Publishes(rev) == {p \in DOMAIN pubs : pubs[p].rev = rev}

\* Mutant: whether the work is registered or not.
AcceptsUnregistered(rev, sup) ==
  /\ rev = Len(producer)
  /\ \/ \E p \in Publishes(rev) : pubs[p].sup = sup
     \/ Publishes(rev) = {} /\ Len(pubs) = sup /\ sup \notin withdrawn /\ ~registered.cancelled

\* What publish_quillan_academic_results and supersede_quillan_academic_results
\* accept: the newest revision over the named head, or its publication again.
Accepts(rev, sup) ==
  /\ rev = Len(producer)
  /\ \/ \E p \in Publishes(rev) : pubs[p].sup = sup
     \/ /\ Publishes(rev) = {} /\ Len(pubs) = sup /\ sup \notin withdrawn
        /\ registered.rev # 0 /\ ~registered.cancelled

Publish(rev, sup) ==
  pubs' = IF Publishes(rev) # {} THEN pubs
          ELSE Append(pubs, [rev |-> rev, sup |-> sup, reg |-> registered.rev])
Published(rev) == CHOOSE p \in DOMAIN pubs' : pubs'[p].rev = rev

\* The call: with the revision and the head that were confirmed.
Call(d) ==
  /\ Accepts(d.saw.producer, d.saw.head) /\ Publish(d.saw.producer, d.saw.head)
  /\ shares' = shares \cup
       {[pub |-> Published(d.saw.producer), confirmed |-> d.preview, existing |-> pubs' = pubs,
         slipped |-> d.slipped]}

CallPublication(t) ==
  LET d == desk[t] IN
  /\ d.at = "publish" /\ Quiet
  /\ \/ Call(d) /\ Put(t, ToRead([d EXCEPT !.got = Published(d.saw.producer)], "final"))
     \/ /\ ~Accepts(d.saw.producer, d.saw.head)
        /\ UNCHANGED <<pubs, shares>> /\ Put(t, ToMenu(d))
  /\ UNCHANGED <<native, producer, registered, withdrawn>>

\* A service reports that what it wrote may be there: the menu stops.
PartialSuccess(t) ==
  LET d == desk[t] IN
  /\ Event
  /\ \/ /\ d.at = "confirm registration" /\ Registerable(d.asked, FALSE)
        /\ Register(FALSE) \/ UNCHANGED registered
        /\ UNCHANGED <<producer, pubs, shares>>
     \/ /\ d.at = "confirm generation" /\ valid
        /\ Generated \/ UNCHANGED producer
        /\ UNCHANGED <<registered, pubs, shares>>
     \/ /\ d.at = "publish"
        /\ Call(d) \/ UNCHANGED <<pubs, shares>>
        /\ UNCHANGED <<registered, producer>>
  /\ PutAndSlip(t, Stopped("partial success"))
  /\ UNCHANGED <<native, withdrawn>>

\* It fails before it wrote anything.
ServiceFails(t) ==
  /\ desk[t].at \in {"confirm registration", "confirm generation", "publish"}
  /\ Moves(t, ToMenu(desk[t])) /\ Event

-----------------------------------------------------------------------------
(* Others, at the unguided menus and the command line.  What they name is  *)
(* checked by the services: a call that names anything else is refused.    *)

\* launch_academic_work_registration_menu; also to cancel.
RegisterElsewhere(cancelled) ==
  /\ Event /\ Register(cancelled) /\ desk' = [t \in Sharer |-> Slip(desk[t])]
  /\ UNCHANGED <<native, producer, pubs, withdrawn, shares>>

\* launch_academic_result_manifest_menu
GenerateElsewhere ==
  /\ Event /\ valid /\ Generated
  /\ UNCHANGED <<native, core, desk, shares>>

\* launch_academic_result_publication_menu: publish or supersede,
PublishElsewhere ==
  /\ Event /\ producer # <<>> /\ Accepts(Len(producer), Len(pubs))
  /\ Publish(Len(producer), Len(pubs))
  /\ UNCHANGED <<native, producer, registered, withdrawn, desk, shares>>

\* withdraw any publication,
WithdrawElsewhere ==
  /\ Event /\ \E p \in DOMAIN pubs : withdrawn' = withdrawn \cup {p}
  /\ UNCHANGED <<native, producer, registered, pubs, desk, shares>>

\* and republish after a withdrawn head: what came after it, or a successor made
\* for it.
RepublishElsewhere ==
  LET head == Len(pubs) IN
  /\ Event /\ head \in withdrawn /\ registered.rev # 0 /\ ~registered.cancelled
  /\ IF Len(producer) > pubs[head].rev THEN UNCHANGED producer
     ELSE valid /\ producer' = Append(producer, content)
  /\ pubs' = Append(pubs, [rev |-> Len(producer'), sup |-> head, reg |-> registered.rev])
  /\ UNCHANGED <<native, registered, withdrawn, desk, shares>>

\* The assignment is saved under another title, which the manifest shows too.
EditTitle ==
  /\ Event /\ title' = title + 1 /\ content' = content + 1
  /\ UNCHANGED <<valid, producer, core, desk, shares>>

\* Reviews change; one may not be read, or can be read again.
EditResults ==
  /\ Event /\ content' = content + 1 /\ valid' \in BOOLEAN
  /\ UNCHANGED <<title, producer, core, desk, shares>>

-----------------------------------------------------------------------------
\* What the menu leads a teacher to do.
Follow(t) ==
  \/ OpenMenu(t) \/ ReadRegistration(t) \/ ReadSeries(t)
  \/ ShowMenu(t) \/ ShowPreview(t) \/ CheckFresh(t) \/ Reconcile(t)
  \/ ContinueStale(t) \/ UpdateStale(t) \/ TakeStep(t)
  \/ PreviewRegistration(t) \/ ConfirmRegistration(t) \/ ConfirmGeneration(t)
  \/ ConfirmPublication(t) \/ CallPublication(t)
  \/ ~Offered(desk[t].saw) /\ Refresh(t)

Otherwise(t) ==
  \/ Leave(t) \/ Refresh(t) \/ Decline(t) \/ StatusUnavailable(t)
  \/ PartialSuccess(t) \/ ServiceFails(t)

Elsewhere ==
  \/ \E cancelled \in BOOLEAN : RegisterElsewhere(cancelled)
  \/ GenerateElsewhere \/ PublishElsewhere \/ WithdrawElsewhere \/ RepublishElsewhere
  \/ EditTitle \/ EditResults

Next == (\E t \in Sharer : Follow(t) \/ Otherwise(t)) \/ Elsewhere

Spec == Init /\ [][Next]_vars /\ \A t \in Sharer : WF_vars(Follow(t))

-----------------------------------------------------------------------------
(* Properties *)

Steps == {"away", "registration", "series", "native", "menu", "register", "confirm registration",
          "confirm generation", "confirm publication", "publish"}

\* Type invariant.
TypeOK ==
  /\ title \in Nat /\ content \in Nat /\ valid \in BOOLEAN /\ events \in 0 .. MaxEvents
  /\ registered \in [rev : Nat, title : Nat, cancelled : BOOLEAN]
  /\ \A r \in DOMAIN producer : producer[r] <= content
  /\ \A p \in DOMAIN pubs : pubs[p].rev \in DOMAIN producer /\ pubs[p].reg \in 1 .. registered.rev
  /\ withdrawn \subseteq DOMAIN pubs
  /\ \A t \in Sharer : desk[t].at \in Steps /\ desk[t].use \in {"menu", "preview", "fresh", "final"}

\* Whatever others did while the teacher read and typed: a publication that the menu
\* made or found is of the revision and over the head that were previewed and
\* confirmed, and bound to the registration shown there, unless that changed
\* after the last look at it, or somebody else had made it.
SharedAsConfirmed ==
  \A s \in shares :
    /\ pubs[s.pub].rev = s.confirmed.producer /\ pubs[s.pub].sup = s.confirmed.head
    /\ s.existing \/ s.slipped \/ pubs[s.pub].reg = s.confirmed.reg

IsShared ==
  /\ pubs # <<>> /\ producer[pubs[Len(pubs)].rev] = content
  /\ pubs[Len(pubs)].rev = Len(producer)

\* The results are shared as they are, unless they cannot be read, or a withdrawal
\* asks for the other menu.
SharingSettled == ~valid \/ Len(pubs) \in withdrawn \/ IsShared

=============================================================================
