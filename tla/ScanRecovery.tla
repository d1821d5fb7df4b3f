---------------------------- MODULE ScanRecovery ----------------------------
(***************************************************************************)
(* One routing failure in scan review: teachers decide about it by adding  *)
(* resolutions (quillan/scan_review_resolution.py), and recover its page   *)
(* onto a registered route (quillan/scan_recovery_*.py) while the          *)
(* submission the page joins is managed and packets are replaced.          *)
(*                                                                         *)
(* Persisting an observation, assembling a submission and what a teacher   *)
(* does to a page are one step each: ObservationPersistence and Submission *)
(* have the details.  Every step of a recovery may fail, or the process    *)
(* die: both leave what was written (Abandon).                             *)
(***************************************************************************)
EXTENDS Naturals, Sequences

CONSTANTS
  Session,      \* teachers' sessions
  Route,        \* registered routes of the failure's work
  MaxDecisions  \* bound on resolutions

VARIABLES
  decisions,  \* the resolutions in the order they were written
  clock,      \* time stamps given out
  issued,     \* routes whose packet is the student's current one
  page,       \* Route -> the page of the submission the route leads to
  place,      \* Route -> where the recovered evidence is
  pc, job,
  receipts    \* routes for which a recovery was reported as completed

vars == <<decisions, clock, issued, page, place, pc, job, receipts>>

Undecided == [time |-> 0, action |-> "none", route |-> "none"]
NoJob == [route |-> "none", basis |-> Undecided]
RouteActions == {"route_selected", "route_corrected"}
Placed == {"selected", "candidate", "dismissed", "rescan", "out"}

Init ==
  /\ decisions = <<>> /\ clock = 0 /\ issued = Route
  /\ page \in [Route -> {"empty", "filled"}] /\ place = [r \in Route |-> "none"]
  /\ pc = [s \in Session |-> "idle"] /\ job = [s \in Session |-> NoJob]
  /\ receipts = {}

Go(s, label, j) == pc' = [pc EXCEPT ![s] = label] /\ job' = [job EXCEPT ![s] = j]
materialized == <<page, place>>

-----------------------------------------------------------------------------
(* Decisions *)

\* The decision with the latest time stamp counts, whenever it was written.
Latest(ds) ==
  IF ds = <<>> THEN Undecided
  ELSE ds[CHOOSE i \in DOMAIN ds : \A k \in DOMAIN ds : ds[k].time <= ds[i].time]

\* The failure is read and validated and the time taken; a route action needs
\* the exact registered route, whether its packet is current or not.
Decide(s, action, r) ==
  /\ pc[s] = "idle" /\ clock < MaxDecisions
  /\ (action \in RouteActions) = (r \in Route)
  /\ clock' = clock + 1
  /\ Go(s, "decide", [NoJob EXCEPT !.basis = [time |-> clock + 1, action |-> action, route |-> r]])
  /\ UNCHANGED <<decisions, issued, materialized, receipts>>

WriteDecision(s) ==
  /\ pc[s] = "decide"
  /\ decisions' = Append(decisions, job[s].basis)
  /\ Go(s, "idle", NoJob)
  /\ UNCHANGED <<clock, issued, materialized, receipts>>

-----------------------------------------------------------------------------
(* Recovery *)

Recorded == Latest(decisions)

\* prepare_scan_review_recovery, for a route the teacher names or for the
\* latest recorded one; resolved failures are eligible too.
Prepare(s) ==
  /\ pc[s] = "idle"
  /\ \/ \E r \in issued : Go(s, "dispatch", [NoJob EXCEPT !.route = r])
     \/ /\ Recorded.action \in RouteActions /\ Recorded.route \in issued
        /\ Go(s, "dispatch", [route |-> Recorded.route, basis |-> Recorded])
  /\ UNCHANGED <<decisions, clock, issued, materialized, receipts>>

\* Preparing again yields the same preview.
StillAuthorized(s) ==
  /\ job[s].route \in issued
  /\ job[s].basis # Undecided => job[s].basis = Recorded

\* Each stage dispatches the page anew: authority is checked before and after.
After == [dispatch |-> "dispatched", dispatched |-> "persist", persist |-> "persisting",
          persisting |-> "write", assemble |-> "assembling", assembling |-> "rewrite"]

Dispatch(s) ==
  /\ pc[s] \in DOMAIN After
  /\ IF StillAuthorized(s) THEN Go(s, After[pc[s]], job[s]) ELSE Go(s, "idle", NoJob)
  /\ UNCHANGED <<decisions, clock, issued, materialized, receipts>>

\* The observation transaction of intake; for assembly it is run once more and
\* finds the observation.
Persist(s) ==
  /\ pc[s] \in {"write", "rewrite"}
  /\ place' = [place EXCEPT ![job[s].route] = IF @ = "none" THEN "observed" ELSE @]
  /\ Go(s, IF pc[s] = "write" THEN "assemble" ELSE "merge", job[s])
  /\ UNCHANGED <<decisions, clock, issued, page, receipts>>

\* Mutant: the recovered page is put forward wherever it is not selected.
MergedAnew(r) ==
  IF place[r] \in {"observed", "dismissed"}
  THEN IF page[r] = "empty" THEN [page |-> "filled", place |-> "selected"]
       ELSE [page |-> page[r], place |-> "candidate"]
  ELSE [page |-> page[r], place |-> place[r]]

\* An observation that is new to the submission is selected on an empty page
\* and a candidate elsewhere; one that is there already stays as it is.
Merged(r) ==
  IF place[r] = "observed"
  THEN IF page[r] = "empty" THEN [page |-> "filled", place |-> "selected"]
       ELSE [page |-> page[r], place |-> "candidate"]
  ELSE [page |-> page[r], place |-> place[r]]

Assemble(r) ==
  /\ page' = [page EXCEPT ![r] = Merged(r).page]
  /\ place' = [place EXCEPT ![r] = Merged(r).place]

Merge(s) ==
  /\ pc[s] = "merge" /\ Assemble(job[s].route)
  /\ Go(s, "verify", job[s])
  /\ UNCHANGED <<decisions, clock, issued, receipts>>

\* The evidence states the page's own state allows.
Allowed(r) == CASE page[r] = "needs_rescan" -> {"candidate", "rescan"}
                [] page[r] = "excluded" -> {"candidate", "out"}
                [] OTHER -> {"candidate", "selected"}

\* Mutant: completion is reported from the persisted observation alone.
VerifyObserved(s) ==
  /\ pc[s] = "merge"
  /\ receipts' = receipts \cup {job[s].route}
  /\ Go(s, "idle", NoJob)
  /\ UNCHANGED <<decisions, clock, issued, materialized>>

\* The submission is read back; a receipt is given or the recovery fails.
Verify(s) ==
  /\ pc[s] = "verify"
  /\ receipts' = IF place[job[s].route] \in Allowed(job[s].route)
                 THEN receipts \cup {job[s].route} ELSE receipts
  /\ Go(s, "idle", NoJob)
  /\ UNCHANGED <<decisions, clock, issued, materialized>>

Abandon(s) ==
  /\ pc[s] # "idle" /\ Go(s, "idle", NoJob)
  /\ UNCHANGED <<decisions, clock, issued, materialized, receipts>>

\* discover_historical_scan_recoveries: what has become of the recorded route.
Historical ==
  LET r == Recorded.route IN
  IF Recorded.action \notin RouteActions THEN "not_listed"
  ELSE IF r \notin issued THEN "blocked"
  ELSE IF place[r] = "none" THEN "evidence_missing"
  ELSE IF place[r] = "observed" THEN "assembly_pending"
  ELSE IF page[r] \in {"needs_rescan", "excluded"} THEN "teacher_action_needed"
  ELSE CASE place[r] = "selected" -> "ready_for_review"
         [] place[r] = "candidate" -> "selection_needed"
         [] OTHER -> "blocked"

-----------------------------------------------------------------------------
(* The submission and the packets change meanwhile *)

Set(r, newPage, newPlace) ==
  /\ page' = [page EXCEPT ![r] = newPage] /\ place' = [place EXCEPT ![r] = newPlace]

\* Another scan of the page is assembled; it takes stored observations along.
AnotherScan(r) == IF page[r] = "empty" THEN Set(r, "filled", IF place[r] = "observed" THEN "candidate" ELSE place[r])
                  ELSE Assemble(r)

Evidence(r) == place[r] \in Placed \/ page[r] # "empty"

Teacher(r) ==
  \/ AnotherScan(r)
  \/ place[r] = "candidate" /\ page[r] # "excluded" /\ Set(r, "filled", "selected")
  \/ place[r] \in {"selected", "rescan"} /\ page[r] # "excluded"     \* another scan is selected
     /\ Set(r, "filled", IF place[r] = "selected" THEN "candidate" ELSE "rescan")
  \/ place[r] = "candidate" /\ page[r] = "filled" /\ Set(r, "filled", "dismissed")
  \/ Evidence(r) /\ Set(r, "needs_rescan", IF place[r] \in Placed THEN "rescan" ELSE place[r])
  \/ Evidence(r) /\ Set(r, "excluded", IF place[r] \in Placed THEN "out" ELSE place[r])

Surroundings ==
  \/ /\ \E r \in Route : Teacher(r)
     /\ UNCHANGED <<decisions, clock, issued, pc, job, receipts>>
  \/ /\ \E r \in issued : issued' = issued \ {r}
     /\ UNCHANGED <<decisions, clock, materialized, pc, job, receipts>>

Next ==
  \/ \E s \in Session :
       \/ \E a \in {"deferred", "dismissed"} : Decide(s, a, "none")
       \/ \E r \in Route : Decide(s, "route_selected", r)
       \/ WriteDecision(s) \/ Prepare(s) \/ Dispatch(s) \/ Persist(s) \/ Merge(s) \/ Verify(s)
       \/ Abandon(s)
  \/ Surroundings

Spec == Init /\ [][Next]_vars

-----------------------------------------------------------------------------
(* Properties *)

\* Type invariant.
TypeOK ==
  /\ clock \in 0 .. MaxDecisions /\ Len(decisions) <= clock /\ issued \subseteq Route
  /\ page \in [Route -> {"empty", "filled", "needs_rescan", "excluded"}]
  /\ place \in [Route -> Placed \cup {"none", "observed"}]
  /\ pc \in [Session -> DOMAIN After \cup {"idle", "decide", "write", "rewrite", "merge", "verify"}]
  /\ receipts \subseteq Route

\* A recovery that was reported as completed has its page in a submission,
\* then and ever after, whatever teachers and other recoveries do, and the
\* historical replay never asks to execute it again.
ReceiptsStand ==
  /\ \A r \in receipts : place[r] \in Placed
  /\ Recorded.route \in receipts => Historical \notin {"evidence_missing", "assembly_pending"}

\* Decisions count in the order teachers took them: one that was taken earlier
\* and written later never takes the place of a later one.
InOrder == Latest(decisions').time >= Latest(decisions).time
\* Recovering, or recovering again, never overrides a teacher: a page with
\* evidence keeps its selection, and what a teacher put aside is not put
\* forward again.
Defers ==
  \A r \in Route :
    /\ place[r] = "observed" /\ place'[r] = "selected" => page[r] = "empty"
    /\ place[r] \in {"dismissed", "rescan", "out"} => place'[r] \notin {"candidate", "selected"}
=============================================================================
