----------------------------- MODULE Submission -----------------------------
(***************************************************************************)
(* The submission manifest of one student in one work and everything that  *)
(* writes it: quillan/submission_observation_assembly.py merges persisted  *)
(* observations into it, submission_page_management.py excludes, restores  *)
(* and marks pages for rescan, submission_evidence_resolution.py selects   *)
(* and dismisses candidates; and resubmission_inbox.py, which tells the    *)
(* teacher what still needs a decision.                                    *)
(*                                                                         *)
(* Every writer reads the observations and the manifest, computes a new    *)
(* manifest and writes it under the revision guard (AtomicRecord), which   *)
(* accepts it only while the file is the one that was read.  Observations  *)
(* appear meanwhile in any order (ObservationStore); one of a higher       *)
(* number was scanned later.                                               *)
(***************************************************************************)
EXTENDS Naturals, FiniteSets, FiniteSetsExt

CONSTANTS
  Session,
  Pages,      \* pages of the packet
  MaxObs,     \* bound on observations
  Issuances   \* issuances of the student's packet, 1 the first

ASSUME SubmissionAssumption ==
  /\ Pages \in Nat \ {0} /\ MaxObs \in Nat /\ Issuances \in Nat \ {0}

VARIABLES
  observed,  \* observation -> [page, issuance] of the persisted ones, page 0: not yet
  issued,    \* the issuance that is issued
  manifest,  \* the canonical submission manifest
  pc, job,   \* Session -> its next step and what it was asked
  listed,    \* Session -> the observations it listed
  seen,      \* Session -> the manifest it loaded
  fresh      \* Session -> nobody wrote the manifest since it was loaded

vars == <<observed, issued, manifest, pc, job, listed, seen, fresh>>

Page == 1 .. Pages
Obs == 1 .. MaxObs
Issuance == 1 .. Issuances
None == 0

-----------------------------------------------------------------------------
(* The manifest *)

Role == {"selected", "candidate", "excluded"}
State == {"active", "needs_rescan", "excluded"}
Kept == [role : Role, state : State]
NotKept == [role |-> "none", state |-> "none"]
Evidence == [role : Role, state : State, dup : 0 .. MaxObs, kept : Kept \cup {NotKept}]
PageState == {"missing", "present", "duplicate", "needs_rescan", "excluded"}
PageRecord == [state : PageState, selected : Obs \cup {None},
               ev : UNION {[os -> Evidence] : os \in SUBSET Obs}]

EmptyPage == [state |-> "missing", selected |-> None, ev |-> <<>>]
NoManifest == [kind |-> "none", issuance |-> None, page |-> [p \in Page |-> EmptyPage]]
PlainManifest == [NoManifest EXCEPT !.kind = "plain"]
EvidenceOf(pg) == DOMAIN pg.ev
SelectedRoles(pg) == {o \in EvidenceOf(pg) : pg.ev[o].role = "selected"}

\* _validate_page: the schema every writer validates before it writes.
ValidPage(pg) ==
  /\ pg.state = "missing" => EvidenceOf(pg) = {}
  /\ pg.state = "present" => EvidenceOf(pg) # {}
  /\ pg.state = "duplicate" => Cardinality(EvidenceOf(pg)) >= 2
  /\ SelectedRoles(pg) = IF pg.selected = None THEN {} ELSE {pg.selected}

\* The identifiers of a digital manifest: each evidence is the projection of
\* an observation of its page and its issuance, and is in one page only.
Valid(m) ==
  m.kind = "digital" =>
    /\ \A p \in Page : ValidPage(m.page[p])
    /\ \A p \in Page : \A o \in EvidenceOf(m.page[p]) :
         /\ observed[o] = [page |-> p, issuance |-> m.issuance]

-----------------------------------------------------------------------------
(* Assembling observations *)

\* How many of a set came before: evidence is listed in scanning order.
Rank(o, os) == Cardinality({x \in os : x < o})

Projection(role, state, dup) == [role |-> role, state |-> state, dup |-> dup, kept |-> NotKept]

\* A page of a new manifest: one scan is selected, of several none.
NewPage(os) ==
  LET single == Cardinality(os) = 1
  IN IF os = {} THEN EmptyPage
     ELSE [state |-> IF single THEN "present" ELSE "duplicate",
           selected |-> IF single THEN Min(os) ELSE None,
           ev |-> [o \in os |->
                     Projection(IF single THEN "selected" ELSE "candidate", "active", Rank(o, os))]]

\* Mutant: numbering starts at the highest number in use.
WithEvidenceFromHighest(pg, os) ==
  LET new == os \ EvidenceOf(pg)
      highest == Max({pg.ev[o].dup : o \in EvidenceOf(pg)} \cup {0})
  IN [pg EXCEPT !.ev = [o \in EvidenceOf(pg) \cup new |->
        IF o \in new THEN Projection("candidate", "active", highest + Rank(o, new))
        ELSE pg.ev[o]]]

\* New evidence joins a page as a candidate with the next free number.
WithEvidence(pg, os) ==
  LET new == os \ EvidenceOf(pg)
      next == Max({pg.ev[o].dup : o \in EvidenceOf(pg)} \cup {0}) + 1
      number(o) == IF EvidenceOf(pg) = {} /\ Cardinality(os) = 1 THEN 0 ELSE next + Rank(o, new)
  IN [pg EXCEPT !.ev = [o \in EvidenceOf(pg) \cup new |->
        IF o \in new THEN Projection("candidate", "active", number(o)) ELSE pg.ev[o]]]

\* Mutant: new evidence always settles the state of its page.
SettledAlways(pg) ==
  LET only == CHOOSE o \in EvidenceOf(pg) : TRUE
  IN IF Cardinality(EvidenceOf(pg)) > 1 THEN [pg EXCEPT !.state = "duplicate"]
     ELSE IF pg.selected # None THEN [pg EXCEPT !.state = "present"]
     ELSE [pg EXCEPT !.state = "present", !.selected = only, !.ev[only].role = "selected"]

\* The state of a page that gained evidence; pages a teacher excluded or
\* asked to be rescanned keep their state.
Settled(pg) ==
  LET only == CHOOSE o \in EvidenceOf(pg) : TRUE
  IN IF pg.state \in {"needs_rescan", "excluded"} THEN pg
     ELSE IF Cardinality(EvidenceOf(pg)) > 1 THEN [pg EXCEPT !.state = "duplicate"]
     ELSE IF pg.selected # None THEN [pg EXCEPT !.state = "present"]
     ELSE [pg EXCEPT !.state = "present", !.selected = only, !.ev[only].role = "selected"]

OnPage(os, p) == {o \in os : observed[o].page = p}

\* merge_submission_manifest_observations.
Merged(m, os) ==
  [kind |-> "digital",
   issuance |-> observed[Min(os)].issuance,
   page |-> [p \in Page |->
     IF m.kind = "none" THEN NewPage(OnPage(os, p))
     ELSE IF OnPage(os, p) \subseteq EvidenceOf(m.page[p]) THEN m.page[p]
     ELSE Settled(WithEvidence(m.page[p], OnPage(os, p)))]]

\* Evidence whose observation was not among those listed.
Unmatched(m, os) == \E p \in Page : ~(EvidenceOf(m.page[p]) \subseteq os)

-----------------------------------------------------------------------------
(* What a teacher decides about a page *)

Exclude(pg) ==
  [state |-> "excluded", selected |-> None,
   ev |-> [o \in EvidenceOf(pg) |->
     [pg.ev[o] EXCEPT !.role = "excluded", !.state = "excluded",
                      !.kept = [role |-> pg.ev[o].role, state |-> pg.ev[o].state]]]]

\* Mutant: what was kept is restored without looking whether there is any.
RestoredEvidenceUnchecked(pg) ==
  [o \in EvidenceOf(pg) |->
    [pg.ev[o] EXCEPT !.role = pg.ev[o].kept.role, !.state = pg.ev[o].kept.state,
                     !.kept = NotKept]]

\* Evidence gets back what was kept, or a default where nothing was.
RestoredEvidence(pg) ==
  [o \in EvidenceOf(pg) |->
    [pg.ev[o] EXCEPT
      !.role = IF pg.ev[o].kept # NotKept THEN pg.ev[o].kept.role
               ELSE IF Cardinality(EvidenceOf(pg)) = 1 THEN "selected" ELSE "candidate",
      !.state = IF pg.ev[o].kept # NotKept THEN pg.ev[o].kept.state ELSE "active",
      !.kept = NotKept]]

RestoredState(ev) ==
  IF \E o \in DOMAIN ev : ev[o].state = "needs_rescan" THEN "needs_rescan"
  ELSE IF Cardinality(DOMAIN ev) > 1 THEN "duplicate" ELSE "present"

Restore(pg) ==
  LET ev == RestoredEvidence(pg)
      selected == {o \in DOMAIN ev : ev[o].role = "selected"}
  IN IF EvidenceOf(pg) = {} THEN EmptyPage
     ELSE [state |-> RestoredState(ev),
           selected |-> IF selected = {} THEN None ELSE Min(selected),
           ev |-> ev]

Rescan(pg) ==
  [state |-> "needs_rescan", selected |-> None,
   ev |-> [o \in EvidenceOf(pg) |->
     [pg.ev[o] EXCEPT !.role = "candidate", !.state = "needs_rescan", !.kept = NotKept]]]

\* _page_state of the evidence resolution.
ResolvedState(ev) ==
  IF Cardinality(DOMAIN ev) > 1 THEN "duplicate"
  ELSE IF \E o \in DOMAIN ev : ev[o].state = "needs_rescan" THEN "needs_rescan" ELSE "present"

\* Mutant: the evidence selected before keeps its role.
SelectAlso(pg, e) ==
  LET ev == [pg.ev EXCEPT ![e].role = "selected", ![e].state = "active"]
  IN [state |-> ResolvedState(ev), selected |-> e, ev |-> ev]

Select(pg, e) ==
  LET ev == [o \in EvidenceOf(pg) |->
        IF o = e THEN [pg.ev[o] EXCEPT !.role = "selected", !.state = "active"]
        ELSE IF pg.ev[o].role = "selected" THEN [pg.ev[o] EXCEPT !.role = "candidate"]
        ELSE pg.ev[o]]
  IN [state |-> ResolvedState(ev), selected |-> e, ev |-> ev]

Dismiss(pg, e) ==
  LET ev == [pg.ev EXCEPT ![e].role = "excluded", ![e].state = "excluded"]
  IN [pg EXCEPT !.state = ResolvedState(ev), !.ev = ev]

ActiveCandidate(pg, e) ==
  e \in EvidenceOf(pg) /\ pg.ev[e].role = "candidate" /\ pg.ev[e].state = "active"

\* Each decision has its own reasons to refuse the page as it was loaded.
Permitted(op, pg, e, os) ==
  CASE op = "exclude" -> pg.state # "excluded"
    [] op = "restore" -> pg.state = "excluded"
    [] op = "rescan"  -> pg.state # "needs_rescan"
    [] OTHER -> /\ ActiveCandidate(pg, e) /\ e \in os
                /\ pg.selected # None => pg.selected \in os /\ pg.selected < e
                /\ op = "dismiss" => pg.selected # None

\* Restoring is canceled when it would select two.
Canceled(op, pg) ==
  op = "restore" /\ Cardinality({o \in EvidenceOf(pg) : RestoredEvidence(pg)[o].role = "selected"}) > 1

Decided(op, pg, e) ==
  CASE op = "exclude" -> Exclude(pg)
    [] op = "restore" -> Restore(pg)
    [] op = "rescan"  -> Rescan(pg)
    [] op = "select"  -> Select(pg, e)
    [] op = "dismiss" -> Dismiss(pg, e)

-----------------------------------------------------------------------------
(* What the inbox shows of the listed observations and the loaded manifest *)

\* Mutant: candidates wait only where something is selected.
WaitingForSelection(pg, os) ==
  {o \in EvidenceOf(pg) : ActiveCandidate(pg, o) /\ pg.selected # None /\ pg.selected < o}

\* _student_items: an active candidate newer than the selection waits for a
\* decision; a selection or a candidate that was not listed asks for attention.
Waiting(pg, os) ==
  IF pg.selected # None /\ pg.selected \notin os THEN {pg.selected}
  ELSE {o \in EvidenceOf(pg) : ActiveCandidate(pg, o) /\ (o \in os => pg.selected < o)}

\* The pages and the scans the inbox has an item for.
Inbox(m, os) ==
  IF m.kind = "none" THEN   \* _awaiting_rescan_items: every scan but a page's first
    {<<observed[o].page, o>> : o \in {x \in os : \E y \in os : y < x /\ observed[y].page = observed[x].page}}
  ELSE IF m.kind = "plain" THEN {<<observed[o].page, o>> : o \in {Min(os)}}
  ELSE (UNION {{<<p, o>> : o \in Waiting(m.page[p], os)} : p \in Page})
       \cup {<<observed[o].page, o>> : o \in os \ UNION {EvidenceOf(m.page[p]) : p \in Page}}

-----------------------------------------------------------------------------
PageOps == {"exclude", "restore", "rescan"}
EvidenceOps == {"select", "dismiss"}
Job ==
  [op : {"assemble", "inbox"}, page : {None}, ev : {None}]
  \cup [op : PageOps, page : Page, ev : {None}]
  \cup [op : EvidenceOps, page : Page, ev : Obs]
NoJob == [op |-> "assemble", page |-> None, ev |-> None]
Unobserved == [page |-> None, issuance |-> None]

Init ==
  /\ observed = [o \in Obs |-> Unobserved] /\ issued = 1
  /\ manifest = NoManifest
  /\ pc = [s \in Session |-> "idle"] /\ job = [s \in Session |-> NoJob]
  /\ listed = [s \in Session |-> {}] /\ seen = [s \in Session |-> NoManifest]
  /\ fresh = [s \in Session |-> FALSE]

session == <<pc, job, listed, seen, fresh>>

\* A scanned page of the issued packet is persisted: ObservationPersistence.
Observe(o, p) ==
  /\ observed[o] = Unobserved
  /\ observed' = [observed EXCEPT ![o] = [page |-> p, issuance |-> issued]]
  /\ UNCHANGED <<issued, manifest, session>>

\* A new packet is installed for the student: PacketGeneration.
Supersede ==
  /\ issued < Issuances
  /\ issued' = issued + 1
  /\ UNCHANGED <<observed, manifest, session>>

\* A plain-paper submission is created or its manifest taken back: PlainPaper.
PlainPaperStep ==
  /\ \/ manifest.kind = "none" /\ manifest' = PlainManifest
     \/ manifest.kind = "plain" /\ manifest' = NoManifest
  /\ fresh' = [s \in Session |-> FALSE]
  /\ UNCHANGED <<observed, issued, pc, job, listed, seen>>

-----------------------------------------------------------------------------
(* Operations of a session *)

Go(s, label) == pc' = [pc EXCEPT ![s] = label]

\* An operation ends and keeps nothing of what it read.
End(s) ==
  /\ Go(s, "idle")
  /\ job' = [job EXCEPT ![s] = NoJob] /\ listed' = [listed EXCEPT ![s] = {}]
  /\ seen' = [seen EXCEPT ![s] = NoManifest]

\* An operation that compares scans begins by listing the observations
\* (list_quillan_page_observations).  It is over when there are none or when
\* the listing fails, as it does on a file another session is writing.
List(s, j) ==
  LET os == {o \in Obs : observed[o] # Unobserved}
  IN /\ pc[s] = "idle" /\ j.op \notin PageOps
     /\ os # {}
     /\ job' = [job EXCEPT ![s] = j]
     /\ listed' = [listed EXCEPT ![s] = os]
     /\ Go(s, "load")
     /\ UNCHANGED <<observed, issued, manifest, seen, fresh>>

IssuancesOf(os) == {observed[o].issuance : o \in os}

\* What assembling refuses before it looks at the issuance's records:
\* a submission on paper, mixed issuances, another issuance's manifest.
Conflict(m, os) ==
  \/ m.kind = "plain"
  \/ Cardinality(IssuancesOf(os)) # 1
  \/ m.kind = "digital" /\ m.issuance \notin IssuancesOf(os)

\* What an operation requires of the manifest as it is loaded; the inbox is
\* complete with it and writes nothing.
Accepted(j, m, os) ==
  /\ j.op # "inbox"
  /\ j.op = "assemble" => ~Conflict(m, os)
  /\ j.op # "assemble" => m.kind = "digital" /\ Permitted(j.op, m.page[j.page], j.ev, os)

Read(s) ==
  /\ seen' = [seen EXCEPT ![s] = manifest]
  /\ fresh' = [fresh EXCEPT ![s] = TRUE]
  /\ UNCHANGED <<observed, issued, manifest, listed>>

Load(s) ==
  /\ pc[s] = "load"
  /\ IF Accepted(job[s], manifest, listed[s])
     THEN Read(s) /\ Go(s, IF job[s].op = "assemble" THEN "authorize" ELSE "save") /\ UNCHANGED job
     ELSE End(s) /\ UNCHANGED <<observed, issued, manifest, fresh>>

\* A page operation begins by loading the manifest: _load_page.
LoadPage(s, j) ==
  /\ pc[s] = "idle" /\ j.op \in PageOps
  /\ Accepted(j, manifest, {})
  /\ job' = [job EXCEPT ![s] = j]
  /\ Read(s) /\ Go(s, "save")

\* load_printable_response_record_set: only observations of the issuance that
\* is issued are assembled.
Authorize(s) ==
  /\ pc[s] = "authorize"
  /\ IF IssuancesOf(listed[s]) = {issued}
     THEN Go(s, "save") /\ UNCHANGED <<job, listed, seen, fresh>>
     ELSE End(s) /\ fresh' = [fresh EXCEPT ![s] = FALSE]
  /\ UNCHANGED <<observed, issued, manifest>>

\* The manifest an operation computes from the one it loaded.
Outcome(s) ==
  LET j == job[s]
  IN IF j.op = "assemble" THEN Merged(seen[s], listed[s])
     ELSE [seen[s] EXCEPT !.page[j.page] = Decided(j.op, @, j.ev)]

\* Why a writer gives up on a manifest it loaded, before it writes: evidence
\* that was not among the listed observations, a restore that would select
\* two, or a result that does not validate.
IdentityConflict(s) == job[s].op = "assemble" /\ Unmatched(seen[s], listed[s])
LockedOut(s) ==
  ~IdentityConflict(s)
  /\ (Canceled(job[s].op, seen[s].page[job[s].page]) \/ ~Valid(Outcome(s)))

Write(s) ==
  /\ manifest' = Outcome(s)
  /\ fresh' = [t \in Session |-> FALSE]

NoWrite(s) == fresh' = [fresh EXCEPT ![s] = FALSE] /\ UNCHANGED manifest

\* update_quillan_submission_manifest or, for the first one,
\* create_quillan_submission_manifest: refused when the manifest is not the
\* one that was loaded; an error while writing leaves it as it was or written.
Save(s) ==
  /\ pc[s] = "save"
  /\ IF IdentityConflict(s) \/ LockedOut(s) \/ ~fresh[s] \/ Outcome(s) = manifest
     THEN NoWrite(s)
     ELSE Write(s) \/ NoWrite(s)
  /\ End(s)
  /\ UNCHANGED <<observed, issued>>

Step(s) == (\E j \in Job : List(s, j) \/ LoadPage(s, j)) \/ Load(s) \/ Authorize(s) \/ Save(s)

Next ==
  \/ \E o \in Obs, p \in Page : Observe(o, p)
  \/ Supersede
  \/ PlainPaperStep
  \/ \E s \in Session : Step(s)

Spec == Init /\ [][Next]_vars

-----------------------------------------------------------------------------
(* Properties *)

\* Type invariant of the records and the sessions that write them.
TypeOK ==
  /\ observed \in [Obs -> {Unobserved} \cup [page : Page, issuance : Issuance]]
  /\ issued \in Issuance
  /\ manifest.kind \in {"none", "plain", "digital"}
  /\ manifest.kind = "digital" => manifest.issuance \in Issuance
  /\ \A p \in Page :
       /\ manifest.page[p].state \in PageState
       /\ manifest.page[p].selected \in Obs \cup {None}
       /\ EvidenceOf(manifest.page[p]) \subseteq Obs
       /\ \A o \in EvidenceOf(manifest.page[p]) : manifest.page[p].ev[o] \in Evidence
  /\ pc \in [Session -> {"idle", "load", "authorize", "save"}]
  /\ job \in [Session -> Job \cup {NoJob}]
  /\ listed \in [Session -> SUBSET Obs]
  /\ fresh \in [Session -> BOOLEAN]

\* The manifest on disk is valid, and each piece of evidence carries a number
\* of its own on its page.  Whatever was decided and assembled before, in whatever
\* order, no operation computes a manifest that its own validation would refuse
\* and no restore is canceled: a teacher is never locked out of a page.
Numbered(pg) ==
  \A o, x \in EvidenceOf(pg) :
    o # x /\ pg.ev[o].dup # 0 => pg.ev[o].dup # pg.ev[x].dup
ManifestSound ==
  /\ Valid(manifest) /\ \A p \in Page : Numbered(manifest.page[p])
  /\ \A s \in Session : pc[s] = "save" => ~LockedOut(s)

\* The newest listed scan of a page is its selection, was put aside by a
\* decision, is in the inbox, or is the first scan of a student who has no
\* submission yet (or one on paper, where one item stands for all).
InboxCoversNewest ==
  \A s \in Session :
    pc[s] = "load" /\ job[s].op = "inbox" =>
      \A p \in Page :
        LET os == OnPage(listed[s], p)
            pg == manifest.page[p]
            o  == Max(os)
        IN \/ os = {}
           \/ pg.selected = o
           \/ o \in EvidenceOf(pg) /\ pg.ev[o].state # "active"
           \/ \E x \in Obs : <<p, x>> \in Inbox(manifest, listed[s])
           \/ manifest.kind = "none" /\ Cardinality(os) = 1
           \/ manifest.kind = "plain"

\* Assembling later scans never takes back a decision: evidence stays, keeps
\* its state and number, a selection stays selected, and a page the teacher
\* excluded or sent to be rescanned stays so.
AssemblyKeepsDecisions ==
  [][\A s \in Session, p \in Page :
       LET old == manifest.page[p]
           new == manifest'.page[p]
       IN pc[s] = "save" /\ pc'[s] = "idle" /\ job[s].op = "assemble"
          /\ manifest' # manifest =>
            /\ EvidenceOf(old) \subseteq EvidenceOf(new)
            /\ \A o \in EvidenceOf(old) : /\ new.ev[o].state = old.ev[o].state
                                          /\ new.ev[o].dup = old.ev[o].dup
                                          /\ new.ev[o].kept = old.ev[o].kept
            /\ old.selected # None => new.selected = old.selected
            /\ old.state \in {"excluded", "needs_rescan"} => new = [old EXCEPT !.ev = new.ev]]_vars
=============================================================================
