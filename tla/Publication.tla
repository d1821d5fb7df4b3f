----------------------------- MODULE Publication -----------------------------
(***************************************************************************)
(* quillan/academic_result_publication.py: publishing manifest revisions   *)
(* of one work to Core, superseding, withdrawing and republishing them.    *)
(*                                                                         *)
(* An operation reads the producer history (ManifestGeneration, here the   *)
(* number of its newest revision), Core's series, withdrawals and the      *)
(* current registration one after the other, calls one Core service, reads *)
(* everything back and rebuilds the derived catalog.  Nothing locks the    *)
(* series between these steps; other sessions run the same operations and  *)
(* teachers generate manifests and change the registration meanwhile.      *)
(* Core is external: its services act in one step, compare the expected    *)
(* predecessor with the head and replay what already exists.  A series is  *)
(* a sequence of records, a publication id a position in it.               *)
(***************************************************************************)
EXTENDS Naturals, Sequences

CONSTANTS
  Session,
  MaxRevision,    \* bound on manifest revisions
  MaxPubs,        \* bound on publication records
  MaxReg,         \* bound on registration revisions
  MaxFaults,      \* bound on errors and process deaths
  LockMayStay     \* a failed generation may leave .write.lock behind

ASSUME PublicationAssumption ==
  /\ MaxRevision \in Nat /\ MaxPubs \in Nat /\ MaxReg \in Nat \ {0} /\ MaxFaults \in Nat
  /\ LockMayStay \in BOOLEAN

VARIABLES
  producer,   \* the newest manifest revision, 0 when there is none
  blocked,    \* a stale .write.lock makes the manifest history unreadable
  forced,     \* <<revision, predecessor>> generated by a republication
  pubs,       \* Core's series: records [rev, sup, reg]
  withdrawn,  \* publications Core has a withdrawal of
  catalog,    \* the derived catalog: the state of Core at its last rebuild
  reg,        \* the current registration: [revision, cancelled]
  pc, req,    \* Session -> the next step, and the request it carries out
  seen,       \* Session -> how much of the series it loaded
  target,     \* Session -> the revision it will publish
  bind,       \* Session -> the registration revision it will bind
  got,        \* Session -> the publication Core answered with, or 0
  gotWd,      \* Session -> whether that was withdrawn when last looked at
  made, wrote,\* Session -> its request generated a manifest, changed Core
  result,     \* Session -> how its last attempt ended
  disturbed,  \* history: Session -> others changed something since its request
  debt,       \* history: an attempt changed Core and ended without a rebuild
  faults

coreVars == <<pubs, withdrawn>>
producerVars == <<producer, blocked, forced>>
opVars == <<seen, target, bind, got, gotWd, made, wrote>>
vars == <<producer, blocked, forced, pubs, withdrawn, catalog, reg, pc, req, seen, target,
          bind, got, gotWd, made, wrote, result, disturbed, debt, faults>>

Pub == 1 .. MaxPubs
Record == [rev : 1 .. MaxRevision, sup : 0 .. MaxPubs, reg : 1 .. MaxReg]
Op == {"publish", "supersede", "withdraw", "republish"}
Request == [op : Op, rev : 0 .. MaxRevision, exp : 0 .. MaxPubs]
Step == {"idle", "producer", "series", "withdrawal", "history", "generate",
         "registration", "core", "verify", "rebuild", "check"}
Retryable == {"partial", "failed", "crashed"}
Result == {"none", "ok", "refused"} \cup Retryable

Init ==
  /\ producer = 0 /\ blocked = FALSE /\ forced = {}
  /\ pubs = <<>> /\ withdrawn = {}
  /\ catalog = [n |-> 0, wd |-> {}]
  /\ reg = [revision |-> 1, cancelled |-> FALSE]
  /\ pc = [s \in Session |-> "idle"]
  /\ req = [s \in Session |-> [op |-> "publish", rev |-> 0, exp |-> 0]]
  /\ seen = [s \in Session |-> 0] /\ target = [s \in Session |-> 0]
  /\ bind = [s \in Session |-> 0]
  /\ got = [s \in Session |-> 0] /\ gotWd = [s \in Session |-> FALSE]
  /\ made = [s \in Session |-> FALSE] /\ wrote = [s \in Session |-> FALSE]
  /\ result = [s \in Session |-> "none"]
  /\ disturbed = [s \in Session |-> FALSE]
  /\ debt = FALSE
  /\ faults = 0

Fault == faults < MaxFaults /\ faults' = faults + 1
Goto(s, step) == pc' = [pc EXCEPT ![s] = step]
Disturb(others) == disturbed' = [s \in Session |-> disturbed[s] \/ s \in others]

\* The attempt ends; what it changed in Core, the catalog may not show yet.
End(s, how) ==
  /\ Goto(s, "idle")
  /\ result' = [result EXCEPT ![s] = how]
  /\ debt' = (debt \/ (wrote[s] /\ how # "ok" /\ catalog # [n |-> Len(pubs), wd |-> withdrawn]))
Continue(s, step) == Goto(s, step) /\ UNCHANGED <<result, debt>>

CoreHead == Len(pubs)

\* _logical: the one of the first n records that publishes a revision, or 0.
Logical(n, rev) ==
  IF \E i \in 1 .. n : pubs[i].rev = rev THEN CHOOSE i \in 1 .. n : pubs[i].rev = rev ELSE 0

-----------------------------------------------------------------------------
(* Requests.                                                               *)

FirstStep(op) ==
  IF op = "withdraw" THEN "core" ELSE IF op = "republish" THEN "series" ELSE "producer"

Start(s, r) ==
  /\ pc[s] = "idle"
  /\ req' = [req EXCEPT ![s] = r]
  /\ Goto(s, FirstStep(r.op))
  /\ seen' = [seen EXCEPT ![s] = 0]
  /\ target' = [target EXCEPT ![s] = r.rev]
  /\ bind' = [bind EXCEPT ![s] = 0]
  /\ got' = [got EXCEPT ![s] = 0]
  /\ gotWd' = [gotWd EXCEPT ![s] = FALSE]
  /\ wrote' = [wrote EXCEPT ![s] = FALSE]
  /\ UNCHANGED <<producerVars, coreVars, catalog, reg, debt, faults>>

\* Somebody names a manifest revision and, except for the first publication,
\* a publication id; both may be out of date.
Ask(s, r) ==
  /\ result[s] \notin Retryable
  /\ r.op \in {"publish", "supersede"} => r.rev \in 1 .. producer
  /\ r.op \in {"withdraw", "republish"} => r.rev = 0
  /\ IF r.op = "publish" THEN r.exp = 0 ELSE r.exp \in 1 .. CoreHead
  /\ r.op = "withdraw" \/ CoreHead < MaxPubs
  /\ Start(s, r)
  /\ made' = [made EXCEPT ![s] = FALSE]
  /\ result' = [result EXCEPT ![s] = "none"]
  /\ disturbed' = [disturbed EXCEPT ![s] = FALSE]

\* recommended_next_action: the exact operation is replayed.
Retry(s) ==
  /\ result[s] \in Retryable
  /\ Start(s, req[s])
  /\ UNCHANGED <<made, result, disturbed>>

-----------------------------------------------------------------------------
(* Reading.                                                                *)

\* _producer_head: the selected revision must be the newest.
ReadProducer(s) ==
  /\ pc[s] = "producer"
  /\ IF blocked \/ req[s].rev # producer THEN End(s, "refused") ELSE Continue(s, "series")
  /\ UNCHANGED <<producerVars, coreVars, catalog, reg, req, opVars, disturbed, faults>>

\* Mutant: a republication that reached Core is not recognised.
SeriesRefusesStrictly(r, head, logical) ==
  \/ r.op = "publish" /\ logical # 0 /\ pubs[logical].sup # 0
  \/ r.op = "publish" /\ logical = 0 /\ head # 0
  \/ r.op = "supersede" /\ logical # 0 /\ pubs[logical].sup # r.exp
  \/ r.op \in {"supersede", "republish"} /\ logical = 0 /\ head # r.exp

\* Only the first publication starts a series, only its head is superseded, and
\* the successor a republication made of its predecessor is recognised.
SeriesRefuses(r, head, logical) ==
  \/ r.op = "publish" /\ logical # 0 /\ pubs[logical].sup # 0
  \/ r.op = "publish" /\ logical = 0 /\ head # 0
  \/ r.op = "supersede" /\ logical # 0 /\ pubs[logical].sup # r.exp
  \/ r.op = "supersede" /\ logical = 0 /\ head # r.exp
  \/ r.op = "republish" /\ head # r.exp /\ pubs[head].sup # r.exp

\* _load_series; a record of the selected revision is replayed with the
\* registration it is bound to.
ReadSeries(s) ==
  LET r == req[s]
      head == CoreHead
      logical == Logical(head, r.rev) IN
  /\ pc[s] = "series"
  /\ seen' = [seen EXCEPT ![s] = head]
  /\ IF SeriesRefuses(r, head, logical) THEN End(s, "refused") /\ UNCHANGED bind
     ELSE IF r.op # "republish" /\ logical # 0
       THEN /\ bind' = [bind EXCEPT ![s] = pubs[logical].reg]
            /\ Continue(s, "core")
     ELSE /\ Continue(s, IF r.op = "publish" THEN "registration" ELSE "withdrawal")
          /\ UNCHANGED bind
  /\ UNCHANGED <<producerVars, coreVars, catalog, reg, req, target, got, gotWd, made, wrote,
                 disturbed, faults>>

\* A withdrawn head is only republished, any other only superseded.
ReadWithdrawal(s) ==
  LET r == req[s]
      refused == \/ (r.exp \in withdrawn) # (r.op = "republish")
                 \/ r.op = "supersede" /\ r.rev <= pubs[r.exp].rev IN
  /\ pc[s] = "withdrawal"
  /\ IF refused THEN End(s, "refused")
     ELSE Continue(s, IF r.op = "republish" THEN "history" ELSE "registration")
  /\ UNCHANGED <<producerVars, coreVars, catalog, reg, req, opVars, disturbed, faults>>

\* Republication: replay of a successor Core already has, reuse of a newer
\* manifest revision, or generation of one.
ReadHistory(s) ==
  LET expected == req[s].exp
      replay == seen[s] # expected
      refused == \/ blocked
                 \/ replay /\ (seen[s] \in withdrawn \/ producer # pubs[seen[s]].rev)
                 \/ ~replay /\ producer > pubs[expected].rev /\ Logical(seen[s], producer) # 0 IN
  /\ pc[s] = "history"
  /\ target' = [target EXCEPT ![s] = producer]
  /\ IF refused
       THEN End(s, "refused") /\ UNCHANGED bind
     ELSE IF replay
       THEN bind' = [bind EXCEPT ![s] = pubs[seen[s]].reg] /\ Continue(s, "core")
     ELSE /\ Continue(s, IF producer > pubs[expected].rev THEN "registration" ELSE "generate")
          /\ UNCHANGED bind
  /\ UNCHANGED <<producerVars, coreVars, catalog, reg, req, seen, got, gotWd, made, wrote,
                 disturbed, faults>>

\* generate_academic_result_manifest with republish_after_withdrawal.
Generate(s) ==
  /\ pc[s] = "generate"
  /\ producer < MaxRevision
  /\ IF blocked
       THEN /\ End(s, "failed")
            /\ UNCHANGED <<producerVars, target, made>>
       ELSE /\ producer' = producer + 1
            /\ forced' = forced \cup {<<producer', req[s].exp>>}
            /\ target' = [target EXCEPT ![s] = producer']
            /\ made' = [made EXCEPT ![s] = TRUE]
            /\ Continue(s, "registration")
            /\ UNCHANGED blocked
  /\ Disturb(Session \ {s})
  /\ UNCHANGED <<coreVars, catalog, reg, req, seen, bind, got, gotWd, wrote, faults>>

\* It fails before the revision is durable, or reports partial success.
GenerateFault(s) ==
  /\ pc[s] = "generate"
  /\ producer < MaxRevision
  /\ ~blocked
  /\ Fault
  /\ blocked' \in {FALSE, LockMayStay}
  /\ \/ End(s, "failed") /\ UNCHANGED <<producer, forced, made>>
     \/ /\ producer' = producer + 1
        /\ forced' = forced \cup {<<producer', req[s].exp>>}
        /\ made' = [made EXCEPT ![s] = TRUE]
        /\ End(s, "partial")
  /\ Disturb(Session \ {s})
  /\ UNCHANGED <<coreVars, catalog, reg, req, seen, target, bind, got, gotWd, wrote>>

\* Mutant: the record is not bound to the registration that was found.
ReadRegistrationUnbound(s) ==
  /\ pc[s] = "registration"
  /\ IF reg.cancelled THEN End(s, "refused") ELSE Continue(s, "core")
  /\ UNCHANGED <<producerVars, coreVars, catalog, reg, req, opVars, disturbed, faults>>

\* _current_registration.
ReadRegistration(s) ==
  /\ pc[s] = "registration"
  /\ IF reg.cancelled THEN End(s, "refused") /\ UNCHANGED bind
     ELSE bind' = [bind EXCEPT ![s] = reg.revision] /\ Continue(s, "core")
  /\ UNCHANGED <<producerVars, coreVars, catalog, reg, req, seen, target, got, gotWd, made,
                 wrote, disturbed, faults>>

\* A file cannot be read: the operation raises before it called Core.
ReadFault(s) ==
  /\ pc[s] \in {"producer", "series", "withdrawal", "history", "registration"}
  /\ Fault
  /\ End(s, "failed")
  /\ UNCHANGED <<producerVars, coreVars, catalog, reg, req, opVars, disturbed>>

-----------------------------------------------------------------------------
(* Core's services.                                                        *)

Existing(rev) == {i \in 1 .. CoreHead : pubs[i].rev = rev}

\* publish_manifest_revision and supersede_manifest_revision: a record of the
\* revision is replayed when it is the same; a new one needs the expected head.
CoreAccepts(rev, sup, registration) ==
  IF Existing(rev) # {}
    THEN \E i \in Existing(rev) : pubs[i].sup = sup /\ pubs[i].reg = registration
    ELSE CoreHead = sup

CoreWrite(s, rev, sup, registration) ==
  IF Existing(rev) # {}
    THEN /\ got' = [got EXCEPT ![s] = CHOOSE i \in Existing(rev) : TRUE]
         /\ UNCHANGED <<coreVars, wrote>>
    ELSE /\ CoreHead < MaxPubs
         /\ pubs' = Append(pubs, [rev |-> rev, sup |-> sup, reg |-> registration])
         /\ got' = [got EXCEPT ![s] = CoreHead + 1]
         /\ wrote' = [wrote EXCEPT ![s] = TRUE]
         /\ UNCHANGED withdrawn

CoreWithdraw(s, id) ==
  /\ withdrawn' = withdrawn \cup {id}
  /\ got' = [got EXCEPT ![s] = id]
  /\ wrote' = [wrote EXCEPT ![s] = @ \/ id \notin withdrawn]
  /\ UNCHANGED pubs

\* Mutant: the predecessor is the head found now, not the one asked for.
DoCoreOnHead(s) ==
  IF req[s].op = "withdraw" THEN CoreWithdraw(s, req[s].exp)
  ELSE CoreAccepts(target[s], CoreHead, bind[s]) /\ CoreWrite(s, target[s], CoreHead, bind[s])

DoCore(s) ==
  IF req[s].op = "withdraw" THEN CoreWithdraw(s, req[s].exp)
  ELSE CoreAccepts(target[s], req[s].exp, bind[s]) /\ CoreWrite(s, target[s], req[s].exp, bind[s])

Call(s) ==
  /\ pc[s] = "core"
  /\ DoCore(s)
  /\ gotWd' = [gotWd EXCEPT ![s] = got'[s] \in withdrawn']
  /\ Continue(s, "verify")
  /\ Disturb(IF wrote'[s] THEN Session \ {s} ELSE {})
  /\ UNCHANGED <<producerVars, catalog, reg, req, seen, target, bind, made, faults>>

\* RegistryServiceConflictError; after a generation it is partial success.
CallRefused(s) ==
  /\ pc[s] = "core"
  /\ req[s].op # "withdraw"
  /\ ~CoreAccepts(target[s], req[s].exp, bind[s])
  /\ End(s, IF made[s] THEN "partial" ELSE "refused")
  /\ UNCHANGED <<producerVars, coreVars, catalog, reg, req, opVars, disturbed, faults>>

\* Mutant: an uncertain write is reported as an ordinary failure.
CallFaultSilent(s) ==
  /\ pc[s] = "core"
  /\ Fault
  /\ \/ End(s, "failed") /\ UNCHANGED <<coreVars, got, wrote, disturbed>>
     \/ /\ DoCore(s)
        /\ Goto(s, "idle")
        /\ result' = [result EXCEPT ![s] = "failed"]
        /\ debt' = (debt \/ wrote'[s])
        /\ Disturb(IF wrote'[s] THEN Session \ {s} ELSE {})
  /\ UNCHANGED <<producerVars, catalog, reg, req, seen, target, bind, gotWd, made>>

\* Core fails before it writes, or is not certain whether it has written.
CallFault(s) ==
  /\ pc[s] = "core"
  /\ Fault
  /\ \/ /\ End(s, IF made[s] THEN "partial" ELSE "failed")
        /\ UNCHANGED <<coreVars, got, wrote, disturbed>>
     \/ /\ DoCore(s)
        /\ Goto(s, "idle")
        /\ result' = [result EXCEPT ![s] = "partial"]
        /\ debt' = (debt \/ wrote'[s])
        /\ Disturb(IF wrote'[s] THEN Session \ {s} ELSE {})
  /\ UNCHANGED <<producerVars, catalog, reg, req, seen, target, bind, gotWd, made>>

-----------------------------------------------------------------------------
(* Reading back.                                                           *)

\* _verify_result up to the catalog: Core's answer is compared with a reload.
Verify(s) ==
  /\ pc[s] = "verify"
  /\ IF (got[s] \in withdrawn) # gotWd[s] THEN End(s, "partial") ELSE Continue(s, "rebuild")
  /\ UNCHANGED <<producerVars, coreVars, catalog, reg, req, opVars, disturbed, faults>>

\* Mutant: the withdrawals are not reread.
RebuildSeries(s) ==
  /\ pc[s] = "rebuild"
  /\ catalog' = [catalog EXCEPT !.n = CoreHead]
  /\ debt' = FALSE
  /\ Goto(s, "check")
  /\ UNCHANGED <<producerVars, coreVars, reg, req, opVars, result, disturbed, faults>>

\* rebuild_academic_catalog reads all of Core and replaces the catalog.
Rebuild(s) ==
  /\ pc[s] = "rebuild"
  /\ catalog' = [n |-> CoreHead, wd |-> withdrawn]
  /\ debt' = FALSE
  /\ Goto(s, "check")
  /\ UNCHANGED <<producerVars, coreVars, reg, req, opVars, result, disturbed, faults>>

\* The row of the publication against the series loaded now and the
\* withdrawal loaded before the rebuild.
Check(s) ==
  LET agrees == /\ got[s] <= catalog.n
                /\ (got[s] = catalog.n) = (got[s] = CoreHead)
                /\ (got[s] \in catalog.wd) = gotWd[s] IN
  /\ pc[s] = "check"
  /\ End(s, IF agrees THEN "ok" ELSE "partial")
  /\ UNCHANGED <<producerVars, coreVars, catalog, reg, req, opVars, disturbed, faults>>

ReadBackFault(s) ==
  /\ pc[s] \in {"verify", "rebuild", "check"}
  /\ Fault
  /\ End(s, "partial")
  /\ UNCHANGED <<producerVars, coreVars, catalog, reg, req, opVars, disturbed>>

Crash(s) ==
  /\ pc[s] # "idle"
  /\ Fault
  /\ End(s, "crashed")
  /\ UNCHANGED <<producerVars, coreVars, catalog, reg, req, opVars, disturbed>>

-----------------------------------------------------------------------------
(* Others.                                                                 *)

\* A teacher generates an ordinary manifest revision.
TeacherGenerates ==
  /\ producer < MaxRevision
  /\ ~blocked
  /\ producer' = producer + 1
  /\ Disturb(Session)
  /\ UNCHANGED <<blocked, forced, coreVars, catalog, reg, pc, req, opVars, result, debt, faults>>

\* update_quillan_academic_work_registration.
UpdateRegistration ==
  /\ reg.revision < MaxReg
  /\ \E cancelled \in BOOLEAN :
       reg' = [revision |-> reg.revision + 1, cancelled |-> cancelled]
  /\ Disturb(Session)
  /\ UNCHANGED <<producerVars, coreVars, catalog, pc, req, opVars, result, debt, faults>>

\* rebuild-catalog, at any time.
RebuildByHand ==
  /\ catalog' = [n |-> CoreHead, wd |-> withdrawn]
  /\ debt' = FALSE
  /\ UNCHANGED <<producerVars, coreVars, reg, pc, req, opVars, result, disturbed, faults>>

Advance(s) ==
  \/ ReadProducer(s) \/ ReadSeries(s) \/ ReadWithdrawal(s) \/ ReadHistory(s)
  \/ Generate(s) \/ ReadRegistration(s) \/ Call(s) \/ CallRefused(s)
  \/ Verify(s) \/ Rebuild(s) \/ Check(s)

Next ==
  \/ \E s \in Session :
       \/ \E r \in Request : Ask(s, r)
       \/ Retry(s)
       \/ Advance(s)
       \/ ReadFault(s) \/ GenerateFault(s) \/ CallFault(s) \/ ReadBackFault(s) \/ Crash(s)
  \/ TeacherGenerates \/ UpdateRegistration \/ RebuildByHand

Spec == Init /\ [][Next]_vars

\* An operation that runs goes on, and who was told to retry does so.
FairSpec == Spec /\ \A s \in Session : WF_vars(Advance(s)) /\ WF_vars(Retry(s))

-----------------------------------------------------------------------------
(* Properties.                                                             *)

\* Every variable keeps the type its declaration describes.
TypeOK ==
  /\ producer \in 0 .. MaxRevision /\ blocked \in BOOLEAN
  /\ forced \subseteq (1 .. MaxRevision) \X Pub
  /\ Len(pubs) <= MaxPubs /\ \A i \in 1 .. CoreHead : pubs[i] \in Record
  /\ withdrawn \subseteq 1 .. CoreHead
  /\ catalog.n \in 0 .. CoreHead /\ catalog.wd \subseteq withdrawn
  /\ reg \in [revision : 1 .. MaxReg, cancelled : BOOLEAN]
  /\ pc \in [Session -> Step] /\ req \in [Session -> Request]
  /\ \A s \in Session : seen[s] \in 0 .. CoreHead /\ got[s] \in 0 .. CoreHead
  /\ target \in [Session -> 0 .. MaxRevision] /\ bind \in [Session -> 0 .. MaxReg]
  /\ gotWd \in [Session -> BOOLEAN] /\ made \in [Session -> BOOLEAN]
  /\ wrote \in [Session -> BOOLEAN] /\ disturbed \in [Session -> BOOLEAN]
  /\ result \in [Session -> Result]
  /\ debt \in BOOLEAN /\ faults \in 0 .. MaxFaults

\* The series is one chain along which manifest revisions grow, although each
\* operation chose its revision and its predecessor several reads earlier.
SeriesIsChain ==
  \A i \in 1 .. CoreHead :
    /\ pubs[i].sup = i - 1
    /\ pubs[i].rev <= producer
    /\ i > 1 => pubs[i - 1].rev < pubs[i].rev

\* What an operation answers is what happened: "ok" means that Core has the
\* publication of the chosen revision after the predecessor that was named, or
\* its withdrawal, and a plain refusal or failure that the attempt changed
\* nothing in Core.
AnswersAreTrue ==
  \A s \in Session : pc[s] = "idle" =>
    /\ result[s] = "ok" /\ req[s].op = "withdraw" => req[s].exp \in withdrawn
    /\ result[s] = "ok" /\ req[s].op # "withdraw" =>
         got[s] # 0 /\ pubs[got[s]].sup = req[s].exp /\ pubs[got[s]].rev = target[s]
    /\ result[s] \in {"refused", "failed"} => ~wrote[s]

\* The derived catalog shows Core's state whenever no operation is between its
\* Core call and its rebuild, unless one that changed Core ended without "ok".
CatalogShowsCore ==
  \/ debt
  \/ \E s \in Session : wrote[s] /\ pc[s] \in {"verify", "rebuild"}
  \/ catalog = [n |-> CoreHead, wd |-> withdrawn]

\* A caller alone with the series who repeats a republication after failures
\* makes one manifest revision of it, however often it is interrupted.
RetryAllocatesOnce == \A a, b \in forced : a[2] = b[2] => a[1] = b[1]

\* Whoever follows the recommendation to repeat an operation that ended in
\* partial success, or died after it changed something, gets it done, unless
\* others changed something meanwhile, the registration is cancelled, or a stale
\* .write.lock keeps every republication from reading the history, whatever
\* academic_result_publication.py:1134 recommends.
RetrySucceeds(s) ==
  (result[s] = "partial" \/ (result[s] = "crashed" /\ (wrote[s] \/ made[s])))
    ~> (result[s] = "ok" \/ disturbed[s] \/ reg.cancelled \/ blocked)

=============================================================================
