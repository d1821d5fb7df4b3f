------------------------- MODULE ManifestGeneration -------------------------
(***************************************************************************)
(* quillan/academic_result_manifest_generation.py: generation of immutable *)
(* academic-result manifest revisions under .write.lock.                   *)
(*                                                                         *)
(* A generation loads the history, reads the native records one file after *)
(* the other, plans (RevisionPolicy), reads every record again and only if *)
(* none differs replays the head or creates one file exclusively           *)
(* (AtomicRecord, here three steps: guard and temporary file, link,        *)
(* clean-up).  Teachers edit the native records meanwhile: the lock does   *)
(* not stop them.  Every step may fail or be the process's last.           *)
(***************************************************************************)
EXTENDS RevisionPolicy

CONSTANTS
  Session,      \* processes that may generate manifests of this work
  NoOne, Stale, \* .write.lock is free, or its owner will never remove it
  NStudents,
  Restorable,   \* {0} when a restored copy may bring back the assignment's first bytes
  MaxEdits,     \* bound on changes of native records
  MaxRevisions, \* bound on the revision numbers a run may allocate
  MaxRemovals,  \* bound on revision files removed by hand
  MaxFaults     \* bound on I/O errors and process deaths

ASSUME ManifestAssumption ==
  /\ NoOne \notin Session /\ Stale \notin Session /\ NoOne # Stale
  /\ NStudents \in Nat /\ MaxEdits \in Nat /\ MaxRevisions \in Nat
  /\ MaxRemovals \in Nat /\ MaxFaults \in Nat
  /\ Restorable \subseteq {0}

Source == 0 .. NStudents
Version == 0 .. MaxEdits + 1
Content == [Source -> Version]

VARIABLES
  native,     \* the native records' current content
  edits,      \* edits made so far: the version a new edit writes is unique
  log,        \* the manifest files: revision -> content
  reasons,    \* revision -> the reason its generation reported
  consumed,   \* history: every revision number ever installed
  lock,       \* whose token .write.lock holds
  litter,     \* the directory holds a create guard or a temporary file
  pc,         \* Session -> the next step of its generation
  republish,  \* Session -> republish_after_withdrawal
  past,       \* Session -> the history it loaded
  at,         \* Session -> the source it reads next
  context,    \* Session -> the generation context it loaded
  mine,       \* Session -> the revision its generation installed, or 0
  outcome,    \* Session -> how its generation will end, the release aside
  result,     \* Session -> how its last generation ended
  witnessed,  \* history: the native states since its generation loaded
  reported,   \* history: a death or a report tells of what was left behind
  removals, faults

opVars == <<republish, past, at, context, mine, outcome, witnessed>>
diskVars == <<log, reasons, consumed, litter>>
worldVars == <<native, edits, removals>>
vars == <<native, edits, log, reasons, consumed, lock, litter, pc, republish, past, at,
          context, mine, outcome, result, witnessed, reported, removals, faults>>

Step == {"idle", "load", "collect", "verify", "guard", "install", "tidy", "reload", "release"}
Outcome == {"created", "replayed", "conflict", "failed", "partial"}

Init ==
  /\ native \in {n \in [Source -> {0, 1}] : n[0] = 1}
  /\ edits = 0
  /\ log = <<>> /\ reasons = <<>> /\ consumed = {}
  /\ lock = NoOne
  /\ litter = FALSE
  /\ pc = [s \in Session |-> "idle"]
  /\ republish = [s \in Session |-> FALSE]
  /\ past = [s \in Session |-> <<>>]
  /\ at = [s \in Session |-> 0]
  /\ context = [s \in Session |-> [x \in Source |-> 0]]
  /\ mine = [s \in Session |-> 0]
  /\ outcome = [s \in Session |-> "none"]
  /\ result = [s \in Session |-> "none"]
  /\ witnessed = [s \in Session |-> {}]
  /\ reported = FALSE
  /\ removals = 0 /\ faults = 0

Active(s) == pc[s] # "idle"
Goto(s, step) == pc' = [pc EXCEPT ![s] = step]
Fault == faults < MaxFaults /\ faults' = faults + 1

\* The finally clause of generate_academic_result_manifest runs next.
Conclude(s, how) == Goto(s, "release") /\ outcome' = [outcome EXCEPT ![s] = how]

-----------------------------------------------------------------------------
(* The lock.                                                               *)

ResetOp(s) ==
  /\ past' = [past EXCEPT ![s] = <<>>]
  /\ at' = [at EXCEPT ![s] = 0]
  /\ context' = [context EXCEPT ![s] = [x \in Source |-> 0]]
  /\ mine' = [mine EXCEPT ![s] = 0]
  /\ outcome' = [outcome EXCEPT ![s] = "none"]
  /\ witnessed' = [witnessed EXCEPT ![s] = {}]

\* Mutant: an existing lock is taken for a stale one.
AcquireOver(s, force) ==
  /\ ~Active(s)
  /\ Highest(log) < MaxRevisions
  /\ lock' = s
  /\ Goto(s, "load")
  /\ republish' = [republish EXCEPT ![s] = force]
  /\ result' = [result EXCEPT ![s] = "none"]
  /\ ResetOp(s)
  /\ UNCHANGED <<worldVars, diskVars, reported, faults>>

\* os.open with O_EXCL, then the token.
Acquire(s, force) ==
  /\ ~Active(s)
  /\ Highest(log) < MaxRevisions
  /\ lock = NoOne
  /\ lock' = s
  /\ Goto(s, "load")
  /\ republish' = [republish EXCEPT ![s] = force]
  /\ result' = [result EXCEPT ![s] = "none"]
  /\ ResetOp(s)
  /\ UNCHANGED <<worldVars, diskVars, reported, faults>>

\* FileExistsError: a lock, live or stale, is a conflict.
AcquireRefused(s) ==
  /\ ~Active(s)
  /\ lock # NoOne
  /\ result' = [result EXCEPT ![s] = "conflict"]
  /\ ResetOp(s)
  /\ UNCHANGED <<worldVars, diskVars, lock, pc, republish, reported, faults>>

\* The lock cannot be created, or its token cannot be written: then it is
\* removed again, or stays with a token that is not the owner's.
AcquireFault(s) ==
  /\ ~Active(s)
  /\ lock = NoOne
  /\ Fault
  /\ \/ UNCHANGED <<lock, reported>>
     \/ lock' = Stale /\ reported' = TRUE
  /\ result' = [result EXCEPT ![s] = "failed"]
  /\ ResetOp(s)
  /\ UNCHANGED <<worldVars, diskVars, pc, republish>>

\* The token is compared before the lock is unlinked.
Release(s) ==
  /\ pc[s] = "release"
  /\ lock = s
  /\ lock' = NoOne
  /\ Goto(s, "idle")
  /\ result' = [result EXCEPT ![s] = outcome[s]]
  /\ UNCHANGED <<worldVars, diskVars, opVars, reported, faults>>

ReleaseFault(s) ==
  /\ pc[s] = "release"
  /\ Fault
  /\ lock' = Stale
  /\ Goto(s, "idle")
  /\ reported' = TRUE
  /\ result' = [result EXCEPT ![s] =
       IF outcome[s] = "created" THEN "partial"
       ELSE IF outcome[s] = "replayed" THEN "failed" ELSE outcome[s]]
  /\ UNCHANGED <<worldVars, diskVars, opVars>>

-----------------------------------------------------------------------------
(* Snapshot, plan, verification.                                           *)

\* Any entry that is neither a revision nor the generation's own lock makes
\* the history unreadable.
Load(s) ==
  /\ pc[s] = "load"
  /\ IF litter
       THEN Conclude(s, "failed") /\ UNCHANGED <<past, witnessed>>
       ELSE /\ Goto(s, "collect")
            /\ past' = [past EXCEPT ![s] = log]
            /\ witnessed' = [witnessed EXCEPT ![s] = {native}]
            /\ UNCHANGED outcome
  /\ UNCHANGED <<worldVars, diskVars, lock, republish, at, context, mine, result,
                 reported, faults>>

PlanOf(s) == Plan(past[s], context[s], republish[s])

\* Mutant: one record too many.
CollectPast(s) ==
  /\ pc[s] = "collect"
  /\ context' = [context EXCEPT ![s][at[s]] = native[at[s]]]
  /\ at' = [at EXCEPT ![s] = @ + 1]
  /\ IF at[s] < NStudents THEN UNCHANGED pc ELSE Goto(s, "verify")
  /\ UNCHANGED <<worldVars, diskVars, lock, republish, past, mine, outcome, result,
                 witnessed, reported, faults>>

\* One record is read; after the last one the candidate is planned.
Collect(s) ==
  /\ pc[s] = "collect"
  /\ context' = [context EXCEPT ![s][at[s]] = native[at[s]]]
  /\ IF at[s] < NStudents
       THEN at' = [at EXCEPT ![s] = @ + 1] /\ UNCHANGED <<pc, outcome>>
       ELSE /\ at' = [at EXCEPT ![s] = 0]
            /\ IF Plan(past[s], context'[s], republish[s]) = "invalid"
                 THEN Conclude(s, "failed")
                 ELSE Goto(s, "verify") /\ UNCHANGED outcome
  /\ UNCHANGED <<worldVars, diskVars, lock, republish, past, mine, result, witnessed,
                 reported, faults>>

\* Mutant: the context is trusted as it was first read.
VerifyNothing(s) ==
  /\ pc[s] = "verify"
  /\ IF PlanOf(s) = "exact_replay"
       THEN Conclude(s, "replayed")
       ELSE Goto(s, "guard") /\ UNCHANGED outcome
  /\ UNCHANGED <<worldVars, diskVars, lock, republish, past, at, context, mine, result,
                 witnessed, reported, faults>>

\* verify_generation_context_unchanged reads one record again.
Verify(s) ==
  /\ pc[s] = "verify"
  /\ IF native[at[s]] # context[s][at[s]]
       THEN Conclude(s, "conflict") /\ UNCHANGED at
     ELSE IF at[s] < NStudents
       THEN at' = [at EXCEPT ![s] = @ + 1] /\ UNCHANGED <<pc, outcome>>
     ELSE /\ at' = [at EXCEPT ![s] = 0]
          /\ IF PlanOf(s) = "exact_replay"
               THEN Conclude(s, "replayed")
               ELSE Goto(s, "guard") /\ UNCHANGED outcome
  /\ UNCHANGED <<worldVars, diskVars, lock, republish, past, context, mine, result,
                 witnessed, reported, faults>>

\* An I/O error while the native records or the history are read.
ReadFault(s) ==
  /\ pc[s] \in {"load", "collect", "verify"}
  /\ Fault
  /\ Conclude(s, IF pc[s] = "verify" THEN "conflict" ELSE "failed")
  /\ UNCHANGED <<worldVars, diskVars, lock, republish, past, at, context, mine, result,
                 witnessed, reported>>

-----------------------------------------------------------------------------
(* Creation.                                                               *)

Guard(s) ==
  /\ pc[s] = "guard"
  /\ litter' = TRUE
  /\ Goto(s, "install")
  /\ UNCHANGED <<worldVars, log, reasons, consumed, lock, opVars, result, reported, faults>>

\* os.link of the temporary file onto <revision>.json.
Install(s) ==
  LET n == NextRevision(past[s])
      Put(f, v) == [m \in DOMAIN f \cup {n} |-> IF m = n THEN v ELSE f[m]] IN
  /\ pc[s] = "install"
  /\ n \notin DOMAIN log
  /\ log' = Put(log, context[s])
  /\ reasons' = Put(reasons, PlanOf(s))
  /\ consumed' = consumed \cup {n}
  /\ mine' = [mine EXCEPT ![s] = n]
  /\ Goto(s, "tidy")
  /\ UNCHANGED <<worldVars, lock, litter, republish, past, at, context, outcome, result,
                 witnessed, reported, faults>>

\* Mutant: the leftover of a failed creation is not mentioned.
CreateFaultSilent(s) ==
  /\ pc[s] \in {"guard", "install"}
  /\ Fault
  /\ \E left \in BOOLEAN : litter' = (litter /\ left)
  /\ UNCHANGED reported
  /\ Conclude(s, "failed")
  /\ UNCHANGED <<worldVars, log, reasons, consumed, lock, republish, past, at, context,
                 mine, result, witnessed>>

\* Before the link: nothing is installed; the guard may resist removal.
CreateFault(s) ==
  /\ pc[s] \in {"guard", "install"}
  /\ Fault
  /\ \E left \in BOOLEAN : litter' = (litter /\ left)
  /\ reported' = (reported \/ litter')
  /\ Conclude(s, "failed")
  /\ UNCHANGED <<worldVars, log, reasons, consumed, lock, republish, past, at, context,
                 mine, result, witnessed>>

Tidy(s) ==
  /\ pc[s] = "tidy"
  /\ litter' = FALSE
  /\ Goto(s, "reload")
  /\ UNCHANGED <<worldVars, log, reasons, consumed, lock, opVars, result, reported, faults>>

\* The revision is read back from the directory.
Reload(s) ==
  /\ pc[s] = "reload"
  /\ Conclude(s, IF mine[s] \in DOMAIN log /\ log[mine[s]] = context[s]
                   THEN "created" ELSE "partial")
  /\ UNCHANGED <<worldVars, diskVars, lock, republish, past, at, context, mine, result,
                 witnessed, reported, faults>>

\* After the link: the revision may be durable and is never taken back.
DurableFault(s) ==
  /\ pc[s] \in {"tidy", "reload"}
  /\ Fault
  /\ \E left \in BOOLEAN : litter' = (litter /\ left)
  /\ reported' = (reported \/ litter')
  /\ Conclude(s, "partial")
  /\ UNCHANGED <<worldVars, log, reasons, consumed, lock, republish, past, at, context,
                 mine, result, witnessed>>

-----------------------------------------------------------------------------
(* The environment.                                                        *)

Crash(s) ==
  /\ Active(s)
  /\ Fault
  /\ lock' = Stale
  /\ reported' = TRUE
  /\ Goto(s, "idle")
  /\ result' = [result EXCEPT ![s] = "crashed"]
  /\ UNCHANGED <<worldVars, diskVars, opVars>>

Witness(state) ==
  witnessed' = [s \in Session |-> IF Active(s) THEN witnessed[s] \cup {state} ELSE witnessed[s]]

\* A teacher edits the assignment, or edits or begins a student's review; an
\* edit carries a new timestamp, so its bytes are new unless it restores a copy.
Edit(x) ==
  /\ edits < MaxEdits
  /\ edits' = edits + 1
  /\ \E v \in {edits + 2} \cup {u \in {1} : x \in Restorable} :
       native' = [native EXCEPT ![x] = v]
  /\ native' # native
  /\ Witness(native')
  /\ UNCHANGED <<diskVars, lock, pc, republish, past, at, context, mine, outcome, result,
                 reported, removals, faults>>

\* Somebody removes a revision file by hand, though not under a generation
\* that has loaded it and not yet installed: that one would still plan with it.
RemoveRevision(n) ==
  /\ removals < MaxRemovals
  /\ \A s \in Session : pc[s] \in {"idle", "load", "tidy", "reload", "release"}
  /\ removals' = removals + 1
  /\ log' = [m \in DOMAIN log \ {n} |-> log[m]]
  /\ reasons' = [m \in DOMAIN log \ {n} |-> reasons[m]]
  /\ UNCHANGED <<native, edits, consumed, lock, litter, pc, opVars, result, reported, faults>>

\* The code never removes a stale lock; somebody who saw the report does.
OperatorCleans ==
  /\ \A s \in Session : ~Active(s)
  /\ lock = Stale \/ litter
  /\ reported
  /\ lock' = NoOne
  /\ litter' = FALSE
  /\ reported' = FALSE
  /\ UNCHANGED <<worldVars, log, reasons, consumed, pc, opVars, result, faults>>

Next ==
  \/ \E s \in Session :
       \/ \E force \in BOOLEAN : Acquire(s, force)
       \/ AcquireRefused(s) \/ AcquireFault(s)
       \/ Load(s) \/ Collect(s) \/ Verify(s) \/ ReadFault(s)
       \/ Guard(s) \/ Install(s) \/ CreateFault(s)
       \/ Tidy(s) \/ Reload(s) \/ DurableFault(s)
       \/ Release(s) \/ ReleaseFault(s) \/ Crash(s)
  \/ \E x \in Source : Edit(x)
  \/ \E n \in DOMAIN log : RemoveRevision(n)
  \/ OperatorCleans

Spec == Init /\ [][Next]_vars

-----------------------------------------------------------------------------
(* Properties.                                                             *)

\* Every variable keeps the type its declaration describes.
TypeOK ==
  /\ native \in Content
  /\ edits \in 0 .. MaxEdits /\ removals \in 0 .. MaxRemovals /\ faults \in 0 .. MaxFaults
  /\ DOMAIN log \subseteq consumed /\ consumed \subseteq 1 .. MaxRevisions
  /\ \A n \in DOMAIN log : log[n] \in Content
  /\ DOMAIN reasons = DOMAIN log
  /\ lock \in Session \cup {NoOne, Stale}
  /\ litter \in BOOLEAN /\ reported \in BOOLEAN
  /\ pc \in [Session -> Step]
  /\ republish \in [Session -> BOOLEAN]
  /\ at \in [Session -> Source]
  /\ context \in [Session -> Content]
  /\ mine \in [Session -> 0 .. MaxRevisions]
  /\ outcome \in [Session -> Outcome \cup {"none"}]
  /\ result \in [Session -> Outcome \cup {"none", "crashed"}]
  /\ \A s \in Session : witnessed[s] \subseteq Content

\* The generations together are a log: no step rewrites a revision, a new one
\* stands above all that are present, repeats its predecessor only after a
\* withdrawal, and is given the reason its content deserves.
Log == INSTANCE RevisionLog WITH Bound <- MaxRevisions
ImplementsLog == Log!Spec

\* At most one generation is between taking and releasing .write.lock, and no
\* generation releases a lock it does not own.
LockExcludes == \A s \in Session : Active(s) => lock = s

\* A revision that a generation installs, or replays, is a state all native
\* records were in at one moment of that generation, although they were read
\* one file after the other while teachers edited them.
CoherentSnapshot ==
  \A s \in Session :
    (mine[s] # 0 \/ outcome[s] = "replayed") => context[s] \in witnessed[s]

\* The caller is told the truth: a conflict or a failure installed nothing, a
\* creation or partial success did, and a replay answers with what is there.
TruthfulResult ==
  \A s \in Session :
    /\ result[s] \in {"conflict", "failed", "replayed"} => mine[s] = 0
    /\ result[s] \in {"created", "partial"} => mine[s] \in consumed
    /\ result[s] = "replayed" => past[s][Highest(past[s])] = context[s]

\* Whenever nobody is generating, the history is readable and the lock free,
\* unless somebody died or was told of what had to be left in the directory.
Readable == lock = NoOne /\ ~litter
LeftoversReported == (\A s \in Session : ~Active(s)) /\ ~Readable => reported

=============================================================================
