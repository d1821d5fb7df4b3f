---------------------------- MODULE AtomicRecord ----------------------------
(***************************************************************************)
(* quillan/atomic_record_io.py: how one canonical JSON record is created   *)
(* and updated by processes that share nothing but the directory it lies   *)
(* in.  Every action is one file-system operation of                       *)
(* create_exclusive_record or revision_guarded_update, so every            *)
(* interleaving of two calls that the file system allows is a behaviour.   *)
(* A call that saw no record creates it, one that saw a revision updates   *)
(* exactly that revision (persist_quillan_review_record).                  *)
(***************************************************************************)
EXTENDS Naturals, FiniteSets

CONSTANTS
  Writer,     \* processes: CLI invocations and menu sessions
  Content,    \* byte strings the record may hold
  Purpose,    \* lock_purpose values of the update call sites
  MayCreate,  \* whether a caller that finds no record creates one
  MaxFaults,  \* bound on I/O errors, interrupts and process deaths
  Absent, Free, Stale   \* no such file; no lock file; a lock file nobody owns

ASSUME RecordAssumption ==
  /\ MayCreate \in BOOLEAN
  /\ MaxFaults \in Nat
  /\ Absent \notin Content
  /\ Free # Stale
  /\ Free \notin Writer
  /\ Stale \notin Writer
  /\ "create" \notin Purpose

VARIABLES
  target,   \* the record's bytes, or Absent
  lock,     \* lock file name -> Free, Stale or the writer whose token it holds
  temps,    \* the writers whose temporary file exists
  moved,    \* Writer -> the bytes in its displaced file, or Absent
  strays,   \* bytes in displaced files that no running call will remove
  pc,       \* Writer -> the next file-system step of its call
  seen,     \* Writer -> expected_original_bytes; Absent for a creation
  new,      \* Writer -> replacement_bytes
  guard,    \* Writer -> the lock file name its call uses
  known,    \* Writer -> displaced_matches_expected
  installed, \* Writer -> installed
  outcome,  \* Writer -> the result or exception its call ends with
  faults    \* faults so far

dirVars == <<target, lock, temps, moved, strays>>
argVars == <<seen, new, guard>>
vars == <<target, lock, temps, moved, strays, pc, seen, new, guard, known,
          installed, outcome, faults>>

LockName == Purpose \cup {"create"}

\* The try block of either function after its lock was taken ...
Body == {"recheck", "stage", "lastcheck", "displace", "inspect", "install",
         "unstage", "verify", "discard"}
\* ... and its finally block.
Finally == {"restore", "relink", "unlink_moved", "keep_moved", "sweep", "release"}
Step == {"idle", "precheck", "acquire"} \cup Body \cup Finally
Outcome == {"none", "created", "updated", "unchanged", "conflict", "failed",
            "durable", "stale_lock", "interrupted"}

Creating(w) == seen[w] = Absent

Goto(w, step) == pc' = [pc EXCEPT ![w] = step]

\* An exception leaves the try block.  One raised after the installation is
\* reported as AtomicRecordDurabilityError; an interrupt is never relabelled.
\* _restore_displaced_revision runs only if nothing was installed.
Raise(w, error) ==
  /\ outcome' = [outcome EXCEPT ![w] =
                   IF installed[w] /\ error # "interrupted" THEN "durable" ELSE error]
  /\ Goto(w, IF moved[w] # Absent /\ ~installed[w] THEN "restore" ELSE "sweep")

Return(w, result) ==
  /\ outcome' = [outcome EXCEPT ![w] = result]
  /\ Goto(w, "release")

-----------------------------------------------------------------------------
Init ==
  /\ target \in Content \cup {Absent}
  /\ lock = [l \in LockName |-> Free]
  /\ temps = {}
  /\ moved = [w \in Writer |-> Absent]
  /\ strays = {}
  /\ pc = [w \in Writer |-> "idle"]
  /\ seen = [w \in Writer |-> Absent]
  /\ new = [w \in Writer |-> Absent]
  /\ guard = [w \in Writer |-> "create"]
  /\ known = [w \in Writer |-> FALSE]
  /\ installed = [w \in Writer |-> FALSE]
  /\ outcome = [w \in Writer |-> "none"]
  /\ faults = 0

\* The caller loads the record and calls create or update with what it saw.
Begin(w) ==
  /\ pc[w] = "idle"
  /\ target # Absent \/ MayCreate
  /\ seen' = [seen EXCEPT ![w] = target]
  /\ \E c \in Content : new' = [new EXCEPT ![w] = c]
  /\ \E l \in IF target = Absent THEN {"create"} ELSE Purpose :
       guard' = [guard EXCEPT ![w] = l]
  /\ known' = [known EXCEPT ![w] = FALSE]
  /\ installed' = [installed EXCEPT ![w] = FALSE]
  /\ outcome' = [outcome EXCEPT ![w] = "none"]
  /\ Goto(w, "precheck")
  /\ UNCHANGED <<dirVars, faults>>

\* The call is over: what it was given goes out of scope.
Hang(w) ==
  /\ Goto(w, "idle")
  /\ seen' = [seen EXCEPT ![w] = Absent]
  /\ new' = [new EXCEPT ![w] = Absent]
  /\ known' = [known EXCEPT ![w] = FALSE]
  /\ installed' = [installed EXCEPT ![w] = FALSE]
  /\ UNCHANGED guard

\* lexists(path) for a creation, _compare_revision for an update; no lock yet.
Precheck(w) ==
  /\ pc[w] = "precheck"
  /\ \/ /\ target = seen[w]
        /\ Goto(w, "acquire")
        /\ UNCHANGED <<argVars, known, installed, outcome>>
     \/ /\ target # seen[w]
        /\ outcome' = [outcome EXCEPT ![w] = "conflict"]
        /\ Hang(w)
  /\ UNCHANGED <<dirVars, faults>>

\* Mutant: the lock file is opened for writing whether it exists or not.
AcquireAnyway(w) ==
  /\ pc[w] = "acquire"
  /\ lock' = [lock EXCEPT ![guard[w]] = w]
  /\ Goto(w, "recheck")
  /\ UNCHANGED <<argVars, known, installed, outcome>>
  /\ UNCHANGED <<target, temps, moved, strays, faults>>

\* Mutant: a call waits for the lock file to disappear.
AcquireWaiting(w) ==
  /\ pc[w] = "acquire"
  /\ lock[guard[w]] = Free
  /\ lock' = [lock EXCEPT ![guard[w]] = w]
  /\ Goto(w, "recheck")
  /\ UNCHANGED <<argVars, known, installed, outcome>>
  /\ UNCHANGED <<target, temps, moved, strays, faults>>

\* lock_path.open("xb"): the lock file either did not exist or is respected.
Acquire(w) ==
  /\ pc[w] = "acquire"
  /\ \/ /\ lock[guard[w]] = Free
        /\ lock' = [lock EXCEPT ![guard[w]] = w]
        /\ Goto(w, "recheck")
        /\ UNCHANGED <<argVars, known, installed, outcome>>
     \/ /\ lock[guard[w]] # Free
        /\ outcome' = [outcome EXCEPT ![w] = "conflict"]
        /\ Hang(w)
        /\ UNCHANGED lock
  /\ UNCHANGED <<target, temps, moved, strays, faults>>

\* The comparison repeated under the lock, and again after the temporary was
\* written.  An update to the same bytes ends here.
Recheck(w) ==
  /\ pc[w] \in {"recheck", "lastcheck"}
  /\ \/ target # seen[w] /\ Raise(w, "conflict")
     \/ /\ target = seen[w]
        /\ pc[w] = "recheck"
        /\ IF new[w] = seen[w]
             THEN Return(w, "unchanged")
             ELSE Goto(w, "stage") /\ UNCHANGED outcome
     \/ /\ target = seen[w]
        /\ pc[w] = "lastcheck"
        /\ Goto(w, IF Creating(w) THEN "install" ELSE "displace")
        /\ UNCHANGED outcome
  /\ UNCHANGED <<dirVars, argVars, known, installed, faults>>

\* _write_temporary
Stage(w) ==
  /\ pc[w] = "stage"
  /\ temps' = temps \cup {w}
  /\ Goto(w, "lastcheck")
  /\ UNCHANGED <<target, lock, moved, strays, argVars, known, installed, outcome, faults>>

\* os.replace(path, displaced): moves whatever revision is there now.
Displace(w) ==
  /\ pc[w] = "displace"
  /\ \/ /\ target # Absent
        /\ moved' = [moved EXCEPT ![w] = target]
        /\ target' = Absent
        /\ Goto(w, "inspect")
        /\ UNCHANGED outcome
     \/ /\ target = Absent
        /\ Raise(w, "failed")
        /\ UNCHANGED <<moved, target>>
  /\ UNCHANGED <<lock, temps, strays, argVars, known, installed, faults>>

\* Mutant: what was displaced is taken to be the expected revision.
InspectTrusting(w) ==
  /\ pc[w] = "inspect"
  /\ known' = [known EXCEPT ![w] = TRUE]
  /\ Goto(w, "install")
  /\ UNCHANGED <<dirVars, argVars, installed, outcome, faults>>

\* Was it the expected revision that moved?
Inspect(w) ==
  /\ pc[w] = "inspect"
  /\ \/ /\ moved[w] = seen[w]
        /\ known' = [known EXCEPT ![w] = TRUE]
        /\ Goto(w, "install")
        /\ UNCHANGED outcome
     \/ /\ moved[w] # seen[w]
        /\ Raise(w, "conflict")
        /\ UNCHANGED known
  /\ UNCHANGED <<dirVars, argVars, installed, faults>>

\* os.link(temporary, path) never replaces a record that exists.
Install(w) ==
  /\ pc[w] = "install"
  /\ \/ /\ target = Absent
        /\ target' = new[w]
        /\ installed' = [installed EXCEPT ![w] = TRUE]
        /\ Goto(w, "unstage")
        /\ UNCHANGED outcome
     \/ /\ target # Absent
        /\ Raise(w, "conflict")
        /\ UNCHANGED <<target, installed>>
  /\ UNCHANGED <<lock, temps, moved, strays, argVars, known, faults>>

\* temporary.unlink()
Unstage(w) ==
  /\ pc[w] = "unstage"
  /\ temps' = temps \ {w}
  /\ Goto(w, "verify")
  /\ UNCHANGED <<target, lock, moved, strays, argVars, known, installed, outcome, faults>>

\* _verify_installed: another writer may already have moved the record on.
Verify(w) ==
  /\ pc[w] = "verify"
  /\ \/ target # new[w] /\ Raise(w, "conflict")
     \/ target = new[w] /\ Creating(w) /\ Return(w, "created")
     \/ /\ target = new[w]
        /\ ~Creating(w)
        /\ Goto(w, "discard")
        /\ UNCHANGED outcome
  /\ UNCHANGED <<dirVars, argVars, known, installed, faults>>

\* displaced.unlink()
Discard(w) ==
  /\ pc[w] = "discard"
  /\ moved' = [moved EXCEPT ![w] = Absent]
  /\ Return(w, "updated")
  /\ UNCHANGED <<target, lock, temps, strays, argVars, known, installed, faults>>

-----------------------------------------------------------------------------
(* The finally block.                                                      *)

\* _restore_displaced_revision: lexists(target) ...
RestoreCheck(w) ==
  /\ pc[w] = "restore"
  /\ Goto(w, IF target = Absent THEN "relink"
             ELSE IF known[w] THEN "unlink_moved" ELSE "keep_moved")
  /\ UNCHANGED <<dirVars, argVars, known, installed, outcome, faults>>

\* ... os.link(displaced, target), which loses to a record created meanwhile ...
Relink(w) ==
  /\ pc[w] = "relink"
  /\ \/ /\ target = Absent
        /\ target' = moved[w]
        /\ Goto(w, "unlink_moved")
     \/ /\ target # Absent
        /\ Goto(w, IF known[w] THEN "unlink_moved" ELSE "keep_moved")
        /\ UNCHANGED target
  /\ UNCHANGED <<lock, temps, moved, strays, argVars, known, installed, outcome, faults>>

\* ... displaced.unlink() ...
UnlinkMoved(w) ==
  /\ pc[w] = "unlink_moved"
  /\ moved' = [moved EXCEPT ![w] = Absent]
  /\ Goto(w, "sweep")
  /\ UNCHANGED <<target, lock, temps, strays, argVars, known, installed, outcome, faults>>

\* Mutant: a stray is recorded whether or not anything was displaced.
StrandAlways(w) ==
  /\ strays' = strays \cup {moved[w]}
  /\ moved' = [moved EXCEPT ![w] = Absent]

\* A displaced file stays in the directory and no call will remove it.
Strand(w) ==
  /\ strays' = strays \cup ({moved[w]} \ {Absent})
  /\ moved' = [moved EXCEPT ![w] = Absent]

\* ... or the concurrently displaced revision is preserved and noted.
KeepMoved(w) ==
  /\ pc[w] = "keep_moved"
  /\ Strand(w)
  /\ Goto(w, "sweep")
  /\ UNCHANGED <<target, lock, temps, argVars, known, installed, outcome, faults>>

\* _cleanup_owned_temporary(temporary), then of an installed update's
\* displaced file.
Sweep(w) ==
  /\ pc[w] = "sweep"
  /\ temps' = temps \ {w}
  /\ moved' = [moved EXCEPT ![w] = IF installed[w] /\ known[w] THEN Absent ELSE @]
  /\ Goto(w, "release")
  /\ UNCHANGED <<target, lock, strays, argVars, known, installed, outcome, faults>>

\* _remove_owned_lock: only a lock file that holds this call's token.
Release(w) ==
  /\ pc[w] = "release"
  /\ lock' = [lock EXCEPT ![guard[w]] = IF @ = w THEN Free ELSE @]
  /\ Hang(w)
  /\ UNCHANGED <<target, temps, moved, strays, outcome, faults>>

-----------------------------------------------------------------------------
(* Faults: at most MaxFaults of them.                                      *)

Fault == faults < MaxFaults /\ faults' = faults + 1

\* An OSError, a failed preflight or verification, or an interrupt, in the try
\* block before the step it hits had an effect.
BodyFault(w) ==
  /\ pc[w] \in Body
  /\ \E error \in {"failed", "interrupted"} : Raise(w, error)
  /\ Fault
  /\ UNCHANGED <<dirVars, argVars, known, installed>>

\* The same before the lock file exists ...
EarlyFault(w) ==
  /\ pc[w] \in {"precheck", "acquire"}
  /\ outcome' \in {[outcome EXCEPT ![w] = e] : e \in {"failed", "interrupted"}}
  /\ Hang(w)
  /\ Fault
  /\ UNCHANGED dirVars

\* ... and between creating the lock file and writing its token: the call will
\* not recognise the file as its own.
TornLock(w) ==
  /\ pc[w] = "acquire"
  /\ lock[guard[w]] = Free
  /\ lock' = [lock EXCEPT ![guard[w]] = Stale]
  /\ \E error \in {"failed", "interrupted"} : Raise(w, error)
  /\ Fault
  /\ UNCHANGED <<target, temps, moved, strays, argVars, known, installed>>

\* A restoration that fails is noted on the exception.
RestoreFault(w) ==
  /\ pc[w] \in {"restore", "relink", "unlink_moved"}
  /\ Strand(w)
  /\ Goto(w, "sweep")
  /\ Fault
  /\ UNCHANGED <<target, lock, temps, argVars, known, installed, outcome>>

\* The lock file cannot be removed: with no exception under way the call
\* raises AtomicRecordDurabilityError naming what it installed, if anything.
StuckLock(w) ==
  /\ pc[w] = "release"
  /\ lock' = [lock EXCEPT ![guard[w]] = IF @ = w THEN Stale ELSE @]
  /\ outcome' = [outcome EXCEPT ![w] =
                   IF @ \in {"created", "updated"} THEN "durable"
                   ELSE IF @ = "unchanged" THEN "stale_lock" ELSE @]
  /\ Hang(w)
  /\ Fault
  /\ UNCHANGED <<target, temps, moved, strays>>

\* The process dies: its files stay as they are.
Crash(w) ==
  /\ pc[w] # "idle"
  /\ lock' = [l \in LockName |-> IF lock[l] = w THEN Stale ELSE lock[l]]
  /\ temps' = temps \ {w}    \* a temporary's name is never used again
  /\ Strand(w)
  /\ outcome' = [outcome EXCEPT ![w] = "none"]
  /\ Hang(w)
  /\ Fault
  /\ UNCHANGED target

CallStep(w) ==
  \/ Precheck(w) \/ Acquire(w) \/ Recheck(w) \/ Stage(w) \/ Displace(w)
  \/ Inspect(w) \/ Install(w) \/ Unstage(w) \/ Verify(w) \/ Discard(w)
  \/ RestoreCheck(w) \/ Relink(w) \/ UnlinkMoved(w) \/ KeepMoved(w)
  \/ Sweep(w) \/ Release(w)

FaultStep(w) ==
  \/ BodyFault(w) \/ EarlyFault(w) \/ TornLock(w) \/ RestoreFault(w)
  \/ StuckLock(w) \/ Crash(w)

Next == \E w \in Writer : Begin(w) \/ CallStep(w) \/ FaultStep(w)

Spec == Init /\ [][Next]_vars

\* A started call keeps running unless its process dies.
FairSpec == Spec /\ \A w \in Writer : WF_vars(CallStep(w))

-----------------------------------------------------------------------------
(* What the protocol must guarantee.                                       *)

TypeOK ==
  /\ target \in Content \cup {Absent}
  /\ lock \in [LockName -> Writer \cup {Free, Stale}]
  /\ temps \subseteq Writer
  /\ moved \in [Writer -> Content \cup {Absent}]
  /\ strays \subseteq Content
  /\ pc \in [Writer -> Step]
  /\ seen \in [Writer -> Content \cup {Absent}]
  /\ new \in [Writer -> Content \cup {Absent}]
  /\ guard \in [Writer -> LockName]
  /\ known \in [Writer -> BOOLEAN]
  /\ installed \in [Writer -> BOOLEAN]
  /\ outcome \in [Writer -> Outcome]
  /\ faults \in 0 .. MaxFaults

Running(w) == pc[w] \in Body \cup Finally

\* The guard works: two calls that use the same lock file are never both past
\* it, whatever dies and whatever lock file is left behind.
OneHolder ==
  \A v, w \in Writer : v # w /\ Running(v) /\ Running(w) => guard[v] # guard[w]

\* A call displaced the record and has neither installed nor given it back.
InWindow(w) == moved[w] # Absent /\ pc[w] \in {"inspect", "install", "restore", "relink"}

\* The revision a caller would call current: the file, or, while an update is
\* between os.replace and os.link, the file it displaced.
Current ==
  IF target # Absent THEN target
  ELSE IF \E w \in Writer : InWindow(w)
         THEN moved[CHOOSE w \in Writer : InWindow(w)]
         ELSE Absent

\* A caller told "created" or "updated" did install its bytes; one told of a
\* conflict or a failure installed nothing and may safely load and try again.
TruthfulAnswer ==
  [][\A w \in Writer : pc[w] # "idle" /\ pc'[w] = "idle" =>
       /\ outcome'[w] \in {"created", "updated", "durable"} => installed[w]
       /\ outcome'[w] \in {"conflict", "failed", "unchanged", "stale_lock"} => ~installed[w]]_vars

\* Every call is answered: no lock is waited for, every path reaches the end.
EveryCallReturns == \A w \in Writer : pc[w] # "idle" ~> pc[w] = "idle"

\* The compare-and-swap register that callers believe in.
Register == INSTANCE RecordRegister WITH
  reg <- Current,
  aside <- strays,
  stage <- [w \in Writer |-> IF pc[w] = "idle" THEN "none"
                             ELSE IF installed[w] THEN "applied" ELSE "open"],
  reply <- [w \in Writer |-> IF pc[w] = "idle" THEN outcome[w] ELSE "none"]
=============================================================================
