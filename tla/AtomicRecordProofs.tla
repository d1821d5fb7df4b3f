------------------------- MODULE AtomicRecordProofs -------------------------
(***************************************************************************)
(* Machine-checked theorems about AtomicRecord, for any set of processes,  *)
(* contents and lock purposes and any number of faults.                    *)
(***************************************************************************)
EXTENDS MCAtomicRecord, TLAPS

-----------------------------------------------------------------------------
(* Type correctness.                                                       *)

\* Leaving the try block keeps pc and outcome in their types.
LEMMA RaiseType ==
  ASSUME TypeOK, NEW w \in Writer, NEW error \in Outcome, Raise(w, error)
  PROVE  pc' \in [Writer -> Step] /\ outcome' \in [Writer -> Outcome]
BY DEF TypeOK, Raise, Goto, Step, Body, Finally, Outcome

\* Ending a call keeps everything Hang changes in its type.
LEMMA HangType ==
  ASSUME TypeOK, NEW w \in Writer, Hang(w)
  PROVE  /\ pc' \in [Writer -> Step]
         /\ seen' \in [Writer -> Content \cup {Absent}]
         /\ new' \in [Writer -> Content \cup {Absent}]
         /\ guard' \in [Writer -> LockName]
         /\ known' \in [Writer -> BOOLEAN]
         /\ installed' \in [Writer -> BOOLEAN]
BY DEF TypeOK, Hang, Goto, Step

\* The states of the model are the ones its declarations name, whatever the
\* interleaving of calls, faults and deaths.
THEOREM TypeCorrect == Spec => []TypeOK
<1> USE RecordAssumption
<1>1. Init => TypeOK
  BY DEF Init, TypeOK, LockName, Step, Outcome
<1>2. TypeOK /\ [Next]_vars => TypeOK'
  <2> SUFFICES ASSUME TypeOK, [Next]_vars PROVE TypeOK'
    OBVIOUS
  <2>1. CASE UNCHANGED vars
    BY <2>1 DEF TypeOK, vars
  <2>2. ASSUME NEW w \in Writer, Begin(w) PROVE TypeOK'
    BY <2>2 DEF TypeOK, Begin, dirVars, Goto, Step, Outcome, LockName
  <2>3. ASSUME NEW w \in Writer, Precheck(w) PROVE TypeOK'
    <3>1. CASE target = seen[w]
      BY <2>3, <3>1 DEF TypeOK, Precheck, dirVars, argVars, Goto, Step
    <3>2. CASE target # seen[w]
      BY <2>3, <3>2, HangType DEF TypeOK, Precheck, dirVars, Outcome
    <3> QED BY <3>1, <3>2
  <2>4. ASSUME NEW w \in Writer, Acquire(w) PROVE TypeOK'
    <3>1. CASE lock[guard[w]] = Free
      BY <2>4, <3>1 DEF TypeOK, Acquire, argVars, Goto, Step, Body
    <3>2. CASE lock[guard[w]] # Free
      BY <2>4, <3>2, HangType DEF TypeOK, Acquire, Outcome
    <3> QED BY <3>1, <3>2
  <2>5. ASSUME NEW w \in Writer, Recheck(w) PROVE TypeOK'
    BY <2>5, RaiseType
    DEF TypeOK, Recheck, Return, dirVars, argVars, Goto, Step, Body, Finally, Outcome
  <2>6. ASSUME NEW w \in Writer, Stage(w) PROVE TypeOK'
    BY <2>6 DEF TypeOK, Stage, argVars, Goto, Step, Body
  <2>7. ASSUME NEW w \in Writer, Displace(w) PROVE TypeOK'
    BY <2>7, RaiseType DEF TypeOK, Displace, argVars, Goto, Step, Body, Outcome
  <2>8. ASSUME NEW w \in Writer, Inspect(w) PROVE TypeOK'
    BY <2>8, RaiseType DEF TypeOK, Inspect, dirVars, argVars, Goto, Step, Body, Outcome
  <2>9. ASSUME NEW w \in Writer, Install(w) PROVE TypeOK'
    BY <2>9, RaiseType DEF TypeOK, Install, argVars, Goto, Step, Body, Outcome
  <2>10. ASSUME NEW w \in Writer, Unstage(w) PROVE TypeOK'
    BY <2>10 DEF TypeOK, Unstage, argVars, Goto, Step, Body
  <2>11. ASSUME NEW w \in Writer, Verify(w) PROVE TypeOK'
    BY <2>11, RaiseType
    DEF TypeOK, Verify, Return, dirVars, argVars, Goto, Step, Body, Finally, Outcome
  <2>12. ASSUME NEW w \in Writer, Discard(w) PROVE TypeOK'
    BY <2>12 DEF TypeOK, Discard, Return, argVars, Goto, Step, Finally, Outcome
  <2>13. ASSUME NEW w \in Writer, RestoreCheck(w) PROVE TypeOK'
    BY <2>13 DEF TypeOK, RestoreCheck, dirVars, argVars, Goto, Step, Finally
  <2>14. ASSUME NEW w \in Writer, Relink(w) PROVE TypeOK'
    BY <2>14 DEF TypeOK, Relink, argVars, Goto, Step, Finally
  <2>15. ASSUME NEW w \in Writer, UnlinkMoved(w) PROVE TypeOK'
    BY <2>15 DEF TypeOK, UnlinkMoved, argVars, Goto, Step, Finally
  <2>16. ASSUME NEW w \in Writer, KeepMoved(w) PROVE TypeOK'
    BY <2>16 DEF TypeOK, KeepMoved, Strand, argVars, Goto, Step, Finally
  <2>17. ASSUME NEW w \in Writer, Sweep(w) PROVE TypeOK'
    BY <2>17 DEF TypeOK, Sweep, argVars, Goto, Step, Finally
  <2>18. ASSUME NEW w \in Writer, Release(w) PROVE TypeOK'
    BY <2>18, HangType DEF TypeOK, Release
  <2>19. ASSUME NEW w \in Writer, FaultStep(w) PROVE TypeOK'
    <3>0. ASSUME Fault PROVE faults' \in 0 .. MaxFaults
      BY <3>0 DEF Fault, TypeOK
    <3>1. CASE BodyFault(w)
      BY <3>0, <3>1, RaiseType DEF TypeOK, BodyFault, dirVars, argVars, Outcome
    <3>2. CASE EarlyFault(w)
      BY <3>0, <3>2, HangType DEF TypeOK, EarlyFault, dirVars, Outcome
    <3>3. CASE TornLock(w)
      BY <3>0, <3>3, RaiseType DEF TypeOK, TornLock, argVars, Outcome
    <3>4. CASE RestoreFault(w)
      BY <3>0, <3>4 DEF TypeOK, RestoreFault, Strand, argVars, Goto, Step, Finally
    <3>5. CASE StuckLock(w)
      BY <3>0, <3>5, HangType DEF TypeOK, StuckLock, Outcome
    <3>6. CASE Crash(w)
      BY <3>0, <3>6, HangType DEF TypeOK, Crash, Strand, Outcome
    <3> QED BY <2>19, <3>1, <3>2, <3>3, <3>4, <3>5, <3>6 DEF FaultStep
  <2> QED
    BY <2>1, <2>2, <2>3, <2>4, <2>5, <2>6, <2>7, <2>8, <2>9, <2>10, <2>11,
       <2>12, <2>13, <2>14, <2>15, <2>16, <2>17, <2>18, <2>19
    DEF Next, CallStep
<1> QED BY <1>1, <1>2, PTL DEF Spec

-----------------------------------------------------------------------------
(* Mutual exclusion.  A running call's lock file exists and holds either   *)
(* its token or, after a fault, nobody's; with OneHolder itself that is    *)
(* inductive, because a lock file is only taken when it is free.           *)

Guarded(w) == Running(w) => lock[guard[w]] \in {w, Stale}
HolderInv == TypeOK /\ OneHolder /\ \A w \in Writer : Guarded(w)

\* A step that leaves every lock file and guard alone and starts no running
\* call keeps the invariant.
LEMMA HolderKept ==
  ASSUME HolderInv, TypeOK', UNCHANGED <<lock, guard>>,
         \A v \in Writer : Running(v)' => Running(v)
  PROVE  HolderInv'
BY DEF HolderInv, OneHolder, Guarded

\* A call that ends, whatever it leaves in its own lock file, does not touch
\* the lock file of any running call.
LEMMA HolderEnds ==
  ASSUME HolderInv, TypeOK', NEW w \in Writer, Running(w), UNCHANGED guard,
         pc' = [pc EXCEPT ![w] = "idle"],
         NEW f, f \in {Free, Stale},
         lock' = [lock EXCEPT ![guard[w]] = IF @ = w THEN f ELSE @]
  PROVE  HolderInv'
<1>1. \A v \in Writer : Running(v)' => v # w /\ Running(v)
  BY DEF HolderInv, TypeOK, Running, Body, Finally
<1>2. \A v \in Writer : Running(v)' => lock'[guard'[v]] \in {v, Stale}
  BY <1>1 DEF HolderInv, TypeOK, OneHolder, Guarded
<1>3. OneHolder'
  BY <1>1 DEF HolderInv, OneHolder
<1> QED BY <1>2, <1>3 DEF HolderInv, Guarded

\* Two calls that use the same lock file are never both past it, whatever
\* dies and whatever lock files are left behind.
THEOREM MutualExclusion == Spec => []OneHolder
<1> USE RecordAssumption
<1>1. Init => HolderInv
  <2> SUFFICES ASSUME Init PROVE HolderInv
    OBVIOUS
  <2>1. TypeOK
    BY DEF Init, TypeOK, LockName, Step, Outcome
  <2>2. \A w \in Writer : ~Running(w)
    BY DEF Init, Running, Body, Finally
  <2> QED BY <2>1, <2>2 DEF HolderInv, OneHolder, Guarded
<1>2. HolderInv /\ TypeOK' /\ [Next]_vars => HolderInv'
  <2> SUFFICES ASSUME HolderInv, TypeOK', [Next]_vars PROVE HolderInv'
    OBVIOUS
  <2> USE DEF Running, Body, Finally
  <2>1. CASE UNCHANGED vars
    BY <2>1, HolderKept DEF vars
  <2>2. ASSUME NEW w \in Writer, Begin(w) PROVE HolderInv'
    <3>1. \A v \in Writer : Running(v)' => v # w /\ Running(v)
      BY <2>2 DEF HolderInv, TypeOK, Begin, Goto
    <3>2. \A v \in Writer : v # w => guard'[v] = guard[v]
      BY <2>2 DEF HolderInv, TypeOK, Begin
    <3>3. UNCHANGED lock
      BY <2>2 DEF Begin, dirVars
    <3> QED BY <3>1, <3>2, <3>3 DEF HolderInv, OneHolder, Guarded
  <2>3. ASSUME NEW w \in Writer, Precheck(w) PROVE HolderInv'
    BY <2>3, HolderKept DEF HolderInv, TypeOK, Precheck, Hang, Goto, dirVars, argVars
  <2>4. ASSUME NEW w \in Writer, Acquire(w) PROVE HolderInv'
    <3>1. CASE lock[guard[w]] = Free
      <4>1. UNCHANGED guard /\ lock' = [lock EXCEPT ![guard[w]] = w]
        BY <2>4, <3>1 DEF Acquire, argVars
      <4>2. \A v \in Writer : Running(v)' => v = w \/ Running(v)
        BY <2>4, <3>1 DEF HolderInv, TypeOK, Acquire, Goto
      <4>3. \A v \in Writer : Running(v) => guard[v] # guard[w]
        BY <3>1 DEF HolderInv, TypeOK, Guarded
      <4> QED BY <4>1, <4>2, <4>3 DEF HolderInv, TypeOK, OneHolder, Guarded
    <3>2. CASE lock[guard[w]] # Free
      BY <2>4, <3>2, HolderKept DEF HolderInv, TypeOK, Acquire, Hang, Goto
    <3> QED BY <3>1, <3>2
  <2>5. ASSUME NEW w \in Writer,
               \/ Recheck(w) \/ Stage(w) \/ Displace(w) \/ Inspect(w)
               \/ Install(w) \/ Unstage(w) \/ Verify(w) \/ Discard(w)
        PROVE  HolderInv'
    <3>1. pc[w] \in Body /\ \E p \in Step : pc' = [pc EXCEPT ![w] = p]
      BY <2>5 DEF Recheck, Stage, Displace, Inspect, Install, Unstage, Verify,
                  Discard, Raise, Return, Goto, Step
    <3>2. UNCHANGED <<lock, guard>>
      BY <2>5 DEF Recheck, Stage, Displace, Inspect, Install, Unstage, Verify,
                  Discard, dirVars, argVars
    <3> QED BY <3>1, <3>2, HolderKept DEF HolderInv, TypeOK
  <2>6. ASSUME NEW w \in Writer,
               \/ RestoreCheck(w) \/ Relink(w) \/ UnlinkMoved(w)
               \/ KeepMoved(w) \/ Sweep(w)
        PROVE  HolderInv'
    <3>1. pc[w] \in Finally /\ \E p \in Step : pc' = [pc EXCEPT ![w] = p]
      BY <2>6 DEF RestoreCheck, Relink, UnlinkMoved, KeepMoved, Sweep, Goto, Step
    <3>2. UNCHANGED <<lock, guard>>
      BY <2>6 DEF RestoreCheck, Relink, UnlinkMoved, KeepMoved, Sweep, dirVars, argVars
    <3> QED BY <3>1, <3>2, HolderKept DEF HolderInv, TypeOK
  <2>7. ASSUME NEW w \in Writer, Release(w) PROVE HolderInv'
    BY <2>7, HolderEnds DEF Release, Hang, Goto
  <2>8. ASSUME NEW w \in Writer, FaultStep(w) PROVE HolderInv'
    <3>1. CASE BodyFault(w)
      BY <3>1, HolderKept DEF HolderInv, TypeOK, BodyFault, Raise, Goto, dirVars, argVars
    <3>2. CASE EarlyFault(w)
      BY <3>2, HolderKept DEF HolderInv, TypeOK, EarlyFault, Hang, Goto, dirVars
    <3>3. CASE TornLock(w)
      <4>1. UNCHANGED guard /\ lock' = [lock EXCEPT ![guard[w]] = Stale]
        BY <3>3 DEF TornLock, argVars
      <4>2. \A v \in Writer : Running(v)' => v = w \/ Running(v)
        BY <3>3 DEF HolderInv, TypeOK, TornLock, Raise, Goto
      <4>3. \A v \in Writer : Running(v) => guard[v] # guard[w]
        BY <3>3 DEF HolderInv, TypeOK, Guarded, TornLock
      <4> QED BY <4>1, <4>2, <4>3 DEF HolderInv, TypeOK, OneHolder, Guarded
    <3>4. CASE RestoreFault(w)
      BY <3>4, HolderKept DEF HolderInv, TypeOK, RestoreFault, Goto, argVars
    <3>5. CASE StuckLock(w)
      BY <3>5, HolderEnds DEF StuckLock, Hang, Goto
    <3>6. CASE Crash(w)
      <4>1. \A v \in Writer : Running(v)' => v # w /\ Running(v)
        BY <3>6 DEF HolderInv, TypeOK, Crash, Hang, Goto
      <4>2. UNCHANGED guard /\ lock' = [l \in LockName |-> IF lock[l] = w THEN Stale ELSE lock[l]]
        BY <3>6 DEF Crash, Hang
      <4>3. \A v \in Writer : Running(v)' => lock'[guard'[v]] \in {v, Stale}
        BY <4>1, <4>2 DEF HolderInv, TypeOK, Guarded
      <4> QED BY <4>1, <4>2, <4>3 DEF HolderInv, OneHolder, Guarded
    <3> QED BY <2>8, <3>1, <3>2, <3>3, <3>4, <3>5, <3>6 DEF FaultStep
  <2> QED
    BY <2>1, <2>2, <2>3, <2>4, <2>5, <2>6, <2>7, <2>8 DEF Next, CallStep
<1>3. HolderInv => OneHolder
  BY DEF HolderInv
<1> QED BY <1>1, <1>2, <1>3, TypeCorrect, PTL DEF Spec

-----------------------------------------------------------------------------
(* Truthful answers.  Along a call, the step it is at tells whether it has *)
(* installed its bytes, and the outcome it carries agrees.                 *)

Before == {"precheck", "acquire", "recheck", "stage", "lastcheck", "displace", "inspect",
           "install", "restore", "relink", "unlink_moved", "keep_moved"}
After == {"unstage", "verify", "discard"}

Agrees(result, done) ==
  /\ result \in {"created", "updated", "durable"} => done
  /\ result \in {"conflict", "failed", "unchanged", "stale_lock"} => ~done

Told(w) ==
  /\ pc[w] \in Before => ~installed[w]
  /\ pc[w] \in After => installed[w]
  /\ pc[w] \in Finally => Agrees(outcome[w], installed[w])

ToldInv == TypeOK /\ \A w \in Writer : Told(w)

\* What a call carries to its end when an exception leaves the try block.
LEMMA RaiseAgrees ==
  ASSUME TypeOK, NEW w \in Writer, NEW error \in {"conflict", "failed", "interrupted"},
         Raise(w, error), installed' = installed
  PROVE  Told(w)'
<1>1. /\ pc'[w] = IF moved[w] # Absent /\ ~installed[w] THEN "restore" ELSE "sweep"
      /\ outcome'[w] = IF installed[w] /\ error # "interrupted" THEN "durable" ELSE error
  BY DEF TypeOK, Raise, Goto
<1> QED BY <1>1 DEF Told, Agrees, Before, After, Finally

\* A step of a call keeps what it may be told; the end of a call tells the truth.
LEMMA CallTold ==
  ASSUME ToldInv, NEW w \in Writer, Begin(w) \/ CallStep(w) \/ FaultStep(w)
  PROVE  /\ Told(w)'
         /\ pc[w] # "idle" /\ pc'[w] = "idle" => Agrees(outcome'[w], installed[w])
<1> USE DEF Before, After, Finally
<1>1. TypeOK /\ Told(w)
  BY DEF ToldInv
<1>2. CASE Begin(w) \/ Stage(w) \/ Unstage(w) \/ RestoreCheck(w) \/ Relink(w) \/ UnlinkMoved(w)
           \/ KeepMoved(w) \/ Sweep(w) \/ RestoreFault(w)
  BY <1>1, <1>2 DEF Begin, Stage, Unstage, RestoreCheck, Relink, UnlinkMoved, KeepMoved, Sweep,
     RestoreFault, Goto, argVars, dirVars, TypeOK, Told, Agrees
<1>3. CASE Precheck(w) \/ Acquire(w) \/ EarlyFault(w)
  BY <1>1, <1>3 DEF Precheck, Acquire, EarlyFault, Hang, Goto, argVars, TypeOK, Told, Agrees
<1>4. CASE Recheck(w) \/ Displace(w) \/ Inspect(w) \/ Verify(w) \/ BodyFault(w) \/ TornLock(w)
  <2>1. installed' = installed /\ pc[w] # "idle"
    BY <1>4 DEF Recheck, Displace, Inspect, Verify, BodyFault, TornLock, Body
  <2>2. CASE \E error \in {"conflict", "failed", "interrupted"} : Raise(w, error)
    <3>1. pc'[w] # "idle"
      BY <1>1, <2>2 DEF Raise, Goto, TypeOK
    <3> QED BY <1>1, <2>1, <2>2, <3>1, RaiseAgrees
  <2>3. CASE \A error \in {"conflict", "failed", "interrupted"} : ~Raise(w, error)
    <3>1. CASE Recheck(w)
      BY <1>1, <2>1, <2>3, <3>1 DEF Recheck, Return, Goto, TypeOK, Told, Agrees
    <3>2. CASE Displace(w) \/ Inspect(w)
      BY <1>1, <2>1, <2>3, <3>2 DEF Displace, Inspect, Goto, TypeOK, Told, Agrees
    <3>3. CASE Verify(w)
      BY <1>1, <2>1, <2>3, <3>3 DEF Verify, Return, Goto, TypeOK, Told, Agrees
    <3>4. CASE BodyFault(w) \/ TornLock(w)
      BY <2>3, <3>4 DEF BodyFault, TornLock
    <3> QED BY <1>4, <3>1, <3>2, <3>3, <3>4
  <2> QED BY <2>2, <2>3
<1>5. CASE Install(w)
  <2>1. CASE target = Absent
    BY <1>1, <1>5, <2>1 DEF Install, Goto, TypeOK, Told, Agrees
  <2>2. CASE target # Absent
    <3>1. Raise(w, "conflict") /\ installed' = installed
      BY <1>5, <2>2 DEF Install
    <3>2. pc'[w] # "idle"
      BY <1>1, <3>1 DEF Raise, Goto, TypeOK
    <3> QED BY <1>1, <3>1, <3>2, RaiseAgrees
  <2> QED BY <2>1, <2>2
<1>6. CASE Discard(w)
  BY <1>1, <1>6 DEF Discard, Return, Goto, argVars, TypeOK, Told, Agrees
<1>7. CASE Release(w) \/ StuckLock(w)
  BY <1>1, <1>7 DEF Release, StuckLock, Hang, Goto, TypeOK, Told, Agrees
<1>8. CASE Crash(w)
  BY <1>1, <1>8 DEF Crash, Hang, Goto, TypeOK, Told, Agrees
<1> QED
  BY <1>2, <1>3, <1>4, <1>5, <1>6, <1>7, <1>8 DEF CallStep, FaultStep

\* A step of one call changes nothing that another is told from.
LEMMA OthersTold ==
  ASSUME ToldInv, NEW w \in Writer, Begin(w) \/ CallStep(w) \/ FaultStep(w),
         NEW v \in Writer \ {w}
  PROVE  pc'[v] = pc[v] /\ installed'[v] = installed[v] /\ outcome'[v] = outcome[v]
<1>1. TypeOK
  BY DEF ToldInv
<1> USE <1>1 DEF TypeOK, Goto, Hang, Raise, Return
<1>2. CASE Begin(w)
  BY <1>2 DEF Begin
<1>3. CASE CallStep(w)
  BY <1>3 DEF CallStep, Precheck, Acquire, Recheck, Stage, Displace, Inspect, Install, Unstage,
     Verify, Discard, RestoreCheck, Relink, UnlinkMoved, KeepMoved, Sweep, Release
<1>4. CASE FaultStep(w)
  BY <1>4 DEF FaultStep, BodyFault, EarlyFault, TornLock, RestoreFault, StuckLock, Crash
<1> QED BY <1>2, <1>3, <1>4

\* A caller told "created", "updated" or of a durability error has installed
\* its bytes; one told of a conflict, a failure, an unchanged record or a stale
\* lock has installed nothing and may load and try again.
THEOREM AnswersAreTruthful == Spec => TruthfulAnswer
<1> DEFINE Ends(w) == pc[w] # "idle" /\ pc'[w] = "idle" => Agrees(outcome'[w], installed[w])
<1>1. Init /\ TypeOK => ToldInv
  BY DEF Init, ToldInv, Told, Before, After, Finally
<1>2. ToldInv /\ TypeOK' /\ [Next]_vars => ToldInv'
  <2> SUFFICES ASSUME ToldInv, TypeOK', [Next]_vars PROVE ToldInv'
    OBVIOUS
  <2>1. ASSUME NEW w \in Writer, Begin(w) \/ CallStep(w) \/ FaultStep(w), NEW v \in Writer
        PROVE  Told(v)'
    <3>1. CASE v = w
      BY <2>1, <3>1, CallTold
    <3>2. CASE v # w
      BY <2>1, <3>2, OthersTold DEF ToldInv, Told
    <3> QED BY <3>1, <3>2
  <2>2. CASE UNCHANGED vars
    BY <2>2 DEF vars, ToldInv, Told
  <2> QED BY <2>1, <2>2 DEF Next, ToldInv
<1>3. ToldInv /\ [Next]_vars =>
        [\A w \in Writer : pc[w] # "idle" /\ pc'[w] = "idle" =>
           /\ outcome'[w] \in {"created", "updated", "durable"} => installed[w]
           /\ outcome'[w] \in {"conflict", "failed", "unchanged", "stale_lock"} => ~installed[w]]_vars
  <2> SUFFICES ASSUME ToldInv, Next, NEW v \in Writer PROVE Ends(v)
    BY DEF Agrees
  <2>1. PICK w \in Writer : Begin(w) \/ CallStep(w) \/ FaultStep(w)
    BY DEF Next
  <2>2. CASE v = w
    BY <2>1, <2>2, CallTold
  <2>3. CASE v # w
    BY <2>1, <2>3, OthersTold
  <2> QED BY <2>2, <2>3
<1> QED BY <1>1, <1>2, <1>3, TypeCorrect, PTL DEF Spec, TruthfulAnswer

-----------------------------------------------------------------------------
(* Updates of an existing record are those of the compare-and-swap         *)
(* register.  Two facts carry the proof: at most one call is between       *)
(* os.replace and os.link, and only while the record's path is free        *)
(* (Window); and a call that goes on to install has displaced exactly the  *)
(* revision it was given (Updates).                                        *)

\* The steps at which a call may have a displaced file.
Holding == {"inspect", "install", "unstage", "verify", "discard", "restore", "relink",
            "unlink_moved", "sweep"}

\* What holds along a call while nobody creates the record.
Updates(w) ==
  /\ pc[w] = "idle" => seen[w] = Absent /\ new[w] = Absent
  /\ pc[w] # "idle" => seen[w] \in Content /\ new[w] \in Content
  /\ moved[w] # Absent => pc[w] \in Holding
  /\ pc[w] \in {"inspect", "install", "restore", "relink", "unlink_moved"} => moved[w] # Absent
  /\ pc[w] = "install" => moved[w] = seen[w] /\ known[w]
  /\ installed[w] => known[w]
  /\ pc[w] = "sweep" /\ moved[w] # Absent => installed[w]
  /\ pc[w] # "keep_moved"
  /\ pc[w] \in Finally => outcome[w] \in Register!Reply \ {"stale_lock"}
  /\ pc[w] \in Finally /\ outcome[w] = "unchanged" => new[w] = seen[w]

Window ==
  \A w \in Writer : InWindow(w) => target = Absent /\ \A v \in Writer : InWindow(v) => v = w

UpdateInv == ToldInv /\ Window /\ \A w \in Writer : Updates(w)

\* One call's step, where every caller was given a revision.
UpdateStep(w) == (Begin(w) /\ target # Absent) \/ CallStep(w) \/ FaultStep(w)

\* A step of one call leaves every other call as it is.
Apart(w) ==
  \A v \in Writer \ {w} :
    /\ pc'[v] = pc[v] /\ installed'[v] = installed[v] /\ outcome'[v] = outcome[v]
    /\ moved'[v] = moved[v] /\ seen'[v] = seen[v] /\ new'[v] = new[v] /\ known'[v] = known[v]

LEMMA StepsApart ==
  ASSUME TypeOK, NEW w \in Writer, UpdateStep(w)
  PROVE  Apart(w)
<1> USE DEF TypeOK, Goto, Hang, Raise, Return, Apart, dirVars, argVars
<1>1. CASE Begin(w)
  BY <1>1 DEF Begin
<1>2. CASE CallStep(w)
  <2>1. CASE Precheck(w) \/ Acquire(w) \/ Recheck(w) \/ Stage(w)
    BY <2>1 DEF Precheck, Acquire, Recheck, Stage
  <2>2. CASE Displace(w) \/ Inspect(w) \/ Install(w) \/ Unstage(w)
    BY <2>2 DEF Displace, Inspect, Install, Unstage
  <2>3. CASE Verify(w) \/ Discard(w) \/ RestoreCheck(w) \/ Relink(w)
    BY <2>3 DEF Verify, Discard, RestoreCheck, Relink
  <2>4. CASE UnlinkMoved(w) \/ KeepMoved(w) \/ Sweep(w) \/ Release(w)
    BY <2>4 DEF UnlinkMoved, KeepMoved, Strand, Sweep, Release
  <2> QED BY <1>2, <2>1, <2>2, <2>3, <2>4 DEF CallStep
<1>3. CASE FaultStep(w)
  <2>1. CASE BodyFault(w) \/ EarlyFault(w) \/ TornLock(w)
    BY <2>1 DEF BodyFault, EarlyFault, TornLock
  <2>2. CASE RestoreFault(w) \/ StuckLock(w) \/ Crash(w)
    BY <2>2 DEF RestoreFault, StuckLock, Crash, Strand
  <2> QED BY <1>3, <2>1, <2>2 DEF FaultStep
<1> QED BY <1>1, <1>2, <1>3 DEF UpdateStep

\* An exception leaves the try block of an update.
LEMMA RaiseUpdates ==
  ASSUME TypeOK, NEW w \in Writer, NEW error \in {"conflict", "failed", "interrupted"},
         Raise(w, error), Updates(w), pc[w] \in Body \cup {"acquire"},
         UNCHANGED <<seen, new, moved, known, installed>>
  PROVE  Updates(w)'
<1> DEFINE back == moved[w] # Absent /\ ~installed[w]
<1>1. /\ pc'[w] = IF back THEN "restore" ELSE "sweep"
      /\ outcome'[w] = IF installed[w] /\ error # "interrupted" THEN "durable" ELSE error
  BY DEF Raise, Goto, TypeOK
<1>2. outcome'[w] \in {"conflict", "failed", "interrupted", "durable"}
  BY <1>1
<1>3. outcome'[w] \in Register!Reply \ {"stale_lock"} /\ outcome'[w] # "unchanged"
  BY <1>2 DEF Register!Reply, Register!Success, Register!Refusal, Register!NoInstall
<1>4. seen[w] \in Content /\ new[w] \in Content
  BY DEF Updates, Body
<1> QED BY <1>1, <1>3, <1>4 DEF Updates, Body, Finally, Holding

\* A call that ends keeps nothing.
LEMMA HangUpdates ==
  ASSUME TypeOK, NEW w \in Writer, Hang(w), moved'[w] = Absent
  PROVE  Updates(w)'
<1>1. pc'[w] = "idle" /\ seen'[w] = Absent /\ new'[w] = Absent /\ ~installed'[w]
  BY DEF Hang, Goto, TypeOK
<1> QED BY <1>1 DEF Updates, Finally, Holding

\* Each step of a call keeps what holds along it.
LEMMA StepUpdates ==
  ASSUME UpdateInv, NEW w \in Writer, UpdateStep(w)
  PROVE  Updates(w)'
<1>0. TypeOK /\ Told(w) /\ Updates(w)
  BY DEF UpdateInv, ToldInv
<1> USE <1>0, RecordAssumption
<1>1. CASE Begin(w) /\ target # Absent
  BY <1>1 DEF Begin, Goto, dirVars, TypeOK, Updates, Holding, Finally
<1>2. CASE Precheck(w)
  <2>1. moved[w] = Absent /\ moved' = moved
    BY <1>2 DEF Precheck, dirVars, Updates, Holding
  <2>2. CASE target = seen[w]
    BY <1>2, <2>1, <2>2 DEF Precheck, Goto, argVars, TypeOK, Updates, Holding, Finally
  <2>3. CASE target # seen[w]
    BY <1>2, <2>1, <2>3, HangUpdates DEF Precheck
  <2> QED BY <2>2, <2>3
<1>3. CASE Acquire(w)
  <2>1. moved[w] = Absent /\ moved' = moved
    BY <1>3 DEF Acquire, Updates, Holding
  <2>2. CASE lock[guard[w]] = Free
    BY <1>3, <2>1, <2>2 DEF Acquire, Goto, argVars, TypeOK, Updates, Holding, Finally
  <2>3. CASE lock[guard[w]] # Free
    BY <1>3, <2>1, <2>3, HangUpdates DEF Acquire
  <2> QED BY <2>2, <2>3
<1>4. CASE Recheck(w)
  <2>0. pc[w] \in Body /\ UNCHANGED <<seen, new, moved, known, installed>> /\ moved[w] = Absent
    BY <1>4 DEF Recheck, Body, dirVars, argVars, Updates, Holding
  <2>1. CASE Raise(w, "conflict")
    BY <2>0, <2>1, RaiseUpdates
  <2>2. CASE pc[w] = "recheck" /\ new[w] = seen[w] /\ Return(w, "unchanged")
    <3>1. pc'[w] = "release" /\ outcome'[w] = "unchanged"
      BY <2>2 DEF Return, Goto, TypeOK
    <3> QED
      BY <2>0, <2>2, <3>1
      DEF Updates, Holding, Finally, Register!Reply, Register!NoInstall
  <2>3. CASE \E step \in {"stage", "install", "displace"} :
               Goto(w, step) /\ (step = "install" => Creating(w))
    <3>1. seen[w] # Absent
      BY <2>0 DEF Updates, Body
    <3>2. pc'[w] \in {"stage", "displace"}
      BY <2>3, <3>1 DEF Goto, TypeOK, Creating
    <3> QED BY <2>0, <3>2 DEF Updates, Body, Holding, Finally
  <2> QED BY <1>4, <2>1, <2>2, <2>3 DEF Recheck
<1>5. CASE Stage(w) \/ Unstage(w)
  BY <1>5 DEF Stage, Unstage, Goto, argVars, TypeOK, Updates, Holding, Finally
<1>6. CASE Displace(w)
  <2>1. CASE target # Absent
    BY <1>6, <2>1 DEF Displace, Goto, argVars, TypeOK, Updates, Holding, Finally
  <2>2. CASE target = Absent
    BY <1>6, <2>2, RaiseUpdates DEF Displace, Body, argVars
  <2> QED BY <2>1, <2>2
<1>7. CASE Inspect(w)
  <2>1. CASE moved[w] = seen[w]
    BY <1>7, <2>1 DEF Inspect, Goto, dirVars, argVars, TypeOK, Updates, Holding, Finally
  <2>2. CASE moved[w] # seen[w]
    BY <1>7, <2>2, RaiseUpdates DEF Inspect, Body, dirVars, argVars
  <2> QED BY <2>1, <2>2
<1>8. CASE Install(w)
  <2>1. CASE target = Absent
    BY <1>8, <2>1 DEF Install, Goto, argVars, TypeOK, Updates, Holding, Finally
  <2>2. CASE target # Absent
    BY <1>8, <2>2, RaiseUpdates DEF Install, Body, argVars
  <2> QED BY <2>1, <2>2
<1>9. CASE Verify(w)
  <2>0. pc[w] \in Body /\ UNCHANGED <<seen, new, moved, known, installed>> /\ pc[w] = "verify"
    BY <1>9 DEF Verify, Body, dirVars, argVars
  <2>1. CASE Raise(w, "conflict")
    BY <2>0, <2>1, RaiseUpdates
  <2>2. CASE Goto(w, "discard")
    BY <2>0, <2>2 DEF Goto, TypeOK, Updates, Holding, Finally
  <2>3. ~Creating(w)
    BY <2>0 DEF Updates, Creating
  <2> QED BY <1>9, <2>1, <2>2, <2>3 DEF Verify
<1>10. CASE Discard(w)
  <2>1. /\ pc'[w] = "release" /\ outcome'[w] = "updated" /\ moved'[w] = Absent
        /\ UNCHANGED <<seen, new, known, installed>> /\ pc[w] = "discard"
    BY <1>10 DEF Discard, Return, Goto, argVars, TypeOK
  <2> QED BY <2>1 DEF Updates, Holding, Finally, Register!Reply, Register!Success
<1>11. CASE RestoreCheck(w) \/ Relink(w)
  <2>1. target = Absent
    BY <1>11 DEF RestoreCheck, Relink, UpdateInv, Window, InWindow, Updates
  <2> QED
    BY <1>11, <2>1
    DEF RestoreCheck, Relink, Goto, dirVars, argVars, TypeOK, Updates, Holding, Finally
<1>12. CASE UnlinkMoved(w) \/ KeepMoved(w) \/ Sweep(w) \/ RestoreFault(w)
  BY <1>12
  DEF UnlinkMoved, KeepMoved, Sweep, RestoreFault, Strand, Goto, argVars, TypeOK, Updates,
      Holding, Finally
<1>13. CASE Release(w) \/ StuckLock(w) \/ EarlyFault(w)
  <2>1. moved' = moved /\ moved[w] = Absent
    BY <1>13 DEF Release, StuckLock, EarlyFault, dirVars, Updates, Holding
  <2> QED BY <1>13, <2>1, HangUpdates DEF Release, StuckLock, EarlyFault
<1>14. CASE BodyFault(w) \/ TornLock(w)
  BY <1>14, RaiseUpdates DEF BodyFault, TornLock, dirVars, argVars
<1>15. CASE Crash(w)
  BY <1>15, HangUpdates DEF Crash, Strand, TypeOK
<1> QED
  BY <1>1, <1>2, <1>3, <1>4, <1>5, <1>6, <1>7, <1>8, <1>9, <1>10, <1>11, <1>12, <1>13, <1>14,
     <1>15
  DEF UpdateStep, CallStep, FaultStep

\* What Window makes of the refinement mapping: the revision callers call
\* current is the displaced one while a call is in its window, else the file.
LEMMA CurrentInWindow ==
  ASSUME Window, NEW w \in Writer, InWindow(w)
  PROVE  Current = moved[w]
BY DEF Window, Current

LEMMA CurrentAtRest ==
  ASSUME \A w \in Writer : ~InWindow(w)
  PROVE  Current = target
BY DEF Current

\* A step after which the same calls are in their window, with what they
\* displaced, and the file is what it was, shows callers no other revision.
LEMMA QuietStep ==
  ASSUME Window, target' = target, NEW w \in Writer, Apart(w),
         InWindow(w)' <=> InWindow(w), InWindow(w) => moved'[w] = moved[w]
  PROVE  Window' /\ Current' = Current
<1>1. ASSUME NEW v \in Writer
      PROVE  (InWindow(v)' <=> InWindow(v)) /\ (InWindow(v) => moved'[v] = moved[v])
  <2>1. CASE v = w
    BY <2>1
  <2>2. CASE v # w
    BY <2>2 DEF Apart, InWindow
  <2> QED BY <2>1, <2>2
<1>2. Window'
  BY <1>1 DEF Window
<1>3. CASE \E v \in Writer : InWindow(v)
  <2>1. PICK v \in Writer : InWindow(v)
    BY <1>3
  <2>2. Current = moved[v] /\ InWindow(v)' /\ moved'[v] = moved[v]
    BY <1>1, <2>1, CurrentInWindow
  <2>3. Current' = moved'[v]
    BY <1>2, <2>2 DEF Window, Current
  <2> QED BY <1>2, <2>2, <2>3
<1>4. CASE \A v \in Writer : ~InWindow(v)
  BY <1>1, <1>2, <1>4 DEF Current
<1> QED BY <1>2, <1>3, <1>4

\* Most steps are quiet: they neither open nor close the call's window.
Quiet(w) ==
  /\ target' = target
  /\ InWindow(w)' <=> InWindow(w)
  /\ InWindow(w) => moved'[w] = moved[w]

\* An exception in the try block takes a call that is in its window to the
\* restoration, still in its window, and any other to the clean-up.
LEMMA RaiseQuiet ==
  ASSUME TypeOK, NEW w \in Writer, NEW error, Raise(w, error), Told(w), Updates(w),
         pc[w] \in Body \cup {"acquire"}, moved' = moved, target' = target
  PROVE  Quiet(w)
<1>1. pc'[w] = IF moved[w] # Absent /\ ~installed[w] THEN "restore" ELSE "sweep"
  BY DEF Raise, Goto, TypeOK
<1> QED BY <1>1 DEF Quiet, InWindow, Told, Updates, Body, Holding, Before, After

LEMMA CallQuiet ==
  ASSUME UpdateInv, NEW w \in Writer,
         \/ Begin(w) \/ Precheck(w) \/ Acquire(w) \/ Recheck(w) \/ Stage(w) \/ Inspect(w)
         \/ Unstage(w) \/ Verify(w) \/ Discard(w) \/ RestoreCheck(w) \/ UnlinkMoved(w)
         \/ Sweep(w) \/ Release(w) \/ BodyFault(w) \/ EarlyFault(w) \/ TornLock(w)
         \/ StuckLock(w)
  PROVE  Quiet(w)
<1>0. TypeOK /\ Told(w) /\ Updates(w)
  BY DEF UpdateInv, ToldInv
<1> USE <1>0
<1>1. CASE Begin(w) \/ Stage(w) \/ Unstage(w) \/ Discard(w) \/ UnlinkMoved(w) \/ Sweep(w)
  BY <1>1
  DEF Begin, Stage, Unstage, Discard, UnlinkMoved, Sweep, Return, Goto, dirVars, TypeOK, Quiet,
      InWindow
<1>2. CASE Precheck(w) \/ Acquire(w) \/ Release(w) \/ EarlyFault(w) \/ StuckLock(w)
  BY <1>2
  DEF Precheck, Acquire, Release, EarlyFault, StuckLock, Hang, Goto, dirVars, TypeOK, Quiet,
      InWindow
<1>3. CASE RestoreCheck(w)
  <2>1. target = Absent /\ moved[w] # Absent
    BY <1>3 DEF RestoreCheck, UpdateInv, Window, InWindow, Updates
  <2> QED BY <1>3, <2>1 DEF RestoreCheck, Goto, dirVars, TypeOK, Quiet, InWindow
<1>4. CASE Recheck(w) \/ Inspect(w) \/ Verify(w) \/ BodyFault(w) \/ TornLock(w)
  <2>1. pc[w] \in Body \cup {"acquire"} /\ moved' = moved /\ target' = target
    BY <1>4 DEF Recheck, Inspect, Verify, BodyFault, TornLock, Body, dirVars
  <2>2. CASE \E error \in {"conflict", "failed", "interrupted"} : Raise(w, error)
    BY <2>1, <2>2, RaiseQuiet
  <2>3. CASE \A error \in {"conflict", "failed", "interrupted"} : ~Raise(w, error)
    <3>1. CASE Recheck(w)
      <4>1. moved[w] = Absent
        BY <3>1 DEF Recheck, Updates, Holding
      <4> QED BY <2>1, <4>1 DEF Quiet, InWindow
    <3>2. CASE Inspect(w)
      BY <2>1, <2>3, <3>2 DEF Inspect, Goto, TypeOK, Quiet, InWindow
    <3>3. CASE Verify(w)
      BY <2>1, <2>3, <3>3 DEF Verify, Return, Goto, TypeOK, Quiet, InWindow
    <3>4. CASE BodyFault(w) \/ TornLock(w)
      BY <2>3, <3>4 DEF BodyFault, TornLock
    <3> QED BY <1>4, <3>1, <3>2, <3>3, <3>4
  <2> QED BY <2>2, <2>3
<1> QED BY <1>1, <1>2, <1>3, <1>4

\* The three steps at which the record's file moves: a displacement opens the
\* call's window, an installation and a restoration close it.
LEMMA DisplaceWindow ==
  ASSUME UpdateInv, NEW w \in Writer, Displace(w), Apart(w)
  PROVE  Window' /\ Current' = Current
<1>0. TypeOK /\ Told(w) /\ Updates(w)
  BY DEF UpdateInv, ToldInv
<1>1. CASE target = Absent
  <2>1. Quiet(w)
    BY <1>0, <1>1, RaiseQuiet DEF Displace, Body
  <2> QED BY <2>1, QuietStep DEF Quiet, UpdateInv
<1>2. CASE target # Absent
  <2>1. \A v \in Writer : ~InWindow(v)
    BY <1>2 DEF UpdateInv, Window
  <2>2. target' = Absent /\ moved'[w] = target /\ InWindow(w)'
    BY <1>0, <1>2 DEF Displace, Goto, TypeOK, InWindow
  <2>3. \A v \in Writer : InWindow(v)' => v = w
    BY <2>1 DEF Apart, InWindow
  <2>4. Window'
    BY <2>2, <2>3 DEF Window
  <2>5. Current' = moved'[w]
    BY <2>2, <2>4 DEF Window, Current
  <2> QED BY <2>1, <2>2, <2>4, <2>5, CurrentAtRest
<1> QED BY <1>1, <1>2

\* A call leaves its window, whatever is in the directory afterwards.
LEMMA WindowCloses ==
  ASSUME UpdateInv, NEW w \in Writer, InWindow(w), Apart(w), ~InWindow(w)'
  PROVE  Window' /\ Current' = target'
<1>1. \A v \in Writer : ~InWindow(v)'
  BY DEF UpdateInv, Window, Apart, InWindow
<1> QED BY <1>1 DEF Window, Current

\* The register's view of a call: nothing but its own step changes it.
LEMMA RegisterApart ==
  ASSUME TypeOK, TypeOK', NEW w \in Writer, Apart(w)
  PROVE  /\ seen' = [seen EXCEPT ![w] = seen'[w]]
         /\ new' = [new EXCEPT ![w] = new'[w]]
         /\ \A v \in Writer \ {w} :
              pc'[v] = pc[v] /\ installed'[v] = installed[v] /\ outcome'[v] = outcome[v]
BY DEF Apart, TypeOK

\* A call that goes on, or is not there, and changes nothing callers can tell.
LEMMA Unseen ==
  ASSUME TypeOK, TypeOK', NEW w \in Writer, Apart(w), UNCHANGED <<strays, seen, new>>,
         Current' = Current, pc[w] # "idle", pc'[w] # "idle", installed'[w] = installed[w]
  PROVE  UNCHANGED (Register!regVars)
<1>1. \A v \in Writer : /\ (pc'[v] = "idle") <=> (pc[v] = "idle")
                        /\ installed'[v] = installed[v]
                        /\ pc[v] = "idle" => outcome'[v] = outcome[v]
  BY DEF Apart
<1>2. [v \in Writer |-> IF pc[v] = "idle" THEN "none"
                        ELSE IF installed[v] THEN "applied" ELSE "open"]'
        = [v \in Writer |-> IF pc[v] = "idle" THEN "none"
                            ELSE IF installed[v] THEN "applied" ELSE "open"]
  BY <1>1
<1>3. [v \in Writer |-> IF pc[v] = "idle" THEN outcome[v] ELSE "none"]'
        = [v \in Writer |-> IF pc[v] = "idle" THEN outcome[v] ELSE "none"]
  BY <1>1
<1> QED BY <1>2, <1>3 DEF Register!regVars

\* A call that ends with an answer the register may give.
LEMMA Answers ==
  ASSUME UpdateInv, TypeOK', NEW w \in Writer, Apart(w), pc[w] # "idle", Hang(w), Quiet(w),
         strays' = strays, outcome'[w] \in Register!Reply, Agrees(outcome'[w], installed[w]),
         outcome'[w] \in Register!NoInstall => seen[w] = new[w]
  PROVE  Register!Answer(w)
<1>1. TypeOK
  BY DEF UpdateInv, ToldInv
<1>2. Current' = Current
  BY QuietStep DEF Quiet, UpdateInv
<1>3. pc'[w] = "idle" /\ seen' = [seen EXCEPT ![w] = Absent] /\ new' = [new EXCEPT ![w] = Absent]
  BY <1>1 DEF Hang, Goto, TypeOK
<1> DEFINE stage == [v \in Writer |-> IF pc[v] = "idle" THEN "none"
                                      ELSE IF installed[v] THEN "applied" ELSE "open"]
           reply == [v \in Writer |-> IF pc[v] = "idle" THEN outcome[v] ELSE "none"]
<1>4. stage' = [stage EXCEPT ![w] = "none"]
  BY <1>3 DEF Apart
<1>5. reply' = [reply EXCEPT ![w] = outcome'[w]]
  BY <1>3 DEF Apart
<1>6. stage[w] # "none"
  OBVIOUS
<1>7. /\ outcome'[w] \in Register!Success \cup {"durable"} => stage[w] = "applied"
      /\ outcome'[w] \in Register!Refusal => stage[w] = "open"
      /\ outcome'[w] \in Register!NoInstall => stage[w] = "open" /\ seen[w] = new[w]
  BY DEF Agrees, Register!Success, Register!Refusal, Register!NoInstall
<1> QED
  BY <1>2, <1>3, <1>4, <1>5, <1>6, <1>7 DEF Register!Answer, Register!Hang

\* A call that dies, having left what it displaced in the directory or having
\* displaced nothing.
LEMMA Dies ==
  ASSUME UpdateInv, TypeOK', NEW w \in Writer, Apart(w), Crash(w)
  PROVE  Register!Die(w) /\ Window'
<1>1. TypeOK /\ Updates(w)
  BY DEF UpdateInv, ToldInv
<1>2. /\ pc[w] # "idle" /\ pc'[w] = "idle" /\ target' = target /\ outcome'[w] = "none"
      /\ seen' = [seen EXCEPT ![w] = Absent] /\ new' = [new EXCEPT ![w] = Absent]
      /\ strays' = strays \cup ({moved[w]} \ {Absent})
  BY <1>1 DEF Crash, Strand, Hang, Goto, TypeOK
<1> DEFINE stage == [v \in Writer |-> IF pc[v] = "idle" THEN "none"
                                      ELSE IF installed[v] THEN "applied" ELSE "open"]
           reply == [v \in Writer |-> IF pc[v] = "idle" THEN outcome[v] ELSE "none"]
<1>3. stage' = [stage EXCEPT ![w] = "none"] /\ stage[w] # "none"
  BY <1>2 DEF Apart
<1>4. reply' = reply
  BY <1>2 DEF Apart
<1>5. /\ Window'
      /\ Register!Leave \/ UNCHANGED <<Current, strays>>
  <2>1. CASE InWindow(w)
    <3>1. Window' /\ Current' = target'
      BY <1>2, <2>1, WindowCloses DEF InWindow
    <3>2. Current' = Absent /\ Current = moved[w]
      BY <1>2, <2>1, <3>1, CurrentInWindow DEF UpdateInv, Window
    <3>3. moved[w] \in Content /\ strays' = strays \cup {moved[w]}
      BY <1>1, <1>2, <2>1 DEF TypeOK, InWindow
    <3> QED BY <3>1, <3>2, <3>3 DEF Register!Leave
  <2>2. CASE ~InWindow(w)
    <3>1. Window' /\ Current' = Current
      BY <1>2, <2>2, QuietStep DEF InWindow, UpdateInv
    <3>2. CASE moved[w] = Absent
      BY <1>2, <3>1, <3>2
    <3>3. CASE moved[w] # Absent
      <4>1. moved[w] \in Content /\ strays' = strays \cup {moved[w]}
        BY <1>1, <1>2, <3>3 DEF TypeOK
      <4> QED BY <3>1, <4>1 DEF Register!Leave
    <3> QED BY <3>2, <3>3
  <2> QED BY <2>1, <2>2
<1> QED BY <1>2, <1>3, <1>4, <1>5 DEF Register!Die, Register!Hang

\* Every step of a call is a step of the register or none of it.
LEMMA StepIsRegisterStep ==
  ASSUME UpdateInv, TypeOK', NEW w \in Writer, UpdateStep(w)
  PROVE  Window' /\ (Register!Next \/ UNCHANGED (Register!regVars))
<1>0. TypeOK /\ Told(w) /\ Updates(w) /\ Window
  BY DEF UpdateInv, ToldInv
<1>1. Apart(w)
  BY <1>0, StepsApart
<1> USE <1>0, <1>1
<1> DEFINE stage == [v \in Writer |-> IF pc[v] = "idle" THEN "none"
                                      ELSE IF installed[v] THEN "applied" ELSE "open"]
           reply == [v \in Writer |-> IF pc[v] = "idle" THEN outcome[v] ELSE "none"]
\* The call: it is given the revision that is current.
<1>2. CASE Begin(w) /\ target # Absent
  <2>1. Window' /\ Current' = Current /\ Current = target
    BY <1>2, CallQuiet, QuietStep DEF Quiet, Current
  <2>2. /\ pc[w] = "idle" /\ pc'[w] = "precheck" /\ ~installed'[w] /\ outcome'[w] = "none"
        /\ seen' = [seen EXCEPT ![w] = target] /\ strays' = strays
        /\ \E c \in Content : new' = [new EXCEPT ![w] = c]
    BY <1>2 DEF Begin, Goto, dirVars, TypeOK
  <2>3. stage[w] = "none" /\ stage' = [stage EXCEPT ![w] = "open"]
    BY <2>2 DEF Apart
  <2>4. reply' = [reply EXCEPT ![w] = "none"]
    BY <2>2 DEF Apart
  <2>5. Register!Call(w)
    BY <2>1, <2>2, <2>3, <2>4 DEF Register!Call
  <2> QED BY <2>1, <2>5 DEF Register!Next
\* Steps that callers cannot tell: the call goes on and nothing is installed.
<1>3. CASE \/ Stage(w) \/ Inspect(w) \/ Unstage(w) \/ Verify(w) \/ Discard(w)
           \/ RestoreCheck(w) \/ UnlinkMoved(w) \/ Sweep(w) \/ BodyFault(w) \/ TornLock(w)
           \/ Recheck(w) \/ (Precheck(w) /\ target = seen[w])
           \/ (Acquire(w) /\ lock[guard[w]] = Free)
  <2>1. Window' /\ Current' = Current
    BY <1>3, CallQuiet, QuietStep DEF Quiet
  <2>2. UNCHANGED <<strays, seen, new, installed>>
    BY <1>3
    DEF Precheck, Acquire, Recheck, Stage, Inspect, Unstage, Verify, Discard, RestoreCheck,
        UnlinkMoved, Sweep, BodyFault, TornLock, dirVars, argVars
  <2>3. pc[w] # "idle"
    BY <1>3
    DEF Precheck, Acquire, Recheck, Stage, Inspect, Unstage, Verify, Discard, RestoreCheck,
        UnlinkMoved, Sweep, BodyFault, TornLock, Body
  <2>4. pc'[w] # "idle"
    <3>1. CASE \E error : Raise(w, error)
      BY <3>1 DEF Raise, Goto, TypeOK
    <3>2. CASE \A error : ~Raise(w, error)
      BY <1>3, <3>2
      DEF Precheck, Acquire, Recheck, Stage, Inspect, Unstage, Verify, Discard, RestoreCheck,
          UnlinkMoved, Sweep, BodyFault, TornLock, Return, Goto, TypeOK
    <3> QED BY <3>1, <3>2
  <2> QED BY <2>1, <2>2, <2>3, <2>4, Unseen
<1>4. CASE Displace(w)
  <2>1. UNCHANGED <<strays, seen, new, installed>> /\ pc[w] # "idle"
    BY <1>4 DEF Displace, argVars
  <2>2. pc'[w] # "idle"
    BY <1>4 DEF Displace, Raise, Goto, TypeOK
  <2> QED BY <1>4, <2>1, <2>2, DisplaceWindow, Unseen
\* The moment an update takes effect.
<1>5. CASE Install(w)
  <2>1. InWindow(w) /\ target = Absent /\ moved[w] = seen[w] /\ seen[w] \in Content
        /\ new[w] \in Content /\ ~installed[w]
    BY <1>5 DEF Install, Updates, InWindow, Window, Told, Before
  <2>2. /\ target' = new[w] /\ installed' = [installed EXCEPT ![w] = TRUE]
        /\ pc[w] = "install" /\ pc'[w] = "unstage" /\ UNCHANGED <<outcome, seen, new, strays>>
    BY <1>5, <2>1 DEF Install, Goto, argVars, TypeOK
  <2>3. Window' /\ Current' = new[w]
    BY <2>1, <2>2, WindowCloses DEF InWindow
  <2>4. Current = seen[w]
    BY <2>1, CurrentInWindow
  <2>5. stage[w] = "open" /\ stage' = [stage EXCEPT ![w] = "applied"]
    <3>1. stage[w] = "open"
      BY <2>1, <2>2
    <3>2. stage'[w] = "applied"
      BY <2>2 DEF TypeOK
    <3>3. \A v \in Writer \ {w} : stage'[v] = stage[v]
      BY DEF Apart
    <3> QED BY <3>1, <3>2, <3>3
  <2>6. reply' = reply
    BY <2>2 DEF Apart
  <2>7. Register!Apply(w)
    BY <2>2, <2>3, <2>4, <2>5, <2>6 DEF Register!Apply
  <2> QED BY <2>3, <2>7 DEF Register!Next
<1>6. CASE Relink(w)
  <2>1. InWindow(w) /\ target = Absent
    BY <1>6 DEF Relink, Updates, InWindow, Window
  <2>2. /\ target' = moved[w] /\ pc[w] # "idle" /\ pc'[w] = "unlink_moved"
        /\ UNCHANGED <<seen, new, strays, installed>>
    BY <1>6, <2>1 DEF Relink, Goto, argVars, TypeOK
  <2>3. Window' /\ Current' = Current
    BY <2>1, <2>2, WindowCloses, CurrentInWindow DEF InWindow
  <2> QED BY <2>2, <2>3, Unseen
<1>7. CASE KeepMoved(w)
  BY <1>7 DEF KeepMoved, Updates
\* A restoration fails: the displaced revision stays in the directory.
<1>8. CASE RestoreFault(w)
  <2>1. /\ pc[w] \in {"restore", "relink", "unlink_moved"} /\ pc'[w] = "sweep"
        /\ target' = target /\ UNCHANGED <<seen, new, installed, outcome>>
        /\ strays' = strays \cup ({moved[w]} \ {Absent})
    BY <1>8 DEF RestoreFault, Strand, Goto, argVars, TypeOK
  <2>2. moved[w] \in Content /\ strays' = strays \cup {moved[w]}
    BY <2>1 DEF Updates, TypeOK
  <2>3. Window' /\ Register!Leave
    <3>1. CASE InWindow(w)
      <4>1. Window' /\ Current' = Absent /\ Current = moved[w]
        BY <2>1, <3>1, WindowCloses, CurrentInWindow DEF InWindow, Window
      <4> QED BY <2>2, <4>1 DEF Register!Leave
    <3>2. CASE ~InWindow(w)
      <4>1. Window' /\ Current' = Current
        BY <2>1, <3>2, QuietStep DEF InWindow
      <4> QED BY <2>2, <4>1 DEF Register!Leave
    <3> QED BY <3>1, <3>2
  <2>4. stage[w] # "none" /\ stage' = stage
    BY <2>1 DEF Apart
  <2>5. reply' = reply
    BY <2>1 DEF Apart
  <2>6. Register!Abandon(w)
    BY <2>1, <2>3, <2>4, <2>5 DEF Register!Abandon
  <2> QED BY <2>3, <2>6 DEF Register!Next
\* The answers.
<1>9. CASE \/ Precheck(w) /\ target # seen[w]
           \/ Acquire(w) /\ lock[guard[w]] # Free
           \/ EarlyFault(w) \/ Release(w) \/ StuckLock(w)
  <2>1. pc[w] # "idle" /\ Hang(w) /\ strays' = strays /\ pc'[w] = "idle"
    BY <1>9 DEF Precheck, Acquire, EarlyFault, Release, StuckLock, dirVars, Hang, Goto, TypeOK
  <2>2. Quiet(w) /\ Window'
    BY <1>9, CallQuiet, QuietStep DEF Quiet
  <2>3. Agrees(outcome'[w], installed[w])
    BY <1>9, <2>1, CallTold DEF UpdateInv, CallStep, FaultStep
  <2>4. /\ outcome'[w] \in Register!Reply
        /\ outcome'[w] \in Register!NoInstall => seen[w] = new[w]
    <3>1. CASE pc[w] = "release"
      BY <1>9, <3>1
      DEF Precheck, Acquire, EarlyFault, Release, StuckLock, TypeOK, Updates, Finally,
          Register!Reply, Register!NoInstall, Register!Success, Register!Refusal
    <3>2. CASE pc[w] # "release"
      BY <1>9, <3>2
      DEF Precheck, Acquire, EarlyFault, Release, StuckLock, TypeOK,
          Register!Reply, Register!NoInstall, Register!Success, Register!Refusal
    <3> QED BY <3>1, <3>2
  <2>5. Register!Answer(w)
    BY <2>1, <2>2, <2>3, <2>4, Answers
  <2> QED BY <2>2, <2>5 DEF Register!Next
<1>10. CASE Crash(w)
  BY <1>10, Dies DEF Register!Next
<1> QED
  BY <1>2, <1>3, <1>4, <1>5, <1>6, <1>7, <1>8, <1>9, <1>10
  DEF UpdateStep, CallStep, FaultStep

\* While nobody creates the record, its updates are those of the
\* compare-and-swap register: no acknowledged update is lost, and a displaced
\* revision is always somewhere in the directory.  For any number of callers,
\* contents and lock purposes, which need not exclude each other.
THEOREM UpdatesImplementRegister == MCSpec => UpdatesAreRegister
<1> DEFINE Inv == TypeOK /\ (~creating => UpdateInv)
<1>1. MCInit => Inv
  <2> SUFFICES ASSUME MCInit PROVE Inv
    OBVIOUS
  <2>1. TypeOK
    BY RecordAssumption DEF MCInit, Init, TypeOK, LockName, Step, Outcome
  <2>2. ToldInv
    BY <2>1 DEF MCInit, Init, ToldInv, Told, Before, After, Finally
  <2>3. Window /\ \A w \in Writer : Updates(w)
    BY DEF MCInit, Init, Window, InWindow, Updates, Finally, Holding
  <2> QED BY <2>1, <2>2, <2>3 DEF UpdateInv
<1>2. MCSpec => []TypeOK
  <2>1. MCInit => Init
    BY DEF MCInit
  <2>2. [MCNext]_mcVars => [Next]_vars
    BY DEF MCNext, mcVars
  <2> QED BY <2>1, <2>2, TypeCorrect, PTL DEF MCSpec, Spec
<1>3. ASSUME Inv, TypeOK', ~creating, MCNext
      PROVE  UpdateInv' /\ [Register!Next]_(Register!regVars)
  <2>0. UpdateInv /\ TypeOK /\ Next /\ NoCreation'
    BY <1>3 DEF MCNext
  <2>1. PICK w \in Writer : Begin(w) \/ CallStep(w) \/ FaultStep(w)
    BY <2>0 DEF Next
  <2>2. Begin(w) => target # Absent
    <3> SUFFICES ASSUME Begin(w) PROVE target # Absent
      OBVIOUS
    <3>1. pc'[w] = "precheck" /\ seen'[w] = target
      BY <2>0 DEF Begin, Goto, TypeOK
    <3> QED BY <2>0, <3>1 DEF NoCreation, Creating
  <2>3. UpdateStep(w)
    BY <2>1, <2>2 DEF UpdateStep
  <2>4. Window' /\ (Register!Next \/ UNCHANGED (Register!regVars))
    BY <1>3, <2>0, <2>3, StepIsRegisterStep
  <2>5. Apart(w)
    BY <2>0, <2>3, StepsApart
  <2>6. ASSUME NEW v \in Writer PROVE Updates(v)' /\ Told(v)'
    <3>1. CASE v = w
      BY <2>0, <2>1, <2>3, <3>1, StepUpdates, CallTold DEF UpdateInv
    <3>2. CASE v # w
      BY <2>0, <2>5, <3>2 DEF Apart, UpdateInv, ToldInv, Updates, Told
    <3> QED BY <3>1, <3>2
  <2> QED BY <1>3, <2>4, <2>6 DEF UpdateInv, ToldInv
<1>4. ASSUME Inv, UNCHANGED mcVars
      PROVE  /\ ~creating => UpdateInv'
             /\ UNCHANGED (Register!regVars)
  <2>1. UNCHANGED vars
    BY <1>4 DEF mcVars
  <2>2. TypeOK' /\ Window' = Window /\ Current' = Current
    BY <1>4, <2>1 DEF vars, TypeOK, Window, InWindow, Current
  <2>3. ~creating => UpdateInv'
    BY <1>4, <2>1, <2>2 DEF vars, UpdateInv, ToldInv, Told, Updates
  <2>4. UNCHANGED (Register!regVars)
    BY <2>1, <2>2 DEF vars, Register!regVars
  <2> QED BY <2>3, <2>4
<1>5. Inv /\ TypeOK' /\ [MCNext]_mcVars => Inv'
  BY <1>3, <1>4 DEF MCNext, mcVars
<1>6. Inv /\ TypeOK' /\ [MCNext]_mcVars
        => [~creating => [Register!Next]_(Register!regVars)]_mcVars
  BY <1>3, <1>4
<1>7. MCInit => (~creating => Register!Init)
  <2> SUFFICES ASSUME MCInit PROVE Register!Init
    OBVIOUS
  <2>1. Current = target
    BY DEF MCInit, Init, InWindow, Current
  <2> QED BY <2>1 DEF MCInit, Init, Register!Init
<1> QED BY <1>1, <1>2, <1>5, <1>6, <1>7, PTL DEF MCSpec, UpdatesAreRegister
=============================================================================
