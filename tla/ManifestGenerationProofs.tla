---------------------- MODULE ManifestGenerationProofs ----------------------
(***************************************************************************)
(* Theorems about ManifestGeneration for any number of sessions, students, *)
(* edits, removals and faults.                                             *)
(***************************************************************************)
EXTENDS MCManifestGeneration, WellFoundedInduction, TLAPS

\* The part of TypeOK the arguments below rest on; versions only grow.
Typed ==
  /\ edits \in Nat
  /\ native \in [Source -> Nat]
  /\ \A x \in Source : native[x] <= edits + 1
  /\ pc \in [Session -> Step]
  /\ at \in [Session -> Source]
  /\ context \in [Session -> [Source -> Nat]]
  /\ witnessed \in [Session -> SUBSET [Source -> Nat]]
  /\ DOMAIN mine = Session
  /\ outcome \in [Session -> Outcome \cup {"none"}]

Planning == {"load", "collect", "verify", "guard", "install"}

\* What the second reading has established when it has come to source k: a
\* witnessed state that agrees with the context below k, and beyond it lies
\* between what was read first and what the records hold now.
Bracket(s, k) ==
  \E w \in witnessed[s] :
    /\ w[0] = context[s][0]
    /\ \A x \in Source \ {0} : context[s][x] <= w[x] /\ w[x] <= native[x]
    /\ \A x \in Source : x < k => w[x] = context[s][x]

Reading(s) ==
  /\ pc[s] = "load" => at[s] = 0
  /\ pc[s] \in {"collect", "verify"} => native \in witnessed[s]
  /\ pc[s] = "collect" => \A x \in Source \ {0} : x < at[s] => context[s][x] <= native[x]
  /\ pc[s] = "verify" => \A x \in Source \ {0} : context[s][x] <= native[x]
  /\ pc[s] = "verify" /\ at[s] > 0 => Bracket(s, at[s])

Answering(s) ==
  /\ pc[s] \in Planning => mine[s] = 0 /\ outcome[s] = "none"
  /\ pc[s] \in {"guard", "install", "tidy", "reload"} => context[s] \in witnessed[s]
  /\ mine[s] # 0 \/ outcome[s] = "replayed" => context[s] \in witnessed[s]

IInv ==
  /\ Typed
  /\ LockExcludes
  /\ \A s \in Session : Reading(s) /\ Answering(s)

SessionStep(s) ==
  \/ \E force \in BOOLEAN : Acquire(s, force)
  \/ AcquireRefused(s) \/ AcquireFault(s)
  \/ Load(s) \/ Collect(s) \/ Verify(s) \/ ReadFault(s)
  \/ Guard(s) \/ Install(s) \/ CreateFault(s)
  \/ Tidy(s) \/ Reload(s) \/ DurableFault(s)
  \/ Release(s) \/ ReleaseFault(s) \/ Crash(s)

Surrounding == (\E n \in DOMAIN log : RemoveRevision(n)) \/ OperatorCleans

(* Next is one of three kinds of step. *)
LEMMA NextSplit ==
  ASSUME Next
  PROVE  (\E s \in Session : SessionStep(s)) \/ (\E x \in Source : Edit(x)) \/ Surrounding
BY DEF Next, SessionStep, Surrounding

-----------------------------------------------------------------------------
(* The initial states. *)

LEMMA InitIInv == Init => IInv
<1> SUFFICES ASSUME Init PROVE IInv
  OBVIOUS
<1>1. Typed
  <2>1. native \in [Source -> Nat] /\ edits = 0 /\ \A x \in Source : native[x] <= edits + 1
    BY DEF Init
  <2>2. at \in [Session -> Source] /\ context \in [Session -> [Source -> Nat]]
    BY ManifestAssumption DEF Init, Source
  <2>3. witnessed \in [Session -> SUBSET [Source -> Nat]]
    BY DEF Init
  <2>4. pc \in [Session -> Step] /\ DOMAIN mine = Session
        /\ outcome \in [Session -> Outcome \cup {"none"}]
    BY DEF Init, Step
  <2> QED
    BY <2>1, <2>2, <2>3, <2>4 DEF Typed
<1>2. LockExcludes
  BY DEF Init, LockExcludes, Active
<1>3. ASSUME NEW s \in Session PROVE Reading(s) /\ Answering(s)
  BY DEF Init, Reading, Answering, Planning
<1> QED
  BY <1>1, <1>2, <1>3 DEF IInv

-----------------------------------------------------------------------------
(* Types. *)

LEMMA TypedSession ==
  ASSUME Typed, NEW s \in Session, SessionStep(s)
  PROVE  Typed'
<1> USE DEF Typed
<1>1. UNCHANGED <<native, edits>>
  BY DEF SessionStep, Acquire, AcquireRefused, AcquireFault, Load, Collect, Verify, ReadFault,
     Guard, Install, CreateFault, Tidy, Reload, DurableFault, Release, ReleaseFault, Crash, worldVars
<1>2. pc' \in [Session -> Step]
  BY DEF SessionStep, Acquire, AcquireRefused, AcquireFault, Load, Collect, Verify, ReadFault,
     Guard, Install, CreateFault, Tidy, Reload, DurableFault, Release, ReleaseFault, Crash,
     Conclude, Goto, Step
<1>3. at' \in [Session -> Source]
  <2> HIDE DEF Typed
  <2>1. at \in [Session -> Source] /\ NStudents \in Nat
    BY ManifestAssumption DEF Typed
  <2>2. 0 \in Source /\ \A k \in Source : k < NStudents => k + 1 \in Source
    BY <2>1 DEF Source
  <2>3. \/ at' = at
        \/ at' = [at EXCEPT ![s] = 0]
        \/ at[s] < NStudents /\ at' = [at EXCEPT ![s] = at[s] + 1]
    BY DEF SessionStep, Acquire, AcquireRefused, AcquireFault, Load, Collect, Verify, ReadFault,
       Guard, Install, CreateFault, Tidy, Reload, DurableFault, Release, ReleaseFault, Crash,
       ResetOp, opVars
  <2> QED
    BY <2>1, <2>2, <2>3
<1>4. context' \in [Session -> [Source -> Nat]]
  <2>1. ASSUME NEW c \in [Source -> Nat], context' = [context EXCEPT ![s] = c]
        PROVE  context' \in [Session -> [Source -> Nat]]
    BY <2>1
  <2>2. CASE Collect(s)
    <3> DEFINE c == [context[s] EXCEPT ![at[s]] = native[at[s]]]
    <3>1. c \in [Source -> Nat] /\ context' = [context EXCEPT ![s] = c]
      BY <2>2 DEF Collect
    <3> QED
      BY <2>1, <3>1
  <2>3. CASE context' = [context EXCEPT ![s] = [x \in Source |-> 0]]
    BY <2>1, <2>3
  <2>4. CASE context' = context
    BY <2>4
  <2> QED
    BY <2>2, <2>3, <2>4
    DEF SessionStep, Acquire, AcquireRefused, AcquireFault, Load, Verify, ReadFault, Guard,
        Install, CreateFault, Tidy, Reload, DurableFault, Release, ReleaseFault, Crash, ResetOp, opVars
<1>5. witnessed' \in [Session -> SUBSET [Source -> Nat]]
  <2>1. ASSUME NEW w \in SUBSET [Source -> Nat], witnessed' = [witnessed EXCEPT ![s] = w]
        PROVE  witnessed' \in [Session -> SUBSET [Source -> Nat]]
    BY <2>1
  <2>2. CASE witnessed' = [witnessed EXCEPT ![s] = {native}]
    BY <2>1, <2>2
  <2>3. CASE witnessed' = [witnessed EXCEPT ![s] = {}]
    BY <2>1, <2>3
  <2>4. CASE witnessed' = witnessed
    BY <2>4
  <2> QED
    BY <2>2, <2>3, <2>4
    DEF SessionStep, Acquire, AcquireRefused, AcquireFault, Load, Collect, Verify, ReadFault, Guard,
        Install, CreateFault, Tidy, Reload, DurableFault, Release, ReleaseFault, Crash, ResetOp, opVars
<1>6. DOMAIN mine' = Session
  BY DEF SessionStep, Acquire, AcquireRefused, AcquireFault, Load, Collect, Verify, ReadFault, Guard,
     Install, CreateFault, Tidy, Reload, DurableFault, Release, ReleaseFault, Crash, ResetOp, opVars
<1>7. outcome' \in [Session -> Outcome \cup {"none"}]
  BY DEF SessionStep, Acquire, AcquireRefused, AcquireFault, Load, Collect, Verify, ReadFault,
     Guard, Install, CreateFault, Tidy, Reload, DurableFault, Release, ReleaseFault, Crash,
     ResetOp, Conclude, Outcome, opVars
<1> QED
  BY <1>1, <1>2, <1>3, <1>4, <1>5, <1>6, <1>7

\* What an edit does: one source gets a version above every other, or the
\* assignment its first one again.
LEMMA EditWrites ==
  ASSUME Typed, NEW x \in Source, Edit(x)
  PROVE  /\ native' \in [Source -> Nat]
         /\ edits' \in Nat
         /\ \A y \in Source : native'[y] <= edits' + 1
         /\ \A y \in Source \ {0} : native[y] <= native'[y]
         /\ witnessed' \in [Session -> SUBSET [Source -> Nat]]
<1>1. edits' = edits + 1 /\ edits \in Nat
  BY DEF Edit, Typed
<1>2. PICK v : /\ v = edits + 2 \/ (v = 1 /\ x = 0)
               /\ native' = [native EXCEPT ![x] = v]
  BY ManifestAssumption DEF Edit
<1>3. native' \in [Source -> Nat] /\ \A y \in Source : native'[y] <= edits' + 1
  BY <1>1, <1>2 DEF Typed
<1>4. ASSUME NEW y \in Source \ {0} PROVE native[y] <= native'[y]
  <2>1. native[y] \in Nat /\ native[y] <= edits + 1
    BY DEF Typed
  <2>2. CASE y = x
    BY <1>1, <1>2, <2>1, <2>2 DEF Typed
  <2>3. CASE y # x
    BY <1>2, <2>1, <2>3 DEF Typed
  <2> QED
    BY <2>2, <2>3
<1>5. witnessed' \in [Session -> SUBSET [Source -> Nat]]
  BY <1>3 DEF Edit, Witness, Typed
<1> QED
  BY <1>1, <1>3, <1>4, <1>5

LEMMA TypedStep == Typed /\ [Next]_vars => Typed'
<1> SUFFICES ASSUME Typed, [Next]_vars PROVE Typed'
  OBVIOUS
<1>1. ASSUME NEW s \in Session, SessionStep(s) PROVE Typed'
  BY <1>1, TypedSession
<1>2. ASSUME NEW x \in Source, Edit(x) PROVE Typed'
  <2>1. UNCHANGED <<pc, at, context, mine, outcome>>
    BY <1>2 DEF Edit
  <2> QED
    BY <1>2, <2>1, EditWrites DEF Typed
<1>3. CASE Surrounding
  BY <1>3 DEF Surrounding, RemoveRevision, OperatorCleans, Typed, opVars, worldVars
<1>4. CASE UNCHANGED vars
  BY <1>4 DEF vars, Typed
<1> QED
  BY <1>1, <1>2, <1>3, <1>4, NextSplit

-----------------------------------------------------------------------------
(* The lock. *)

\* A step of s moves no other session, and leaves the lock to s while s is
\* active; it is possible only when s owns the lock or nobody does.
LEMMA LockSession ==
  ASSUME Typed, LockExcludes, NEW s \in Session, SessionStep(s)
  PROVE  LockExcludes'
<1> USE DEF Typed, LockExcludes, Active
<1>1. ASSUME NEW force \in BOOLEAN, Acquire(s, force) PROVE LockExcludes'
  BY <1>1, ManifestAssumption DEF Acquire, Goto
<1>2. CASE AcquireRefused(s) \/ AcquireFault(s)
  BY <1>2, ManifestAssumption DEF AcquireRefused, AcquireFault
<1>3. CASE Load(s) \/ Collect(s) \/ Verify(s) \/ ReadFault(s)
  BY <1>3 DEF Load, Collect, Verify, ReadFault, Conclude, Goto
<1>4. CASE Guard(s) \/ Install(s) \/ CreateFault(s) \/ Tidy(s) \/ Reload(s) \/ DurableFault(s)
  BY <1>4 DEF Guard, Install, CreateFault, Tidy, Reload, DurableFault, Conclude, Goto
<1>5. CASE Release(s) \/ ReleaseFault(s) \/ Crash(s)
  BY <1>5, ManifestAssumption DEF Release, ReleaseFault, Crash, Goto
<1> QED
  BY <1>1, <1>2, <1>3, <1>4, <1>5 DEF SessionStep

LEMMA LockStep == Typed /\ LockExcludes /\ [Next]_vars => LockExcludes'
<1> SUFFICES ASSUME Typed, LockExcludes, [Next]_vars PROVE LockExcludes'
  OBVIOUS
<1>1. ASSUME NEW s \in Session, SessionStep(s) PROVE LockExcludes'
  BY <1>1, LockSession
<1>2. ASSUME NEW x \in Source, Edit(x) PROVE LockExcludes'
  BY <1>2 DEF Edit, LockExcludes, Active
<1>3. CASE Surrounding
  BY <1>3 DEF Surrounding, RemoveRevision, OperatorCleans, LockExcludes, Active
<1>4. CASE UNCHANGED vars
  BY <1>4 DEF vars, LockExcludes, Active
<1> QED
  BY <1>1, <1>2, <1>3, <1>4, NextSplit

-----------------------------------------------------------------------------
(* The snapshot. *)

\* A step of s changes nothing of another session, and no native record.
LEMMA Bystander ==
  ASSUME Typed, NEW s \in Session, SessionStep(s), NEW t \in Session, t # s,
         Reading(t), Answering(t)
  PROVE  Reading(t)' /\ Answering(t)'
<1>1. native' = native
  BY DEF SessionStep, Acquire, AcquireRefused, AcquireFault, Load, Collect, Verify, ReadFault,
     Guard, Install, CreateFault, Tidy, Reload, DurableFault, Release, ReleaseFault, Crash, worldVars
<1>2. pc'[t] = pc[t] /\ outcome'[t] = outcome[t]
  BY DEF Typed, SessionStep, Acquire, AcquireRefused, AcquireFault, Load, Collect, Verify, ReadFault,
     Guard, Install, CreateFault, Tidy, Reload, DurableFault, Release, ReleaseFault, Crash,
     Goto, Conclude, ResetOp, opVars
<1>3. at'[t] = at[t] /\ context'[t] = context[t] /\ witnessed'[t] = witnessed[t] /\ mine'[t] = mine[t]
  BY DEF Typed, SessionStep, Acquire, AcquireRefused, AcquireFault, Load, Collect, Verify, ReadFault,
     Guard, Install, CreateFault, Tidy, Reload, DurableFault, Release, ReleaseFault, Crash,
     Goto, Conclude, ResetOp, opVars
<1>4. Reading(t)'
  BY <1>1, <1>2, <1>3 DEF Reading, Bracket
<1>5. Answering(t)'
  BY <1>2, <1>3 DEF Answering
<1> QED
  BY <1>4, <1>5

\* Reading once more: what was read first is at most what is there now.
LEMMA CollectKeeps ==
  ASSUME Typed, NEW s \in Session, Collect(s), Reading(s), Answering(s)
  PROVE  Reading(s)' /\ Answering(s)'
<1>1. /\ pc[s] = "collect" /\ native' = native /\ witnessed' = witnessed /\ mine' = mine
      /\ at[s] \in Source /\ native \in [Source -> Nat] /\ NStudents \in Nat
      /\ mine[s] = 0 /\ outcome[s] = "none" /\ native \in witnessed[s]
  BY ManifestAssumption DEF Collect, Typed, worldVars, Reading, Answering, Planning
<1>2. /\ context'[s][at[s]] = native[at[s]]
      /\ \A x \in Source : x # at[s] => context'[s][x] = context[s][x]
  BY DEF Collect, Typed
<1>3. \A x \in Source \ {0} : x <= at[s] => context'[s][x] <= native[x]
  <2> SUFFICES ASSUME NEW x \in Source \ {0}, x <= at[s] PROVE context'[s][x] <= native[x]
    OBVIOUS
  <2>1. CASE x = at[s]
    BY <1>1, <1>2, <2>1
  <2>2. CASE x # at[s]
    BY <1>1, <1>2, <2>2 DEF Reading, Source
  <2> QED
    BY <2>1, <2>2
<1>4. CASE at[s] < NStudents
  <2>1. pc'[s] = "collect" /\ at'[s] = at[s] + 1 /\ outcome' = outcome
    BY <1>1, <1>4 DEF Collect, Typed
  <2>2. Reading(s)'
    BY <1>1, <1>3, <2>1 DEF Reading, Source
  <2> QED
    BY <1>1, <2>1, <2>2 DEF Answering, Planning
<1>5. CASE ~(at[s] < NStudents)
  <2>1. /\ at'[s] = 0
        /\ \/ pc'[s] = "release" /\ outcome'[s] = "failed"
           \/ pc'[s] = "verify" /\ outcome' = outcome
    BY <1>1, <1>5 DEF Collect, Typed, Conclude, Goto
  <2>2. \A x \in Source : x <= at[s]
    BY <1>1, <1>5 DEF Source
  <2>3. Reading(s)'
    BY <1>1, <1>3, <2>1, <2>2 DEF Reading
  <2> QED
    BY <1>1, <2>1, <2>3 DEF Answering, Planning
<1> QED
  BY <1>4, <1>5

\* The heart of the argument: source k reads the same again, so it was the
\* same all along, and the bracket closes over it.
LEMMA BracketGrows ==
  ASSUME Typed, NEW s \in Session, pc[s] = "verify", Reading(s),
         NEW k \in Source, k = at[s], native[k] = context[s][k]
  PROVE  Bracket(s, k + 1)
<1>1. native \in witnessed[s] /\ \A x \in Source \ {0} : context[s][x] <= native[x]
  BY DEF Reading
<1>2. /\ native \in [Source -> Nat] /\ context[s] \in [Source -> Nat]
      /\ witnessed[s] \in SUBSET [Source -> Nat] /\ Source \subseteq Nat /\ 0 \in Source
  BY ManifestAssumption DEF Typed, Source
<1>3. CASE k = 0
  <2>1. \A x \in Source : x < k + 1 => x = 0
    BY <1>2, <1>3
  <2> QED
    BY <1>1, <1>2, <1>3, <2>1 DEF Bracket
<1>4. CASE k > 0
  <2>1. Bracket(s, k)
    BY <1>4 DEF Reading
  <2>2. PICK w \in witnessed[s] :
          /\ w[0] = context[s][0]
          /\ \A x \in Source \ {0} : context[s][x] <= w[x] /\ w[x] <= native[x]
          /\ \A x \in Source : x < k => w[x] = context[s][x]
    BY <2>1 DEF Bracket
  <2>3. w \in [Source -> Nat]
    BY <1>2, <2>2
  <2>4. w[k] = context[s][k]
    BY <1>2, <1>4, <2>2, <2>3
  <2>5. \A x \in Source : x < k + 1 => x < k \/ x = k
    BY <1>2
  <2>6. \A x \in Source : x < k + 1 => w[x] = context[s][x]
    BY <2>2, <2>4, <2>5
  <2> QED
    BY <2>2, <2>6 DEF Bracket
<1> QED
  BY <1>2, <1>3, <1>4

\* A bracket that has closed over every source is a witnessed state.
LEMMA BracketCloses ==
  ASSUME Typed, NEW s \in Session, NEW k \in Int, \A x \in Source : x < k, Bracket(s, k)
  PROVE  context[s] \in witnessed[s]
<1>1. PICK w \in witnessed[s] : \A x \in Source : x < k => w[x] = context[s][x]
  BY DEF Bracket
<1>2. w \in [Source -> Nat] /\ context[s] \in [Source -> Nat]
  BY DEF Typed
<1>3. w = context[s]
  BY <1>1, <1>2
<1> QED
  BY <1>3

LEMMA VerifyKeeps ==
  ASSUME Typed, NEW s \in Session, Verify(s), Reading(s), Answering(s)
  PROVE  Reading(s)' /\ Answering(s)'
<1>1. /\ pc[s] = "verify" /\ native' = native /\ witnessed' = witnessed /\ mine' = mine
      /\ context' = context /\ at[s] \in Source /\ NStudents \in Nat
      /\ mine[s] = 0 /\ outcome[s] = "none" /\ native \in witnessed[s]
  BY ManifestAssumption DEF Verify, Typed, worldVars, Reading, Answering, Planning
<1>2. CASE native[at[s]] # context[s][at[s]]
  <2>1. pc'[s] = "release" /\ outcome'[s] = "conflict"
    BY <1>1, <1>2 DEF Verify, Typed, Conclude, Goto
  <2> QED
    BY <1>1, <2>1 DEF Reading, Answering, Planning
<1>3. CASE native[at[s]] = context[s][at[s]] /\ at[s] < NStudents
  <2>1. pc' = pc /\ at'[s] = at[s] + 1 /\ outcome' = outcome
    BY <1>1, <1>3 DEF Verify, Typed
  <2>2. Bracket(s, at[s] + 1)
    BY <1>1, <1>3, BracketGrows
  <2>3. Reading(s)'
    BY <1>1, <2>1, <2>2 DEF Reading, Bracket
  <2> QED
    BY <1>1, <2>1, <2>3 DEF Answering, Planning
<1>4. CASE native[at[s]] = context[s][at[s]] /\ ~(at[s] < NStudents)
  <2>1. \/ pc'[s] = "release" /\ outcome'[s] = "replayed"
        \/ pc'[s] = "guard" /\ outcome' = outcome
    BY <1>1, <1>4 DEF Verify, Typed, Conclude, Goto
  <2>2. at[s] + 1 \in Int /\ \A x \in Source : x < at[s] + 1
    BY <1>1, <1>4 DEF Source
  <2>3. context[s] \in witnessed[s]
    BY <1>1, <1>4, <2>2, BracketGrows, BracketCloses
  <2> QED
    BY <1>1, <2>1, <2>3 DEF Reading, Answering, Planning
<1> QED
  BY <1>2, <1>3, <1>4

LEMMA OwnStep ==
  ASSUME Typed, NEW s \in Session, SessionStep(s), Reading(s), Answering(s)
  PROVE  Reading(s)' /\ Answering(s)'
<1>1. ASSUME NEW force \in BOOLEAN, Acquire(s, force) PROVE Reading(s)' /\ Answering(s)'
  <2>1. pc'[s] = "load" /\ at'[s] = 0 /\ mine'[s] = 0 /\ outcome'[s] = "none"
    BY <1>1 DEF Acquire, ResetOp, Goto, Typed
  <2> QED
    BY <2>1 DEF Reading, Answering, Planning
<1>2. CASE AcquireRefused(s) \/ AcquireFault(s)
  <2>1. pc'[s] = "idle" /\ mine'[s] = 0 /\ outcome'[s] = "none"
    BY <1>2 DEF AcquireRefused, AcquireFault, ResetOp, Active, Typed
  <2> QED
    BY <2>1 DEF Reading, Answering, Planning
<1>3. CASE Load(s)
  <2>1. \/ pc'[s] = "release" /\ outcome'[s] = "failed" /\ mine'[s] = 0
        \/ /\ pc'[s] = "collect" /\ outcome'[s] = "none" /\ mine'[s] = 0
           /\ native' \in witnessed'[s] /\ at'[s] = 0
    <3>1. CASE litter
      BY <1>3, <3>1 DEF Load, Answering, Planning, Conclude, Goto, Typed
    <3>2. CASE ~litter
      <4>1. pc[s] = "load" /\ at' = at /\ native' = native /\ mine' = mine /\ outcome' = outcome
        BY <1>3, <3>2 DEF Load, worldVars
      <4>2. pc' = [pc EXCEPT ![s] = "collect"] /\ witnessed' = [witnessed EXCEPT ![s] = {native}]
        BY <1>3, <3>2 DEF Load, Goto
      <4> QED
        BY <4>1, <4>2 DEF Reading, Answering, Planning, Typed
    <3> QED
      BY <3>1, <3>2
  <2> QED
    BY <2>1 DEF Reading, Answering, Planning, Source
<1>4. CASE Collect(s)
  BY <1>4, CollectKeeps
<1>5. CASE Verify(s)
  BY <1>5, VerifyKeeps
<1>6. CASE ReadFault(s) \/ CreateFault(s)
  <2>1. pc'[s] = "release" /\ outcome'[s] \in {"conflict", "failed"} /\ mine'[s] = 0
    BY <1>6 DEF ReadFault, CreateFault, Conclude, Goto, Answering, Planning, Typed
  <2> QED
    BY <2>1 DEF Reading, Answering, Planning
<1>7. CASE Guard(s) \/ Install(s) \/ Tidy(s)
  <2>1. /\ context' = context /\ witnessed' = witnessed /\ outcome' = outcome
        /\ context[s] \in witnessed[s]
        /\ \/ pc'[s] = "install" /\ mine' = mine /\ mine[s] = 0 /\ outcome[s] = "none"
           \/ pc'[s] \in {"tidy", "reload"}
    BY <1>7 DEF Guard, Install, Tidy, Goto, opVars, Answering, Planning, Typed
  <2> QED
    BY <2>1 DEF Reading, Answering, Planning
<1>8. CASE Reload(s) \/ DurableFault(s)
  <2>1. /\ context' = context /\ witnessed' = witnessed /\ context[s] \in witnessed[s]
        /\ pc'[s] = "release"
    BY <1>8 DEF Reload, DurableFault, Conclude, Goto, Answering, Typed
  <2> QED
    BY <2>1 DEF Reading, Answering, Planning
<1>9. CASE Release(s) \/ ReleaseFault(s) \/ Crash(s)
  <2>1. UNCHANGED <<context, witnessed, mine, outcome>> /\ pc'[s] = "idle"
    BY <1>9 DEF Release, ReleaseFault, Crash, Goto, opVars, Typed
  <2> QED
    BY <2>1 DEF Reading, Answering, Planning
<1> QED
  BY <1>1, <1>2, <1>3, <1>4, <1>5, <1>6, <1>7, <1>8, <1>9 DEF SessionStep

\* An edit moves the records up and away; every bracket stays one.
LEMMA EditKeeps ==
  ASSUME Typed, NEW x \in Source, Edit(x), NEW s \in Session, Reading(s), Answering(s)
  PROVE  Reading(s)' /\ Answering(s)'
<1>1. UNCHANGED <<pc, at, context, mine, outcome>>
  BY DEF Edit
<1>2. witnessed[s] \subseteq witnessed'[s] /\ (Active(s) => native' \in witnessed'[s])
  BY DEF Edit, Witness
<1>3. \A y \in Source \ {0} : native[y] <= native'[y]
  BY EditWrites
<1>4. /\ native \in [Source -> Nat] /\ native' \in [Source -> Nat]
      /\ context[s] \in [Source -> Nat] /\ witnessed[s] \in SUBSET [Source -> Nat]
  BY EditWrites DEF Typed
<1>5. ASSUME pc[s] = "verify", at[s] > 0 PROVE Bracket(s, at[s])'
  <2>1. PICK w \in witnessed[s] :
          /\ w[0] = context[s][0]
          /\ \A y \in Source \ {0} : context[s][y] <= w[y] /\ w[y] <= native[y]
          /\ \A y \in Source : y < at[s] => w[y] = context[s][y]
    BY <1>5 DEF Reading, Bracket
  <2>2. w \in [Source -> Nat]
    BY <1>4, <2>1
  <2>3. \A y \in Source \ {0} : w[y] <= native'[y]
    BY <1>3, <1>4, <2>1, <2>2
  <2> QED
    BY <1>1, <1>2, <2>1, <2>3 DEF Bracket
<1>6. ASSUME NEW y \in Source \ {0}, context[s][y] <= native[y] PROVE context[s][y] <= native'[y]
  BY <1>3, <1>4, <1>6
<1>7. Reading(s)'
  BY <1>1, <1>2, <1>5, <1>6 DEF Reading, Active
<1>8. Answering(s)'
  BY <1>1, <1>2 DEF Answering
<1> QED
  BY <1>7, <1>8

-----------------------------------------------------------------------------
(* The theorems. *)

LEMMA IInvStep == IInv /\ [Next]_vars => IInv'
<1> SUFFICES ASSUME IInv, [Next]_vars PROVE IInv'
  OBVIOUS
<1>1. Typed' /\ LockExcludes'
  BY TypedStep, LockStep DEF IInv
<1>2. ASSUME NEW t \in Session PROVE Reading(t)' /\ Answering(t)'
  <2>1. Typed /\ Reading(t) /\ Answering(t)
    BY DEF IInv
  <2>2. ASSUME NEW s \in Session, SessionStep(s) PROVE Reading(t)' /\ Answering(t)'
    BY <2>1, <2>2, Bystander, OwnStep
  <2>3. ASSUME NEW x \in Source, Edit(x) PROVE Reading(t)' /\ Answering(t)'
    BY <2>1, <2>3, EditKeeps
  <2>4. CASE Surrounding \/ UNCHANGED vars
    <3>1. UNCHANGED <<native, pc, at, context, mine, outcome, witnessed>>
      BY <2>4 DEF Surrounding, RemoveRevision, OperatorCleans, vars, opVars, worldVars
    <3> QED
      BY <2>1, <3>1 DEF Reading, Answering, Bracket
  <2> QED
    BY <2>2, <2>3, <2>4, NextSplit
<1> QED
  BY <1>1, <1>2 DEF IInv

LEMMA Inductive == Spec => []IInv
BY InitIInv, IInvStep, PTL DEF Spec

\* For any number of sessions, students, edits and faults, one generation at
\* a time is inside .write.lock.
THEOREM OneGeneration == Spec => []LockExcludes
<1>1. IInv => LockExcludes
  BY DEF IInv
<1> QED
  BY <1>1, Inductive, PTL

\* For any number of them, reading every record twice is enough: what is
\* installed or replayed is a state all the records were in at one moment,
\* provided only the record read first can come back to earlier bytes.
THEOREM SnapshotIsCoherent == Spec => []CoherentSnapshot
<1>1. IInv => CoherentSnapshot
  BY DEF IInv, Answering, CoherentSnapshot
<1> QED
  BY <1>1, Inductive, PTL

-----------------------------------------------------------------------------
(* What is recorded, and what callers hear: the history a generation plans  *)
(* with is the history there is, below the bound on revisions; the planned  *)
(* disposition stands until the revision is installed.                      *)

Holding == {"collect", "verify", "guard", "install"}

Planned(s) ==
  /\ pc[s] = "load" => Highest(log) < MaxRevisions
  /\ pc[s] \in Holding => past[s] = log /\ Highest(log) < MaxRevisions
  /\ pc[s] \in {"verify", "guard", "install"} => PlanOf(s) # "invalid"
  /\ pc[s] \in {"guard", "install"} => PlanOf(s) # "exact_replay"

\* What a generation will answer, and what its last one answered.
Ended(s, how) ==
  /\ how \in {"conflict", "failed", "replayed"} => mine[s] = 0
  /\ how \in {"created", "partial"} => mine[s] \in consumed
  /\ how = "replayed" => past[s][Highest(past[s])] = context[s]

Told(s) ==
  /\ pc[s] \in Planning => mine[s] = 0 /\ outcome[s] = "none"
  /\ pc[s] \in {"tidy", "reload"} => mine[s] \in consumed
  /\ Ended(s, outcome[s])
  /\ Ended(s, result[s])
  /\ pc[s] # "idle" => result[s] = "none"

\* Whatever is in the directory has somebody who will remove it or has reported it.
Accounted ==
  /\ lock = Stale => reported
  /\ lock \in Session => Active(lock)
  /\ litter => reported \/ \E s \in Session : pc[s] \in {"install", "tidy"}

JInv ==
  /\ TypeOK
  /\ DOMAIN past = Session
  /\ Accounted
  /\ \A s \in Session : Planned(s) /\ Told(s)

-----------------------------------------------------------------------------
(* Facts about the policy. *)

Bounded(h) == DOMAIN h \in SUBSET (1 .. MaxRevisions)

\* The highest revision is the greatest, and 0 stands for none.
LEMMA HighestIs ==
  ASSUME NEW h, Bounded(h)
  PROVE  /\ Highest(h) \in 0 .. MaxRevisions
         /\ DOMAIN h = {} <=> Highest(h) = 0
         /\ DOMAIN h # {} => Highest(h) \in DOMAIN h
         /\ \A m \in DOMAIN h : m <= Highest(h)
<1>1. MaxRevisions \in Nat
  BY ManifestAssumption
<1>2. CASE DOMAIN h = {}
  BY <1>1, <1>2 DEF Highest
<1>3. CASE DOMAIN h # {}
  <2> DEFINE T == {MaxRevisions - m : m \in DOMAIN h}
  <2>1. T \subseteq Nat /\ T # {}
    BY <1>1, <1>3 DEF Bounded
  <2>2. PICK k \in T : \A j \in T : ~ (<<j, k>> \in OpToRel(<, Nat))
    BY <2>1, NatLessThanWellFounded, WFMin
  <2>3. \A j \in T : ~ (j < k)
    BY <2>1, <2>2 DEF OpToRel
  <2>4. PICK n \in DOMAIN h : k = MaxRevisions - n
    BY <2>2
  <2>5. \A m \in DOMAIN h : ~ (MaxRevisions - m < MaxRevisions - n)
    BY <2>3, <2>4
  <2>6. \A m \in DOMAIN h : m <= n
    BY <1>1, <2>5 DEF Bounded
  <2>7. Highest(h) \in DOMAIN h /\ \A m \in DOMAIN h : m <= Highest(h)
    BY <1>3, <2>6 DEF Highest
  <2>8. Highest(h) \in 1 .. MaxRevisions
    BY <2>7 DEF Bounded
  <2> QED
    BY <1>3, <2>7, <2>8
<1> QED
  BY <1>2, <1>3

\* What Plan answers about a history.
LEMMA PlanSays ==
  ASSUME NEW h, Bounded(h), NEW c, NEW force \in BOOLEAN
  PROVE  LET p == Plan(h, c, force)
         IN /\ p \in {"invalid", "exact_replay"} \cup Log!Reason
            /\ p = "exact_replay" => DOMAIN h # {} /\ h[Highest(h)] = c
            /\ p \notin {"invalid", "exact_replay"} =>
                 /\ p = "initial_publication" <=> DOMAIN h = {}
                 /\ p # "republication_after_withdrawal" =>
                      /\ DOMAIN h # {} => h[Highest(h)] # c
                      /\ p = "historical_reversion" <=> \E n \in DOMAIN h : h[n] = c
<1> DEFINE p == Plan(h, c, force)
<1>1. /\ Highest(h) \in 0 .. MaxRevisions /\ MaxRevisions \in Nat
      /\ DOMAIN h = {} <=> Highest(h) = 0
      /\ \A m \in DOMAIN h : m \in Nat /\ m <= Highest(h)
  BY HighestIs, ManifestAssumption DEF Bounded
<1>2. CASE DOMAIN h = {}
  BY <1>1, <1>2 DEF Plan, Log!Reason
<1>3. CASE DOMAIN h # {}
  <2>1. p = IF force THEN "republication_after_withdrawal"
            ELSE IF h[Highest(h)] = c THEN "exact_replay"
            ELSE SuccessorReason(h, c)
    BY <1>1, <1>3 DEF Plan
  <2>2. /\ SuccessorReason(h, c) \in {"historical_reversion", "native_source_changed",
                                       "publication_projection_changed"}
        /\ SuccessorReason(h, c) = "historical_reversion" <=>
             \E n \in DOMAIN h : n < Highest(h) /\ h[n] = c
    BY DEF SuccessorReason
  <2>3. h[Highest(h)] # c =>
          ((\E n \in DOMAIN h : n < Highest(h) /\ h[n] = c) <=> \E n \in DOMAIN h : h[n] = c)
    <3> SUFFICES ASSUME h[Highest(h)] # c, NEW n \in DOMAIN h, h[n] = c
                 PROVE  n < Highest(h)
      OBVIOUS
    <3>1. n # Highest(h) /\ n <= Highest(h) /\ n \in Nat
      BY <1>1
    <3> QED
      BY <1>1, <3>1
  <2> QED
    BY <1>3, <2>1, <2>2, <2>3 DEF Log!Reason
<1> QED
  BY <1>2, <1>3

-----------------------------------------------------------------------------
(* The initial states. *)

LEMMA InitJInv == Init => JInv
<1> SUFFICES ASSUME Init PROVE JInv
  OBVIOUS
<1>1. log = <<>> /\ DOMAIN log = {} /\ DOMAIN reasons = {} /\ consumed = {}
  BY DEF Init
<1>2. native \in Content /\ [x \in Source |-> 0] \in Content
  <2>1. {0, 1} \subseteq Version
    BY ManifestAssumption DEF Version
  <2> QED
    BY <2>1 DEF Init, Content
<1>3. TypeOK
  <2>1. /\ edits \in 0 .. MaxEdits /\ removals \in 0 .. MaxRemovals /\ faults \in 0 .. MaxFaults
        /\ 0 \in Source /\ 0 \in 0 .. MaxRevisions
    BY ManifestAssumption DEF Init, Source
  <2>2. /\ pc \in [Session -> Step] /\ republish \in [Session -> BOOLEAN]
        /\ outcome \in [Session -> Outcome \cup {"none"}]
        /\ result \in [Session -> Outcome \cup {"none", "crashed"}]
    BY DEF Init, Step
  <2>3. /\ at \in [Session -> Source] /\ mine \in [Session -> 0 .. MaxRevisions]
        /\ context \in [Session -> Content]
        /\ \A s \in Session : witnessed[s] \subseteq Content
    BY <1>2, <2>1 DEF Init
  <2>4. lock \in Session \cup {NoOne, Stale} /\ litter \in BOOLEAN /\ reported \in BOOLEAN
    BY DEF Init
  <2> QED
    BY <1>1, <1>2, <2>1, <2>2, <2>3, <2>4 DEF TypeOK
<1>4. Accounted
  BY ManifestAssumption DEF Init, Accounted
<1>5. ASSUME NEW s \in Session PROVE Planned(s) /\ Told(s)
  BY DEF Init, Planned, Told, Ended, Planning, Holding
<1> QED
  BY <1>3, <1>4, <1>5 DEF JInv, Init

-----------------------------------------------------------------------------
(* Types. *)

\* The revision that is installed is below the bound.
LEMMA InstallsNext ==
  ASSUME TypeOK, NEW s \in Session, pc[s] = "install", Planned(s)
  PROVE  /\ past[s] = log /\ Bounded(log)
         /\ NextRevision(log) \in 1 .. MaxRevisions
         /\ \A m \in DOMAIN log : m \in 1 .. MaxRevisions /\ m < NextRevision(log)
         /\ PlanOf(s) \in Log!Reason /\ Log!Explains(PlanOf(s), context[s])
<1>1. past[s] = log /\ Highest(log) < MaxRevisions /\ Bounded(log)
  BY DEF Planned, Holding, TypeOK, Bounded
<1>2. /\ Highest(log) \in 0 .. MaxRevisions /\ MaxRevisions \in Nat
      /\ DOMAIN log # {} => Highest(log) \in DOMAIN log
      /\ \A m \in DOMAIN log : m \in 1 .. MaxRevisions /\ m <= Highest(log)
  BY <1>1, HighestIs, ManifestAssumption DEF Bounded
<1>3. republish[s] \in BOOLEAN
  BY DEF TypeOK
<1>4. PlanOf(s) \notin {"invalid", "exact_replay"}
  BY DEF Planned
<1>5. PlanOf(s) \in Log!Reason
  BY <1>1, <1>3, <1>4, PlanSays DEF PlanOf
<1>6. Log!Explains(PlanOf(s), context[s])
  <2>1. /\ PlanOf(s) = "initial_publication" <=> DOMAIN log = {}
        /\ PlanOf(s) # "republication_after_withdrawal" =>
             /\ DOMAIN log # {} => log[Highest(log)] # context[s]
             /\ PlanOf(s) = "historical_reversion" <=> \E n \in DOMAIN log : log[n] = context[s]
    BY <1>1, <1>3, <1>4, PlanSays DEF PlanOf
  <2>2. ASSUME NEW n \in DOMAIN log, Log!IsHead(n) PROVE n = Highest(log)
    <3>1. Highest(log) \in DOMAIN log /\ n <= Highest(log) /\ Highest(log) <= n
      BY <1>2, <2>2 DEF Log!IsHead
    <3> QED
      BY <1>2, <3>1
  <2> QED
    BY <2>1, <2>2 DEF Log!Explains
<1> QED
  BY <1>1, <1>2, <1>5, <1>6 DEF NextRevision

\* What a session's step does to the files: nothing, or it installs a revision.
LEMMA FilesOfStep ==
  ASSUME NEW s \in Session, SessionStep(s)
  PROVE  \/ Install(s)
         \/ UNCHANGED <<log, reasons, consumed>>
BY DEF SessionStep, Acquire, AcquireRefused, AcquireFault, Load, Collect, Verify, ReadFault,
   Guard, CreateFault, Tidy, Reload, DurableFault, Release, ReleaseFault, Crash, diskVars

LEMMA TypeOfFiles ==
  ASSUME TypeOK, NEW s \in Session, SessionStep(s), Planned(s)
  PROVE  /\ DOMAIN log' \subseteq consumed' /\ consumed' \subseteq 1 .. MaxRevisions
         /\ \A n \in DOMAIN log' : log'[n] \in Content
         /\ DOMAIN reasons' = DOMAIN log'
         /\ consumed \subseteq consumed'
<1>1. CASE UNCHANGED <<log, reasons, consumed>>
  BY <1>1 DEF TypeOK
<1>2. CASE Install(s)
  <2> DEFINE n == NextRevision(past[s])
  <2>1. n \in 1 .. MaxRevisions
    BY <1>2, InstallsNext DEF Install
  <2>2. /\ log' = [m \in DOMAIN log \cup {n} |-> IF m = n THEN context[s] ELSE log[m]]
        /\ DOMAIN reasons' = DOMAIN reasons \cup {n} /\ consumed' = consumed \cup {n}
    BY <1>2 DEF Install
  <2>3. context[s] \in Content
    BY DEF TypeOK
  <2> HIDE DEF n
  <2> QED
    BY <2>1, <2>2, <2>3 DEF TypeOK
<1> QED
  BY <1>1, <1>2, FilesOfStep

LEMMA TypeOfSession ==
  ASSUME Typed, TypeOK, NEW s \in Session, SessionStep(s), Planned(s)
  PROVE  TypeOK'
<1>1. native' = native /\ edits' = edits /\ removals' = removals
  BY DEF SessionStep, Acquire, AcquireRefused, AcquireFault, Load, Collect, Verify, ReadFault,
     Guard, Install, CreateFault, Tidy, Reload, DurableFault, Release, ReleaseFault, Crash, worldVars
<1>2. faults' \in 0 .. MaxFaults
  <2>1. faults' = faults \/ (faults < MaxFaults /\ faults' = faults + 1)
    BY DEF SessionStep, Acquire, AcquireRefused, AcquireFault, Load, Collect, Verify, ReadFault,
       Guard, Install, CreateFault, Tidy, Reload, DurableFault, Release, ReleaseFault, Crash, Fault
  <2> QED
    BY <2>1, ManifestAssumption DEF TypeOK
<1>3. lock' \in Session \cup {NoOne, Stale} /\ litter' \in BOOLEAN /\ reported' \in BOOLEAN
  BY DEF TypeOK, SessionStep, Acquire, AcquireRefused, AcquireFault, Load, Collect, Verify, ReadFault,
     Guard, Install, CreateFault, Tidy, Reload, DurableFault, Release, ReleaseFault, Crash, diskVars
<1>4. pc' \in [Session -> Step] /\ at' \in [Session -> Source]
      /\ outcome' \in [Session -> Outcome \cup {"none"}]
  BY TypedSession DEF Typed
<1>5. republish' \in [Session -> BOOLEAN]
  BY DEF TypeOK, SessionStep, Acquire, AcquireRefused, AcquireFault, Load, Collect, Verify, ReadFault,
     Guard, Install, CreateFault, Tidy, Reload, DurableFault, Release, ReleaseFault, Crash, opVars
<1>6. context' \in [Session -> Content]
  <2>1. ASSUME NEW c \in Content, context' = [context EXCEPT ![s] = c]
        PROVE  context' \in [Session -> Content]
    BY <2>1 DEF TypeOK
  <2>2. CASE Collect(s)
    <3> DEFINE c == [context[s] EXCEPT ![at[s]] = native[at[s]]]
    <3>1. c \in Content /\ context' = [context EXCEPT ![s] = c]
      BY <2>2 DEF Collect, TypeOK, Content
    <3> QED
      BY <2>1, <3>1
  <2>3. CASE context' = [context EXCEPT ![s] = [x \in Source |-> 0]]
    <3>1. [x \in Source |-> 0] \in Content
      BY ManifestAssumption DEF Content, Version
    <3> QED
      BY <2>1, <2>3, <3>1
  <2>4. CASE context' = context
    BY <2>4 DEF TypeOK
  <2> QED
    BY <2>2, <2>3, <2>4
    DEF SessionStep, Acquire, AcquireRefused, AcquireFault, Load, Verify, ReadFault, Guard,
        Install, CreateFault, Tidy, Reload, DurableFault, Release, ReleaseFault, Crash, ResetOp, opVars
<1>7. mine' \in [Session -> 0 .. MaxRevisions]
  <2>1. CASE Install(s)
    <3>1. NextRevision(past[s]) \in 0 .. MaxRevisions
      BY <2>1, InstallsNext DEF Install
    <3> QED
      BY <2>1, <3>1 DEF Install, TypeOK
  <2>2. CASE mine' = [mine EXCEPT ![s] = 0] \/ mine' = mine
    BY <2>2, ManifestAssumption DEF TypeOK
  <2> QED
    BY <2>1, <2>2
    DEF SessionStep, Acquire, AcquireRefused, AcquireFault, Load, Collect, Verify, ReadFault, Guard,
        CreateFault, Tidy, Reload, DurableFault, Release, ReleaseFault, Crash, ResetOp, opVars
<1>8. result' \in [Session -> Outcome \cup {"none", "crashed"}]
  BY DEF TypeOK, SessionStep, Acquire, AcquireRefused, AcquireFault, Load, Collect, Verify, ReadFault,
     Guard, Install, CreateFault, Tidy, Reload, DurableFault, Release, ReleaseFault, Crash, Outcome
<1>9. \A t \in Session : witnessed'[t] \subseteq Content
  <2>1. native \in Content
    BY DEF TypeOK
  <2>2. \/ witnessed' = witnessed
        \/ witnessed' = [witnessed EXCEPT ![s] = {native}]
        \/ witnessed' = [witnessed EXCEPT ![s] = {}]
    BY DEF SessionStep, Acquire, AcquireRefused, AcquireFault, Load, Collect, Verify, ReadFault, Guard,
       Install, CreateFault, Tidy, Reload, DurableFault, Release, ReleaseFault, Crash, ResetOp, opVars
  <2> QED
    BY <2>1, <2>2 DEF TypeOK, Typed
<1> QED
  BY <1>1, <1>2, <1>3, <1>4, <1>5, <1>6, <1>7, <1>8, <1>9, TypeOfFiles DEF TypeOK

LEMMA TypeOfOthers ==
  ASSUME Typed, TypeOK,
         (\E x \in Source : Edit(x)) \/ Surrounding \/ UNCHANGED vars
  PROVE  TypeOK'
<1>1. ASSUME NEW x \in Source, Edit(x) PROVE TypeOK'
  <2>1. edits' \in 0 .. MaxEdits /\ edits' = edits + 1
    BY <1>1, ManifestAssumption DEF Edit, TypeOK
  <2>2. native' \in Content
    <3>1. native' \in [Source -> Nat] /\ \A y \in Source : native'[y] <= edits' + 1
      BY <1>1, EditWrites
    <3>2. \A y \in Source : native'[y] \in Version
      BY <2>1, <3>1, ManifestAssumption DEF Version
    <3> QED
      BY <3>1, <3>2 DEF Content
  <2>3. \A s \in Session : witnessed'[s] \subseteq Content
    BY <1>1, <2>2 DEF Edit, Witness, TypeOK
  <2> QED
    BY <1>1, <2>1, <2>2, <2>3 DEF Edit, diskVars, TypeOK
<1>2. CASE Surrounding
  <2>1. ASSUME NEW n \in DOMAIN log, RemoveRevision(n) PROVE TypeOK'
    <3>1. removals' \in 0 .. MaxRemovals
      BY <2>1, ManifestAssumption DEF RemoveRevision, TypeOK
    <3> QED
      BY <2>1, <3>1 DEF RemoveRevision, opVars, TypeOK
  <2>2. CASE OperatorCleans
    BY <2>2 DEF OperatorCleans, opVars, worldVars, TypeOK
  <2> QED
    BY <1>2, <2>1, <2>2 DEF Surrounding
<1>3. CASE UNCHANGED vars
  BY <1>3 DEF vars, TypeOK
<1> QED
  BY <1>1, <1>2, <1>3

-----------------------------------------------------------------------------
(* The directory: what is left in it is reported. *)

LEMMA AccountedStep ==
  ASSUME Typed, TypeOK, LockExcludes, Accounted, [Next]_vars
  PROVE  Accounted'
<1>1. pc \in [Session -> Step] /\ NoOne \notin Session /\ Stale \notin Session /\ NoOne # Stale
  BY ManifestAssumption DEF TypeOK
<1>2. ASSUME NEW s \in Session, SessionStep(s) PROVE Accounted'
  <2>1. CASE (\E force \in BOOLEAN : Acquire(s, force)) \/ AcquireRefused(s) \/ AcquireFault(s)
    BY <1>1, <2>1 DEF Accounted, Active, Acquire, AcquireRefused, AcquireFault, Goto, diskVars
  <2>2. CASE Load(s) \/ Collect(s) \/ Verify(s) \/ ReadFault(s) \/ Reload(s)
    BY <1>1, <2>2 DEF Accounted, Active, Load, Collect, Verify, ReadFault, Reload, Conclude, Goto, diskVars
  <2>3. CASE Guard(s) \/ Install(s) \/ Tidy(s)
    BY <1>1, <2>3 DEF Accounted, Active, Guard, Install, Tidy, Goto
  <2>4. CASE CreateFault(s) \/ DurableFault(s)
    BY <1>1, <2>4 DEF Accounted, Active, CreateFault, DurableFault, Conclude, Goto, TypeOK
  <2>5. CASE Release(s) \/ ReleaseFault(s) \/ Crash(s)
    BY <1>1, <2>5 DEF Accounted, Active, Release, ReleaseFault, Crash, Goto, diskVars
  <2> QED
    BY <1>2, <2>1, <2>2, <2>3, <2>4, <2>5 DEF SessionStep
<1>3. ASSUME NEW x \in Source, Edit(x) PROVE Accounted'
  BY <1>3 DEF Edit, diskVars, Accounted, Active
<1>4. CASE Surrounding
  <2>1. ASSUME NEW n \in DOMAIN log, RemoveRevision(n) PROVE Accounted'
    BY <2>1 DEF RemoveRevision, Accounted, Active
  <2>2. CASE OperatorCleans
    BY <1>1, <2>2 DEF OperatorCleans, Accounted, Active
  <2> QED
    BY <1>4, <2>1, <2>2 DEF Surrounding
<1>5. CASE UNCHANGED vars
  BY <1>5 DEF vars, Accounted, Active
<1> QED
  BY <1>2, <1>3, <1>4, <1>5, NextSplit

-----------------------------------------------------------------------------
(* Sessions. *)

\* A step of s changes nothing that another session remembers; and installs
\* nothing under one that is inside the lock.
LEMMA MemoryOfOthers ==
  ASSUME JInv, Typed, LockExcludes, NEW s \in Session, SessionStep(s), NEW t \in Session, t # s
  PROVE  /\ pc'[t] = pc[t] /\ past'[t] = past[t] /\ context'[t] = context[t]
         /\ republish'[t] = republish[t]
         /\ mine'[t] = mine[t] /\ outcome'[t] = outcome[t] /\ result'[t] = result[t]
         /\ pc[t] # "idle" => log' = log
<1> USE DEF JInv, TypeOK
<1>1. pc'[t] = pc[t] /\ outcome'[t] = outcome[t]
  BY DEF SessionStep, Acquire, AcquireRefused, AcquireFault, Load, Collect, Verify, ReadFault,
     Guard, Install, CreateFault, Tidy, Reload, DurableFault, Release, ReleaseFault, Crash,
     Goto, Conclude, ResetOp, opVars
<1>2. past'[t] = past[t] /\ context'[t] = context[t]
  BY DEF SessionStep, Acquire, AcquireRefused, AcquireFault, Load, Collect, Verify, ReadFault,
     Guard, Install, CreateFault, Tidy, Reload, DurableFault, Release, ReleaseFault, Crash,
     Goto, Conclude, ResetOp, opVars
<1>3. republish'[t] = republish[t] /\ mine'[t] = mine[t] /\ result'[t] = result[t]
  BY DEF SessionStep, Acquire, AcquireRefused, AcquireFault, Load, Collect, Verify, ReadFault,
     Guard, Install, CreateFault, Tidy, Reload, DurableFault, Release, ReleaseFault, Crash,
     Goto, Conclude, ResetOp, opVars
<1>4. ASSUME pc[t] # "idle" PROVE log' = log
  <2>1. ~ Install(s)
    <3>1. lock = t
      BY <1>4 DEF LockExcludes, Active
    <3>2. Install(s) => lock = s
      BY DEF LockExcludes, Active, Install
    <3> QED
      BY <3>1, <3>2
  <2> QED
    BY <2>1, FilesOfStep
<1> QED
  BY <1>1, <1>2, <1>3, <1>4

LEMMA PlannedOther ==
  ASSUME JInv, Typed, LockExcludes, NEW s \in Session, SessionStep(s), NEW t \in Session, t # s
  PROVE  Planned(t)' /\ Told(t)'
<1>1. Planned(t) /\ Told(t)
  BY DEF JInv
<1>2. consumed \subseteq consumed'
  BY TypeOfFiles DEF JInv
<1>3. Planned(t)'
  <2>1. CASE pc[t] = "idle"
    BY <2>1, MemoryOfOthers DEF Planned, Holding
  <2>2. CASE pc[t] # "idle"
    <3>1. log' = log /\ PlanOf(t)' = PlanOf(t)
      BY <2>2, MemoryOfOthers DEF PlanOf
    <3> QED
      BY <1>1, <3>1, MemoryOfOthers DEF Planned
  <2> QED
    BY <2>1, <2>2
<1>4. Told(t)'
  BY <1>1, <1>2, MemoryOfOthers DEF Told, Ended
<1> QED
  BY <1>3, <1>4

LEMMA PlannedOwn ==
  ASSUME JInv, Typed, LockExcludes, NEW s \in Session, SessionStep(s)
  PROVE  Planned(s)'
<1>1. Planned(s) /\ TypeOK /\ pc \in [Session -> Step] /\ DOMAIN past = Session
  BY DEF JInv, TypeOK
<1>2. ASSUME pc'[s] \notin {"load", "collect", "verify", "guard", "install"} PROVE Planned(s)'
  BY <1>2 DEF Planned, Holding
<1>3. ASSUME NEW force \in BOOLEAN, Acquire(s, force) PROVE Planned(s)'
  <2>1. pc'[s] = "load" /\ log' = log /\ Highest(log) < MaxRevisions
    BY <1>1, <1>3 DEF Acquire, Goto, diskVars
  <2> QED
    BY <2>1 DEF Planned, Holding
<1>4. CASE Load(s)
  <2>1. CASE litter
    BY <1>1, <1>2, <1>4, <2>1 DEF Load, Conclude, Goto
  <2>2. CASE ~litter
    <3>1. pc'[s] = "collect" /\ past'[s] = log /\ log' = log /\ Highest(log) < MaxRevisions
      BY <1>1, <1>4, <2>2 DEF Load, Goto, diskVars, Planned
    <3> QED
      BY <3>1 DEF Planned, Holding
  <2> QED
    BY <2>1, <2>2
<1>5. CASE Collect(s)
  <2>1. past' = past /\ log' = log /\ republish' = republish /\ past[s] = log /\ Highest(log) < MaxRevisions
    BY <1>1, <1>5 DEF Collect, diskVars, Planned, Holding
  <2>2. \/ pc'[s] = "collect"
        \/ pc'[s] = "release"
        \/ pc'[s] = "verify" /\ PlanOf(s)' # "invalid"
    <3>1. CASE at[s] < NStudents
      BY <1>5, <3>1 DEF Collect
    <3>2. CASE ~(at[s] < NStudents)
      BY <1>1, <1>5, <2>1, <3>2 DEF Collect, Conclude, Goto, PlanOf
    <3> QED
      BY <3>1, <3>2
  <2> QED
    BY <2>1, <2>2 DEF Planned, Holding
<1>6. CASE Verify(s)
  <2>1. /\ past' = past /\ log' = log /\ republish' = republish /\ context' = context
        /\ past[s] = log /\ Highest(log) < MaxRevisions /\ PlanOf(s) # "invalid"
    BY <1>1, <1>6 DEF Verify, diskVars, Planned, Holding
  <2>2. PlanOf(s)' = PlanOf(s)
    BY <2>1 DEF PlanOf
  <2>3. \/ pc'[s] = "verify"
        \/ pc'[s] = "release"
        \/ pc'[s] = "guard" /\ PlanOf(s) # "exact_replay"
    BY <1>1, <1>6 DEF Verify, Conclude, Goto
  <2> QED
    BY <2>1, <2>2, <2>3 DEF Planned, Holding
<1>7. CASE Guard(s)
  <2>1. past' = past /\ log' = log /\ republish' = republish /\ context' = context
        /\ pc[s] = "guard" /\ pc'[s] = "install"
    BY <1>1, <1>7 DEF Guard, opVars, Goto
  <2>2. PlanOf(s)' = PlanOf(s)
    BY <2>1 DEF PlanOf
  <2> QED
    BY <1>1, <2>1, <2>2 DEF Planned, Holding
<1>8. CASE AcquireRefused(s) \/ AcquireFault(s)
  BY <1>2, <1>8 DEF AcquireRefused, AcquireFault, Active
<1>9. CASE ReadFault(s) \/ Install(s) \/ CreateFault(s) \/ Tidy(s) \/ Reload(s) \/ DurableFault(s)
           \/ Release(s) \/ ReleaseFault(s) \/ Crash(s)
  <2>1. pc'[s] \in {"tidy", "reload", "release", "idle"}
    BY <1>1, <1>9 DEF ReadFault, Install, CreateFault, Tidy, Reload, DurableFault, Release,
       ReleaseFault, Crash, Conclude, Goto
  <2> QED
    BY <1>2, <2>1
<1> QED
  BY <1>3, <1>4, <1>5, <1>6, <1>7, <1>8, <1>9 DEF SessionStep

LEMMA ToldOwn ==
  ASSUME JInv, Typed, LockExcludes, NEW s \in Session, SessionStep(s)
  PROVE  Told(s)'
<1> DEFINE Same == past'[s] = past[s] /\ context'[s] = context[s]
<1>1. /\ Told(s) /\ Planned(s) /\ TypeOK /\ DOMAIN past = Session
      /\ pc \in [Session -> Step] /\ DOMAIN outcome = Session /\ DOMAIN result = Session
      /\ DOMAIN mine = Session
  BY DEF JInv, TypeOK
<1>2. consumed \subseteq consumed'
  BY TypeOfFiles DEF JInv
<1>3. CASE (\E force \in BOOLEAN : Acquire(s, force)) \/ AcquireRefused(s) \/ AcquireFault(s)
  <2>1. /\ mine'[s] = 0 /\ outcome'[s] = "none"
        /\ \/ pc'[s] = "load" /\ result'[s] = "none"
           \/ pc'[s] = "idle" /\ result'[s] \in {"conflict", "failed"}
    BY <1>1, <1>3 DEF Acquire, AcquireRefused, AcquireFault, ResetOp, Goto, Active
  <2> QED
    BY <2>1 DEF Told, Ended
<1>4. CASE Load(s) \/ Collect(s) \/ ReadFault(s) \/ Guard(s) \/ CreateFault(s)
  <2>1. /\ mine'[s] = 0 /\ result'[s] = result[s]
        /\ \/ pc'[s] \in Planning /\ outcome'[s] = "none"
           \/ pc'[s] = "release" /\ outcome'[s] \in {"failed", "conflict"}
    BY <1>1, <1>4 DEF Load, Collect, ReadFault, Guard, CreateFault, opVars, Conclude, Goto,
       Told, Planning
  <2> QED
    BY <1>1, <1>4, <2>1
    DEF Told, Ended, Planning, Load, Collect, ReadFault, Guard, CreateFault
<1>5. CASE Verify(s)
  <2>1. /\ mine'[s] = 0 /\ result'[s] = "none" /\ past' = past /\ context' = context
        /\ \/ pc'[s] \in Planning /\ outcome'[s] = "none"
           \/ pc'[s] = "release" /\ outcome'[s] = "conflict"
           \/ pc'[s] = "release" /\ outcome'[s] = "replayed" /\ PlanOf(s) = "exact_replay"
    BY <1>1, <1>5 DEF Verify, Conclude, Goto, Told, Planning
  <2>2. ASSUME PlanOf(s) = "exact_replay" PROVE past[s][Highest(past[s])] = context[s]
    <3>1. past[s] = log /\ Bounded(log) /\ republish[s] \in BOOLEAN
      BY <1>1, <1>5 DEF Verify, Planned, Holding, TypeOK, Bounded
    <3> QED
      BY <2>2, <3>1, PlanSays DEF PlanOf
  <2> QED
    BY <2>1, <2>2 DEF Told, Ended, Planning
<1>6. CASE Install(s)
  <2>1. /\ pc'[s] = "tidy" /\ mine'[s] \in consumed' /\ outcome'[s] = "none" /\ result'[s] = "none"
    BY <1>1, <1>6 DEF Install, Goto, Told, Planning
  <2> QED
    BY <2>1 DEF Told, Ended, Planning
<1>7. CASE Tidy(s) \/ Reload(s) \/ DurableFault(s)
  <2>1. /\ mine'[s] \in consumed' /\ result'[s] = "none" /\ past' = past /\ context' = context
        /\ \/ pc'[s] = "reload" /\ outcome' = outcome
           \/ pc'[s] = "release" /\ outcome'[s] \in {"created", "partial"}
    BY <1>1, <1>2, <1>7 DEF Tidy, Reload, DurableFault, opVars, Conclude, Goto, Told
  <2>2. mine' = mine
    BY <1>7 DEF Tidy, Reload, DurableFault, opVars
  <2> QED
    BY <1>1, <1>2, <2>1, <2>2 DEF Told, Ended, Planning
<1>8. CASE Release(s) \/ ReleaseFault(s) \/ Crash(s)
  <2>1. /\ mine' = mine /\ past' = past /\ context' = context /\ outcome' = outcome
        /\ consumed' = consumed /\ pc'[s] = "idle"
    BY <1>1, <1>8 DEF Release, ReleaseFault, Crash, opVars, diskVars, Goto
  <2>2. \/ result'[s] = outcome[s]
        \/ result'[s] = "partial" /\ outcome[s] = "created"
        \/ result'[s] = "failed" /\ outcome[s] = "replayed"
        \/ result'[s] = "crashed"
    BY <1>1, <1>8 DEF Release, ReleaseFault, Crash
  <2> QED
    BY <1>1, <2>1, <2>2 DEF Told, Ended, Planning
<1> QED
  BY <1>3, <1>4, <1>5, <1>6, <1>7, <1>8 DEF SessionStep

\* Teachers and those who remove files change no session; a revision is
\* removed under nobody who has loaded it.
LEMMA SessionsStand ==
  ASSUME JInv, (\E x \in Source : Edit(x)) \/ Surrounding \/ UNCHANGED vars,
         NEW s \in Session
  PROVE  Planned(s)' /\ Told(s)'
<1>1. Planned(s) /\ Told(s)
  BY DEF JInv
<1>2. /\ UNCHANGED <<pc, past, context, republish, mine, outcome, result>>
      /\ consumed' = consumed
  BY DEF Surrounding, Edit, RemoveRevision, OperatorCleans, diskVars, opVars, vars
<1>3. Told(s)'
  BY <1>1, <1>2 DEF Told, Ended
<1>4. PlanOf(s)' = PlanOf(s)
  BY <1>2 DEF PlanOf
<1>5. CASE log' = log
  BY <1>1, <1>2, <1>3, <1>4, <1>5 DEF Planned
<1>6. CASE log' # log
  <2>1. PICK n \in DOMAIN log : RemoveRevision(n)
    BY <1>6 DEF Surrounding, Edit, OperatorCleans, diskVars, vars
  <2>2. pc[s] \notin Holding
    BY <2>1 DEF RemoveRevision, Holding
  <2>3. Bounded(log) /\ Bounded(log') /\ DOMAIN log' \subseteq DOMAIN log
    BY <2>1 DEF RemoveRevision, Bounded, JInv, TypeOK
  <2>4. Highest(log') <= Highest(log)
    <3>1. /\ Highest(log) \in Nat /\ Highest(log') \in Nat
          /\ \A m \in DOMAIN log : m <= Highest(log)
          /\ Highest(log') = 0 \/ Highest(log') \in DOMAIN log'
      BY <2>3, HighestIs
    <3> QED
      BY <2>3, <3>1
  <2>5. pc[s] = "load" => Highest(log') < MaxRevisions
    <3>1. Highest(log) \in Nat /\ Highest(log') \in Nat /\ MaxRevisions \in Nat
      BY <2>3, HighestIs, ManifestAssumption
    <3> QED
      BY <1>1, <2>4, <3>1 DEF Planned
  <2>6. pc[s] \notin {"verify", "guard", "install"}
    BY <2>2 DEF Holding
  <2> QED
    BY <1>2, <1>3, <2>2, <2>5, <2>6 DEF Planned
<1> QED
  BY <1>5, <1>6

-----------------------------------------------------------------------------
(* The theorems. *)

LEMMA JInvStep == IInv /\ JInv /\ [Next]_vars => JInv'
<1> SUFFICES ASSUME IInv, JInv, [Next]_vars PROVE JInv'
  OBVIOUS
<1>1. Typed /\ LockExcludes /\ TypeOK /\ Accounted /\ DOMAIN past = Session
  BY DEF IInv, JInv
<1>2. Accounted'
  BY <1>1, AccountedStep
<1>3. ASSUME NEW s \in Session, SessionStep(s) PROVE JInv'
  <2>1. TypeOK'
    BY <1>1, <1>3, TypeOfSession DEF JInv
  <2>2. DOMAIN past' = Session
    BY <1>1, <1>3 DEF SessionStep, Acquire, AcquireRefused, AcquireFault, Load, Collect, Verify,
       ReadFault, Guard, Install, CreateFault, Tidy, Reload, DurableFault, Release, ReleaseFault,
       Crash, ResetOp, opVars
  <2>3. ASSUME NEW t \in Session PROVE Planned(t)' /\ Told(t)'
    BY <1>1, <1>3, PlannedOther, PlannedOwn, ToldOwn
  <2> QED
    BY <1>2, <2>1, <2>2, <2>3 DEF JInv
<1>4. CASE (\E x \in Source : Edit(x)) \/ Surrounding \/ UNCHANGED vars
  <2>1. past' = past
    BY <1>4 DEF Surrounding, Edit, RemoveRevision, OperatorCleans, opVars, vars
  <2> QED
    BY <1>1, <1>2, <1>4, <2>1, TypeOfOthers, SessionsStand DEF JInv
<1> QED
  BY <1>3, <1>4, NextSplit

LEMMA AlsoInductive == Spec => []JInv
BY InitJInv, JInvStep, Inductive, PTL DEF Spec

\* For any number of sessions, students, edits, removals and faults, every
\* variable keeps its type: in particular no generation installs a revision
\* above the bound it was allowed to begin under, and every installed revision is
\* recorded with a reason.
THEOREM TypeCorrect == Spec => []TypeOK
<1>1. JInv => TypeOK
  BY DEF JInv
<1> QED
  BY <1>1, AlsoInductive, PTL

\* For any number of them, callers hear what happened to the history, and what is
\* left in the directory is reported to somebody.
THEOREM AnswersAreTrue == Spec => []NothingUnsaid
<1>1. JInv => NothingUnsaid
  <2>1. JInv => TruthfulResult
    BY DEF JInv, Told, Ended, TruthfulResult
  <2>2. JInv => LeftoversReported
    <3> SUFFICES ASSUME JInv, \A s \in Session : ~Active(s), ~Readable PROVE reported
      BY DEF LeftoversReported
    <3>1. lock \notin Session
      BY DEF JInv, Accounted
    <3>2. CASE litter
      BY <3>2 DEF JInv, Accounted, Active
    <3>3. CASE ~litter
      BY <3>1, <3>3 DEF JInv, Accounted, TypeOK, Readable
    <3> QED
      BY <3>2, <3>3
  <2> QED
    BY <2>1, <2>2 DEF NothingUnsaid
<1> QED
  BY <1>1, AlsoInductive, PTL

\* The generations of any number of sessions, with their failures, are an
\* append-only log: each step installs one revision above all others, for the
\* reason its content deserves, or removes one by hand, or changes nothing of it.
THEOREM GenerationsAreALog == Spec => ImplementsLog
<1>1. Init => Log!Init
  BY DEF Init, Log!Init
<1>2. JInv /\ [Next]_vars => [Log!Next]_<<log, reasons>>
  <2> SUFFICES ASSUME JInv, [Next]_vars, ~ UNCHANGED <<log, reasons>> PROVE Log!Next
    OBVIOUS
  <2>1. ASSUME NEW s \in Session, SessionStep(s) PROVE Log!Next
    <3> DEFINE n == NextRevision(log)
    <3>1. Install(s)
      BY <2>1, FilesOfStep
    <3>2. /\ past[s] = log /\ n \in 1 .. MaxRevisions /\ \A m \in DOMAIN log : m < n
          /\ PlanOf(s) \in Log!Reason /\ Log!Explains(PlanOf(s), context[s])
          /\ context[s] \in Content
      BY <3>1, InstallsNext DEF JInv, Install, TypeOK
    <3>3. /\ log' = [m \in DOMAIN log \cup {n} |-> IF m = n THEN context[s] ELSE log[m]]
          /\ reasons' = [m \in DOMAIN reasons \cup {n} |-> IF m = n THEN PlanOf(s) ELSE reasons[m]]
      BY <3>1, <3>2 DEF Install
    <3>4. DOMAIN reasons = DOMAIN log
      BY DEF JInv, TypeOK
    <3>5. Log!Add(n, context[s])
      BY <3>2, <3>3, <3>4 DEF Log!Add
    <3> HIDE DEF n
    <3> QED
      BY <3>2, <3>5 DEF Log!Next, Log!Revision
  <2>2. ASSUME NEW n \in DOMAIN log, RemoveRevision(n) PROVE Log!Next
    BY <2>2 DEF RemoveRevision, Log!Next, Log!Remove
  <2>3. ASSUME NEW x \in Source, Edit(x) PROVE FALSE
    BY <2>3 DEF Edit, diskVars
  <2>4. ~ OperatorCleans /\ ~ UNCHANGED vars
    BY DEF OperatorCleans, vars
  <2> QED
    BY <2>1, <2>2, <2>3, <2>4, NextSplit DEF Surrounding
<1> QED
  BY <1>1, <1>2, AlsoInductive, PTL DEF Spec, ImplementsLog, Log!Spec, Log!logVars
=============================================================================
