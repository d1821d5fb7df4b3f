----------------------------- MODULE PaperProofs -----------------------------
(***************************************************************************)
(* Theorems about the two components of MCPaper, for any number of         *)
(* students, sessions, generations, pages and renderings and any bound on  *)
(* faults: what is printed can be scanned, and what was scanned stands.    *)
(***************************************************************************)
EXTENDS MCPaper, SequenceTheorems, FiniteSetTheorems, TLAPS

(***************************************************************************)
(* The packet.                                                             *)
(***************************************************************************)
\* A session that generates nothing, one whose packet is not installed yet, one whose
\* packet is, and one that takes its issuances back.
Outside == {"idle", "planned"}
Building == {"records", "routes", "render", "issue", "issue_write", "install_check", "install"}
Closing == {"supersede", "supersede_write"}
Undoing == {"compensate", "compensate_write"}

\* What an issuance, once issued, may be; what one that was replaced is replaced by.
Settled == {"issued"} \cup G!Terminal
Valid == {"issued", "superseded"}

\* Generations are numbered apart, and nothing exists of those to come.
Numbered ==
  /\ \A s \in Session : gen[s] <= allocated /\ (pc[s] \notin Outside => gen[s] # 0)
  /\ \A s, t \in Session : s # t /\ gen[s] = gen[t] => gen[s] = 0
  /\ \A i \in G!Issuance : status[i] # "none" \/ i \in routed => i[1] <= allocated
  /\ output <= allocated

\* What a session has written at its stage.
Built(s) ==
  /\ pc[s] = "records" =>
       /\ made[s] = at[s] - 1
       /\ \A st \in G!Student :
            /\ status[<<gen[s], st>>] = IF st < at[s] THEN "prepared" ELSE "none"
            /\ <<gen[s], st>> \notin routed
  /\ pc[s] \in {"render", "install_check", "install"} => at[s] = 1
  /\ pc[s] \in {"routes", "render"} => \A st \in G!Student : status[<<gen[s], st>>] = "prepared"
  /\ pc[s] = "routes" =>
       /\ made[s] = NStudents
       /\ \A st \in G!Student : st < at[s] => <<gen[s], st>> \in routed
  /\ pc[s] \in {"issue", "issue_write"} =>
       \A st \in G!Student :
         IF st < at[s] THEN status[<<gen[s], st>>] \in Valid ELSE status[<<gen[s], st>>] = "prepared"
  /\ pc[s] \in (Building \ {"records", "routes"}) \cup Closing =>
       made[s] = NStudents /\ \A st \in G!Student : <<gen[s], st>> \in routed
  /\ pc[s] \in {"install_check", "install"} \cup Closing =>
       \A st \in G!Student : status[<<gen[s], st>>] \in Valid

\* The issuances a session planned to replace were issued.
Foreseen(s) ==
  \A st \in G!Student :
    LET g == plan[s].preds[st]
    IN  g # 0 => /\ status[<<g, st>>] \in Settled /\ <<g, st>> \in routed
                 /\ g <= allocated /\ (pc[s] \notin Outside => g < gen[s])

\* Of those before a student all are closed.
Closed(s, n) ==
  \A st \in G!Student :
    st < n /\ plan[s].preds[st] # 0 => status[<<plan[s].preds[st], st>>] \in G!Terminal
Replaced(s) ==
  /\ pc[s] \in Closing =>
       result[s] \in {"installed", "partial"} /\ (result[s] = "installed" => Closed(s, at[s]))
  /\ pc[s] = "supersede_write" => plan[s].preds[at[s]] # 0
  /\ pc[s] = "idle" /\ result[s] = "installed" => Closed(s, NStudents + 1)

\* What compensation has passed, and what was never persisted, is not live.
Undone(s) ==
  /\ terminal[s] \in {"cancelled", "invalidated"}
  /\ pc[s] \in Undoing =>
       /\ at[s] <= made[s] /\ result[s] \in {"failed", "failed_warned"}
       /\ terminal[s] = "cancelled" => \A st \in G!Student : <<gen[s], st>> \notin routed
       /\ result[s] = "failed" =>
            \A st \in G!Student : st < at[s] \/ st > made[s] => status[<<gen[s], st>>] \notin G!Live
  /\ pc[s] = "idle" /\ result[s] = "failed" =>
       gen[s] # 0 /\ \A st \in G!Student : status[<<gen[s], st>>] \notin G!Live

\* What replaced an issuance is not taken back.
Lineage ==
  \A i \in G!Issuance : status[i] = "superseded" =>
    /\ replacedBy[i] > i[1] /\ status[<<replacedBy[i], i[2]>>] \in Valid
    /\ \A t \in Session : gen[t] = replacedBy[i] => pc[t] \in Outside \cup Closing

\* The packet of the only session that generated is at the output path from its
\* installation on, and is issued.
Solo == \A s, t \in Session : gen[s] # 0 /\ gen[t] # 0 => s = t
Single ==
  Solo =>
    /\ G!OutputIsIssued
    /\ \A s \in Session :
         /\ gen[s] # 0 => gen[s] = allocated
         /\ pc[s] \in Closing => output = gen[s]
         /\ pc[s] \in Building \cup Undoing => output # gen[s]

PacketInv ==
  /\ G!TypeOK /\ Numbered /\ G!IssuedIsRouted /\ G!CancelledHasNoRoute /\ Lineage /\ Single
  /\ \A s \in Session : Built(s) /\ Foreseen(s) /\ Replaced(s) /\ Undone(s)
  /\ IsFiniteSet({s \in Session : gen[s] # 0})

Parameters ==
  NStudents \in Nat \ {0} /\ MaxGen \in Nat /\ MaxEdits \in Nat /\ MaxFaults \in Nat

-----------------------------------------------------------------------------
(* The types, and what a step of one session leaves to the others.         *)

PlanRecord == [preds : [G!Student -> 0 .. MaxGen], output : 0 .. MaxGen, source : 0 .. MaxEdits]

(* The turn goes to the next student, or the stage to the next.            *)
LEMMA AdvanceMoves ==
  ASSUME Parameters, G!TypeOK, NEW s \in Session, NEW step \in G!Step, NEW next \in G!Step,
         NEW last \in 0 .. NStudents, G!Advance(s, step, last, next)
  PROVE  /\ pc' \in [Session -> G!Step] /\ at' \in [Session -> G!Student]
         /\ \A t \in Session \ {s} : pc'[t] = pc[t] /\ at'[t] = at[t]
         /\ IF at[s] < last THEN pc'[s] = step /\ at'[s] = at[s] + 1
                            ELSE pc'[s] = next /\ at'[s] = 1
<1>1. pc \in [Session -> G!Step] /\ at \in [Session -> G!Student] /\ at[s] \in Nat
      /\ G!Student = 1 .. NStudents /\ NStudents \in Nat /\ 1 \in G!Student
  BY DEF G!TypeOK, G!Student, Parameters
<1>2. CASE at[s] < last
  <2>1. at[s] + 1 \in G!Student
    BY <1>1, <1>2
  <2> QED
    BY <1>1, <1>2, <2>1 DEF G!Advance, G!Goto
<1>3. CASE ~ (at[s] < last)
  BY <1>1, <1>3 DEF G!Advance, G!Goto
<1> QED
  BY <1>2, <1>3

(* A failed generation takes back what it persisted, or ends.              *)
LEMMA FailMoves ==
  ASSUME Parameters, G!TypeOK, NEW s \in Session, G!Fail(s)
  PROVE  /\ pc' \in [Session -> G!Step] /\ at' \in [Session -> G!Student]
         /\ terminal' \in [Session -> G!Terminal] /\ result' \in [Session -> G!Result]
         /\ \A t \in Session \ {s} :
              pc'[t] = pc[t] /\ at'[t] = at[t] /\ terminal'[t] = terminal[t] /\ result'[t] = result[t]
         /\ result'[s] = "failed" /\ terminal'[s] \in {"cancelled", "invalidated"}
         /\ IF made[s] = 0 THEN pc'[s] = "idle" ELSE pc'[s] = "compensate" /\ at'[s] = 1
         /\ terminal'[s] = "cancelled" =>
              pc[s] \notin Building \ {"records", "routes"}
              /\ (pc[s] = "routes" => \A st \in G!Student : <<gen[s], st>> \notin routed')
<1>1. /\ pc \in [Session -> G!Step] /\ at \in [Session -> G!Student] /\ 1 \in G!Student
      /\ terminal \in [Session -> G!Terminal] /\ result \in [Session -> G!Result]
  BY DEF G!TypeOK, G!Student, Parameters
<1>2. /\ "idle" \in G!Step /\ "compensate" \in G!Step /\ "failed" \in G!Result
      /\ "cancelled" \in G!Terminal /\ "invalidated" \in G!Terminal
  BY DEF G!Step, G!Result, G!Terminal
<1>3. /\ terminal' \in [Session -> G!Terminal]
      /\ \A t \in Session \ {s} : terminal'[t] = terminal[t]
      /\ terminal'[s] \in {"cancelled", "invalidated"}
      /\ terminal'[s] = "cancelled" =>
              pc[s] \notin Building \ {"records", "routes"}
              /\ (pc[s] = "routes" => \A st \in G!Student : <<gen[s], st>> \notin routed')
  BY <1>1, <1>2 DEF G!Fail, Building
<1>4. /\ pc' \in [Session -> G!Step] /\ at' \in [Session -> G!Student] /\ result' \in [Session -> G!Result]
      /\ \A t \in Session \ {s} : pc'[t] = pc[t] /\ at'[t] = at[t] /\ result'[t] = result[t]
      /\ result'[s] = "failed"
      /\ IF made[s] = 0 THEN pc'[s] = "idle" ELSE pc'[s] = "compensate" /\ at'[s] = 1
  BY <1>1, <1>2 DEF G!Fail, G!End, G!Goto
<1> QED
  BY <1>3, <1>4

LEMMA SnapshotTyped ==
  ASSUME Parameters, G!TypeOK
  PROVE  G!Snapshot \in PlanRecord /\ G!Snapshot.preds = G!Predecessors
<1>1. ASSUME NEW st \in G!Student PROVE G!Predecessors[st] \in 0 .. MaxGen
  <2>1. \A g \in G!Issued(st) : g \in 0 .. MaxGen
    BY DEF G!Issued, G!Gen, Parameters
  <2>2. 0 \in 0 .. MaxGen
    BY DEF Parameters
  <2> QED
    BY <2>1, <2>2 DEF G!Predecessors
<1>2. G!Predecessors \in [G!Student -> 0 .. MaxGen]
  BY <1>1 DEF G!Predecessors
<1> QED
  BY <1>2 DEF G!Snapshot, PlanRecord, G!TypeOK

LEMMA FaultsBounded ==
  ASSUME Parameters, G!TypeOK, G!Fault
  PROVE  faults' \in 0 .. MaxFaults
BY DEF G!Fault, G!TypeOK, Parameters

\* What each session has of its own.
Others(s) ==
  \A t \in Session \ {s} :
    /\ pc'[t] = pc[t] /\ gen'[t] = gen[t] /\ plan'[t] = plan[t] /\ at'[t] = at[t]
    /\ made'[t] = made[t] /\ terminal'[t] = terminal[t] /\ result'[t] = result[t]

\* The issuance whose turn it is, and its predecessor, are issuances.
LEMMA MineIsIssuance ==
  ASSUME Parameters, G!TypeOK, Numbered, NEW s \in Session
  PROVE  /\ pc[s] \notin Outside => G!Mine(s) \in G!Issuance
         /\ plan[s].preds[at[s]] # 0 => G!Predecessor(s) \in G!Issuance
<1>1. at[s] \in G!Student /\ gen[s] \in 0 .. MaxGen /\ plan[s] \in PlanRecord
  BY DEF G!TypeOK, PlanRecord
<1>2. pc[s] \notin Outside => gen[s] \in G!Gen
  BY <1>1 DEF Numbered, G!Gen, Parameters
<1>3. plan[s].preds[at[s]] \in 0 .. MaxGen
  BY <1>1 DEF PlanRecord
<1>4. plan[s].preds[at[s]] # 0 => plan[s].preds[at[s]] \in G!Gen
  BY <1>3 DEF G!Gen, Parameters
<1> QED
  BY <1>1, <1>2, <1>4 DEF G!Mine, G!Predecessor, G!Issuance

(* A step that moves one session on and writes some of the records.        *)
LEMMA MoveTyped ==
  ASSUME Parameters, G!TypeOK, NEW s \in Session,
         pc' \in [Session -> G!Step], at' \in [Session -> G!Student],
         terminal' \in [Session -> G!Terminal], result' \in [Session -> G!Result],
         \A t \in Session \ {s} :
           pc'[t] = pc[t] /\ at'[t] = at[t] /\ terminal'[t] = terminal[t] /\ result'[t] = result[t],
         status' \in [G!Issuance -> G!Status], replacedBy' \in [G!Issuance -> 0 .. MaxGen],
         routed' \subseteq G!Issuance, output' \in 0 .. MaxGen,
         litter' \in BOOLEAN, faults' \in 0 .. MaxFaults,
         UNCHANGED <<source, allocated, gen, plan, made>>
  PROVE  G!TypeOK' /\ Others(s)
BY DEF G!TypeOK, Others

LEMMA SessionVariables ==
  ASSUME G!TypeOK
  PROVE  /\ pc \in [Session -> G!Step] /\ at \in [Session -> G!Student]
         /\ terminal \in [Session -> G!Terminal] /\ result \in [Session -> G!Result]
         /\ gen \in [Session -> 0 .. MaxGen] /\ made \in [Session -> 0 .. NStudents]
         /\ plan \in [Session -> PlanRecord]
         /\ status \in [G!Issuance -> G!Status] /\ replacedBy \in [G!Issuance -> 0 .. MaxGen]
         /\ routed \subseteq G!Issuance /\ output \in 0 .. MaxGen /\ allocated \in 0 .. MaxGen
         /\ litter \in BOOLEAN /\ faults \in 0 .. MaxFaults
BY DEF G!TypeOK, PlanRecord

\* Steps that write no record and move one session on.
Quiet(s) ==
  G!Decline(s) \/ G!Render(s) \/ G!IssueCheck(s) \/ G!InstallCheck(s) \/ G!SupersedeCheck(s) \/ G!CompensateCheck(s)

LEMMA QuietTyped ==
  ASSUME Parameters, G!TypeOK, NEW s \in Session, Quiet(s)
  PROVE  G!TypeOK' /\ Others(s)
<1>0. /\ pc \in [Session -> G!Step] /\ at \in [Session -> G!Student]
      /\ terminal \in [Session -> G!Terminal] /\ result \in [Session -> G!Result]
      /\ made[s] \in 0 .. NStudents /\ NStudents \in 0 .. NStudents
      /\ {"idle", "planned", "issue", "issue_write", "install", "supersede", "supersede_write",
          "compensate", "compensate_write"} \subseteq G!Step
      /\ {"none", "partial"} \subseteq G!Result
  BY SessionVariables DEF G!Step, G!Writing, G!Result, Parameters
<1>w. UNCHANGED G!worldVars /\ UNCHANGED <<gen, plan, made, faults>>
  BY DEF Quiet, G!Decline, G!Render, G!IssueCheck, G!InstallCheck, G!SupersedeCheck,
       G!CompensateCheck
<1>t. ASSUME pc' \in [Session -> G!Step], at' \in [Session -> G!Student],
             terminal' \in [Session -> G!Terminal], result' \in [Session -> G!Result],
             \A t \in Session \ {s} :
               pc'[t] = pc[t] /\ at'[t] = at[t] /\ terminal'[t] = terminal[t] /\ result'[t] = result[t]
      PROVE  G!TypeOK' /\ Others(s)
  BY <1>w, <1>t, MoveTyped, SessionVariables DEF G!worldVars
<1>1. CASE G!Decline(s)
  BY <1>0, <1>1, <1>t DEF G!Decline, G!End, G!Goto
<1>2. CASE G!Render(s) \/ G!IssueCheck(s)
  BY <1>0, <1>2, <1>t DEF G!Render, G!IssueCheck, G!Goto
<1>3. CASE G!InstallCheck(s)
  <2>1. CASE output = plan[s].output /\ G!Goto(s, "install") /\ UNCHANGED <<terminal, at, result>>
    BY <1>0, <2>1, <1>t DEF G!Goto
  <2>2. CASE G!Fail(s)
    BY <2>2, <1>t, FailMoves
  <2> QED
    BY <1>3, <2>1, <2>2 DEF G!InstallCheck
<1>n. ASSUME NEW r \in G!Result, G!SupersedeNext(s, r)
      PROVE  /\ pc' \in [Session -> G!Step] /\ at' \in [Session -> G!Student] /\ result' \in [Session -> G!Result]
             /\ \A t \in Session \ {s} : pc'[t] = pc[t] /\ at'[t] = at[t] /\ result'[t] = result[t]
  BY <1>0, <1>n, AdvanceMoves DEF G!SupersedeNext
<1>4. CASE G!SupersedeCheck(s)
  <2>0. terminal' = terminal
    BY <1>4 DEF G!SupersedeCheck
  <2>1. CASE \E r \in G!Result : G!SupersedeNext(s, r)
    BY <1>0, <2>0, <2>1, <1>n, <1>t
  <2>2. CASE G!Goto(s, "supersede_write") /\ UNCHANGED <<at, result>>
    BY <1>0, <2>0, <2>2, <1>t DEF G!Goto
  <2>3. result[s] \in G!Result /\ "partial" \in G!Result
    BY <1>0
  <2> QED
    BY <1>4, <2>1, <2>2, <2>3 DEF G!SupersedeCheck
<1>5. CASE G!CompensateCheck(s)
  <2>0. terminal' = terminal /\ result' = result
    BY <1>5 DEF G!CompensateCheck
  <2>1. CASE G!Advance(s, "compensate", made[s], "idle")
    BY <1>0, <2>0, <2>1, <1>t, AdvanceMoves
  <2>2. CASE G!Goto(s, "compensate_write") /\ UNCHANGED at
    BY <1>0, <2>0, <2>2, <1>t DEF G!Goto
  <2> QED
    BY <1>5, <2>1, <2>2 DEF G!CompensateCheck
<1> QED
  BY <1>1, <1>2, <1>3, <1>4, <1>5 DEF Quiet

\* Steps that write records, register routes or install the packet.
Writes(s) ==
  \/ G!WriteRecords(s) \/ G!WriteRoutes(s) \/ G!IssueWrite(s) \/ G!Install(s) \/ G!SupersedeWrite(s)
  \/ G!CompensateWrite(s)

LEMMA WritesTyped ==
  ASSUME Parameters, G!TypeOK, Numbered, NEW s \in Session, Writes(s)
  PROVE  G!TypeOK' /\ Others(s)
<1>0. /\ pc \in [Session -> G!Step] /\ at \in [Session -> G!Student]
      /\ terminal \in [Session -> G!Terminal] /\ result \in [Session -> G!Result]
      /\ gen \in [Session -> 0 .. MaxGen]
      /\ made \in [Session -> 0 .. NStudents] /\ NStudents \in 0 .. NStudents
      /\ status \in [G!Issuance -> G!Status] /\ replacedBy \in [G!Issuance -> 0 .. MaxGen]
      /\ routed \subseteq G!Issuance /\ output \in 0 .. MaxGen /\ litter \in BOOLEAN
      /\ faults \in 0 .. MaxFaults
      /\ {"idle", "records", "routes", "render", "issue", "install_check", "supersede",
          "compensate"} \subseteq G!Step
      /\ "installed" \in G!Result /\ G!Terminal \cup {"prepared", "issued"} \subseteq G!Status
      /\ "superseded" \in G!Terminal /\ 0 \in 0 .. MaxGen
      /\ G!Student \subseteq 0 .. NStudents
  BY SessionVariables DEF G!Step, G!Writing, G!Result, Parameters, G!Status, G!Terminal, G!Live,
       G!Student
<1>w. UNCHANGED <<source, allocated, gen, plan, litter, faults>>
  BY DEF Writes, G!WriteRecords, G!WriteRoutes, G!IssueWrite, G!Install, G!SupersedeWrite,
       G!CompensateWrite
<1>m. pc[s] \notin Outside => G!Mine(s) \in G!Issuance
  BY MineIsIssuance
<1>1. CASE G!WriteRecords(s)
  <2>0. UNCHANGED <<replacedBy, routed, output>>
    BY <1>1 DEF G!WriteRecords
  <2>1. CASE /\ status' = [status EXCEPT ![G!Mine(s)] = "prepared"]
             /\ made' = [made EXCEPT ![s] = at[s]]
             /\ G!Advance(s, "records", NStudents, "routes")
             /\ UNCHANGED <<terminal, result>>
    <3>1. /\ pc' \in [Session -> G!Step] /\ at' \in [Session -> G!Student]
          /\ \A t \in Session \ {s} : pc'[t] = pc[t] /\ at'[t] = at[t]
      BY <1>0, <2>1, AdvanceMoves
    <3>2. /\ made' \in [Session -> 0 .. NStudents] /\ \A t \in Session \ {s} : made'[t] = made[t]
      BY <1>0, <2>1
    <3>3. status' \in [G!Issuance -> G!Status]
      BY <1>0, <2>1
    <3> QED
      BY <1>0, <1>w, <2>0, <2>1, <3>1, <3>2, <3>3 DEF G!TypeOK, Others
  <2>2. CASE G!Fail(s) /\ UNCHANGED <<status, made>>
    BY <1>0, <1>w, <2>0, <2>2, FailMoves, MoveTyped
  <2> QED
    BY <1>1, <2>1, <2>2 DEF G!WriteRecords
<1>2. CASE G!WriteRoutes(s)
  <2>1. routed' \subseteq G!Issuance
    BY <1>0, <1>m, <1>2 DEF G!WriteRoutes, Outside
  <2> QED
    BY <1>0, <1>w, <1>2, <2>1, AdvanceMoves, MoveTyped DEF G!WriteRoutes
<1>3. CASE G!IssueWrite(s)
  <2>1. status' \in [G!Issuance -> G!Status]
    BY <1>0, <1>3 DEF G!IssueWrite
  <2> QED
    BY <1>0, <1>w, <1>3, <2>1, AdvanceMoves, MoveTyped DEF G!IssueWrite
<1>4. CASE G!Install(s)
  <2>1. pc' \in [Session -> G!Step] /\ result' \in [Session -> G!Result] /\ output' \in 0 .. MaxGen
        /\ \A t \in Session \ {s} : pc'[t] = pc[t] /\ result'[t] = result[t]
    BY <1>0, <1>4 DEF G!Install, G!Goto
  <2> QED
    BY <1>0, <1>w, <1>4, <2>1, MoveTyped DEF G!Install
<1>5. CASE G!SupersedeWrite(s)
  <2>1. status' \in [G!Issuance -> G!Status] /\ replacedBy' \in [G!Issuance -> 0 .. MaxGen]
    BY <1>0, <1>5 DEF G!SupersedeWrite
  <2>2. /\ pc' \in [Session -> G!Step] /\ at' \in [Session -> G!Student] /\ result' \in [Session -> G!Result]
        /\ \A t \in Session \ {s} : pc'[t] = pc[t] /\ at'[t] = at[t] /\ result'[t] = result[t]
    BY <1>0, <1>5, AdvanceMoves DEF G!SupersedeWrite, G!SupersedeNext
  <2> QED
    BY <1>0, <1>w, <1>5, <2>1, <2>2, MoveTyped DEF G!SupersedeWrite
<1>6. CASE G!CompensateWrite(s)
  <2>1. status' \in [G!Issuance -> G!Status] /\ replacedBy' \in [G!Issuance -> 0 .. MaxGen]
    BY <1>0, <1>6 DEF G!CompensateWrite
  <2>2. made[s] \in 0 .. NStudents
    BY <1>0
  <2> QED
    BY <1>0, <1>w, <1>6, <2>1, <2>2, AdvanceMoves, MoveTyped DEF G!CompensateWrite
<1> QED
  BY <1>1, <1>2, <1>3, <1>4, <1>5, <1>6 DEF Writes

LEMMA PlansTyped ==
  ASSUME Parameters, G!TypeOK, NEW s \in Session, G!Plan(s) \/ G!Generate(s)
  PROVE  G!TypeOK' /\ Others(s)
<1>0. /\ pc \in [Session -> G!Step] /\ at \in [Session -> G!Student] /\ result \in [Session -> G!Result]
      /\ gen \in [Session -> 0 .. MaxGen] /\ made \in [Session -> 0 .. NStudents]
      /\ plan \in [Session -> PlanRecord] /\ G!Snapshot \in PlanRecord
      /\ "planned" \in G!Step /\ "records" \in G!Step /\ "none" \in G!Result
      /\ 1 \in G!Student /\ 0 \in 0 .. NStudents
  BY SessionVariables, SnapshotTyped DEF G!Step, G!Result, Parameters, G!Student
<1>1. CASE G!Plan(s)
  <2>1. plan' \in [Session -> PlanRecord] /\ \A t \in Session \ {s} : plan'[t] = plan[t]
    BY <1>0, <1>1 DEF G!Plan
  <2>2. /\ pc' \in [Session -> G!Step] /\ result' \in [Session -> G!Result]
        /\ \A t \in Session \ {s} : pc'[t] = pc[t] /\ result'[t] = result[t]
    BY <1>0, <1>1 DEF G!Plan, G!Goto
  <2> QED
    BY <1>1, <2>1, <2>2 DEF G!Plan, G!worldVars, G!TypeOK, Others, PlanRecord
<1>2. CASE G!Generate(s)
  <2>1. allocated' \in 0 .. MaxGen /\ allocated + 1 \in 0 .. MaxGen
    BY <1>2 DEF G!Generate, G!TypeOK, Parameters
  <2>2. /\ gen' \in [Session -> 0 .. MaxGen] /\ made' \in [Session -> 0 .. NStudents]
        /\ at' \in [Session -> G!Student] /\ pc' \in [Session -> G!Step]
        /\ \A t \in Session \ {s} : /\ gen'[t] = gen[t] /\ made'[t] = made[t] /\ at'[t] = at[t]
                                    /\ pc'[t] = pc[t]
    BY <1>0, <1>2, <2>1 DEF G!Generate, G!Goto
  <2> QED
    BY <1>2, <2>1, <2>2 DEF G!Generate, G!TypeOK, Others
<1> QED
  BY <1>1, <1>2

LEMMA FaultTyped ==
  ASSUME Parameters, G!TypeOK, Numbered, NEW s \in Session, G!FaultStep(s)
  PROVE  G!TypeOK' /\ Others(s)
<1>0. /\ pc \in [Session -> G!Step] /\ at \in [Session -> G!Student]
      /\ terminal \in [Session -> G!Terminal] /\ result \in [Session -> G!Result]
      /\ made[s] \in 0 .. NStudents /\ NStudents \in 0 .. NStudents
      /\ status \in [G!Issuance -> G!Status] /\ replacedBy \in [G!Issuance -> 0 .. MaxGen]
      /\ routed \subseteq G!Issuance /\ output \in 0 .. MaxGen /\ litter \in BOOLEAN
      /\ {"idle", "supersede", "compensate"} \subseteq G!Step /\ 1 \in G!Student
      /\ {"partial", "failed_warned", "crashed"} \subseteq G!Result
      /\ "prepared" \in G!Status /\ "cancelled" \in G!Terminal
  BY SessionVariables DEF G!Step, G!Result, Parameters, G!Status, G!Live, G!Terminal, G!Student
<1>w. UNCHANGED <<source, allocated, gen, plan, made, output>> /\ faults' \in 0 .. MaxFaults
  BY FaultsBounded DEF G!FaultStep, G!StageFault, G!RollbackFault, G!TransitionFault, G!Crash,
       G!worldVars
<1>m. pc[s] \notin Outside => G!Mine(s) \in G!Issuance
  BY MineIsIssuance
<1>1. CASE G!StageFault(s)
  <2>1. routed' \subseteq G!Issuance
    BY <1>0, <1>m, <1>1 DEF G!StageFault, Outside
  <2> QED
    BY <1>0, <1>w, <1>1, <2>1, FailMoves, MoveTyped DEF G!StageFault
<1>2. CASE G!RollbackFault(s)
  <2>1. status' \in [G!Issuance -> G!Status]
    BY <1>0, <1>2 DEF G!RollbackFault
  <2>2. /\ pc' \in [Session -> G!Step] /\ at' \in [Session -> G!Student]
        /\ terminal' \in [Session -> G!Terminal] /\ result' \in [Session -> G!Result]
        /\ \A t \in Session \ {s} :
             pc'[t] = pc[t] /\ at'[t] = at[t] /\ terminal'[t] = terminal[t] /\ result'[t] = result[t]
    BY <1>0, <1>2 DEF G!RollbackFault, G!Goto
  <2> QED
    BY <1>0, <1>w, <1>2, <2>1, <2>2, MoveTyped DEF G!RollbackFault
<1>3. CASE G!TransitionFault(s)
  <2>1. /\ pc' \in [Session -> G!Step] /\ at' \in [Session -> G!Student] /\ result' \in [Session -> G!Result]
        /\ \A t \in Session \ {s} : pc'[t] = pc[t] /\ at'[t] = at[t] /\ result'[t] = result[t]
    <3>1. CASE G!SupersedeNext(s, "partial")
      BY <1>0, <3>1, AdvanceMoves DEF G!SupersedeNext
    <3>2. CASE /\ result' = [result EXCEPT ![s] = "failed_warned"]
               /\ G!Advance(s, "compensate", made[s], "idle")
      BY <1>0, <3>2, AdvanceMoves
    <3> QED
      BY <1>3, <3>1, <3>2 DEF G!TransitionFault
  <2> QED
    BY <1>0, <1>w, <1>3, <2>1, MoveTyped DEF G!TransitionFault, G!worldVars
<1>4. CASE G!Crash(s)
  <2>1. /\ pc' \in [Session -> G!Step] /\ result' \in [Session -> G!Result] /\ litter' \in BOOLEAN
        /\ \A t \in Session \ {s} : pc'[t] = pc[t] /\ result'[t] = result[t]
    BY <1>0, <1>4 DEF G!Crash, G!End, G!Goto
  <2> QED
    BY <1>0, <1>w, <1>4, <2>1, MoveTyped DEF G!Crash
<1> QED
  BY <1>1, <1>2, <1>3, <1>4 DEF G!FaultStep

-----------------------------------------------------------------------------
(* What a step of one session may do to the records.                       *)

Acts(s) == G!SessionStep(s) \/ G!FaultStep(s)

Moved(s) ==
  \A i \in G!Issuance :
    /\ i[1] # gen[s] =>
         status'[i] = status[i] \/ (status[i] \in Settled /\ status'[i] = "superseded")
    /\ status[i] \in Settled => status'[i] \in Settled
    /\ status[i] \in G!Terminal => status'[i] \in G!Terminal
    /\ i \in routed => i \in routed'
    /\ i \in routed' /\ i \notin routed =>
         i[1] = gen[s] /\ status[i] = "prepared" /\ status'[i] = "prepared"

LEMMA ActsTyped ==
  ASSUME Parameters, G!TypeOK, Numbered, NEW s \in Session, Acts(s)
  PROVE  G!TypeOK' /\ Others(s)
BY QuietTyped, WritesTyped, PlansTyped, FaultTyped DEF Acts, G!SessionStep, Quiet, Writes

LEMMA AllocatedGrows ==
  ASSUME Parameters, G!TypeOK, NEW s \in Session, Acts(s)
  PROVE  allocated' \in Nat /\ allocated \in Nat /\ allocated <= allocated'
<1>1. allocated' \in {allocated, allocated + 1}
  BY DEF Acts, G!SessionStep, G!FaultStep, G!Plan, G!Decline, G!Generate, G!WriteRecords,
       G!WriteRoutes,
     G!Render, G!IssueCheck, G!IssueWrite, G!InstallCheck, G!Install, G!SupersedeCheck,
     G!SupersedeWrite,
     G!CompensateCheck, G!CompensateWrite, G!StageFault, G!RollbackFault, G!TransitionFault,
     G!Crash, G!worldVars
<1>2. allocated \in Nat
  BY SessionVariables DEF Parameters
<1> QED
  BY <1>1, <1>2

(* The students at the turn of a session, in order.                        *)
LEMMA TurnIsStudent ==
  ASSUME Parameters, G!TypeOK, NEW s \in Session
  PROVE  at[s] \in G!Student /\ at[s] \in Nat /\ G!Student \subseteq Nat /\ made[s] \in Nat
BY SessionVariables DEF G!Student, Parameters

LEMMA MineIsPrepared ==
  ASSUME Parameters, G!TypeOK, Numbered, NEW s \in Session, Built(s)
  PROVE  /\ pc[s] = "records" => status[G!Mine(s)] = "none" /\ G!Mine(s) \notin routed
         /\ pc[s] \in {"routes", "issue", "issue_write"} => status[G!Mine(s)] = "prepared"
<1>1. at[s] \in G!Student /\ ~ (at[s] < at[s])
  BY TurnIsStudent
<1> QED
  BY <1>1 DEF Built, G!Mine

LEMMA QuietMoved ==
  ASSUME Parameters, G!TypeOK, NEW s \in Session, UNCHANGED <<status, routed>>
  PROVE  Moved(s)
BY DEF Moved

(* One record is written.                                                  *)
LEMMA WriteMoved ==
  ASSUME Parameters, G!TypeOK, NEW s \in Session, NEW i \in G!Issuance, NEW x \in G!Status,
         status' = [status EXCEPT ![i] = x], UNCHANGED routed,
         \/ i[1] = gen[s] /\ status[i] \notin Settled
         \/ i[1] = gen[s] /\ x \in G!Terminal
         \/ status[i] \in Settled /\ x = "superseded"
  PROVE  Moved(s)
<1>1. status \in [G!Issuance -> G!Status] /\ status'[i] = x
      /\ \A j \in G!Issuance : j # i => status'[j] = status[j]
  BY DEF G!TypeOK
<1> QED
  BY <1>1 DEF Moved, Settled, G!Terminal

LEMMA ActsMove ==
  ASSUME Parameters, G!TypeOK, Numbered, NEW s \in Session, Built(s), Foreseen(s), Replaced(s),
         Acts(s)
  PROVE  Moved(s)
<1>0. /\ pc[s] \notin Outside => G!Mine(s) \in G!Issuance /\ G!Mine(s)[1] = gen[s]
      /\ plan[s].preds[at[s]] # 0 =>
           /\ G!Predecessor(s) \in G!Issuance /\ status[G!Predecessor(s)] \in Settled
      /\ G!Terminal \cup {"prepared", "issued"} \subseteq G!Status
  BY MineIsIssuance, TurnIsStudent DEF G!Mine, G!Predecessor, Foreseen, G!Status, G!Live
<1>p. /\ pc[s] = "records" => status[G!Mine(s)] = "none"
      /\ pc[s] \in {"routes", "issue", "issue_write"} => status[G!Mine(s)] = "prepared"
  BY MineIsPrepared
<1>1. CASE Quiet(s) \/ G!Plan(s) \/ G!Install(s) \/ G!TransitionFault(s) \/ G!Crash(s)
  BY <1>1, QuietMoved DEF Quiet, G!Decline, G!Render, G!IssueCheck, G!InstallCheck,
       G!SupersedeCheck,
       G!CompensateCheck, G!Plan, G!Install, G!TransitionFault, G!Crash, G!worldVars
<1>2. CASE G!Generate(s)
  BY <1>2, QuietMoved DEF G!Generate
<1>3. CASE G!WriteRecords(s) \/ G!RollbackFault(s)
  <2>1. UNCHANGED <<routed, allocated>> /\ pc[s] = "records"
    BY <1>3 DEF G!WriteRecords, G!RollbackFault
  <2>2. CASE status' = [status EXCEPT ![G!Mine(s)] = "prepared"]
    BY <1>0, <1>p, <2>1, <2>2, WriteMoved DEF Outside, Settled, G!Terminal
  <2>3. CASE UNCHANGED status
    BY <2>1, <2>3, QuietMoved
  <2> QED
    BY <1>3, <2>2, <2>3 DEF G!WriteRecords, G!RollbackFault
<1>4. CASE G!WriteRoutes(s) \/ G!StageFault(s)
  <2>1. /\ UNCHANGED <<status, allocated>> /\ pc[s] \notin Outside
        /\ routed' = routed \/ (pc[s] = "routes" /\ routed' = routed \cup {G!Mine(s)})
    BY <1>4 DEF G!WriteRoutes, G!StageFault, Outside
  <2>2. CASE routed' = routed
    BY <2>1, <2>2, QuietMoved
  <2>3. CASE pc[s] = "routes" /\ routed' = routed \cup {G!Mine(s)}
    <3>1. /\ G!Mine(s)[1] = gen[s] /\ status[G!Mine(s)] = "prepared" /\ status' = status
      BY <1>0, <1>p, <2>1, <2>3
    <3> QED
      BY <2>3, <3>1 DEF Moved
  <2> QED
    BY <2>1, <2>2, <2>3
<1>5. CASE G!IssueWrite(s)
  BY <1>0, <1>p, <1>5, WriteMoved DEF G!IssueWrite, Outside, Settled, G!Terminal
<1>6. CASE G!SupersedeWrite(s)
  <2>1. plan[s].preds[at[s]] # 0
    BY <1>6 DEF G!SupersedeWrite, Replaced
  <2> QED
    BY <1>0, <1>6, <2>1, WriteMoved DEF G!SupersedeWrite, G!Terminal
<1>7. CASE G!CompensateWrite(s)
  <2>1. terminal[s] \in G!Terminal
    BY SessionVariables
  <2> QED
    BY <1>0, <1>7, <2>1, WriteMoved DEF G!CompensateWrite, Outside
<1> QED
  BY <1>1, <1>2, <1>3, <1>4, <1>5, <1>6, <1>7 DEF Acts, G!SessionStep, G!FaultStep, Quiet

-----------------------------------------------------------------------------
(* What a step leaves to the other sessions.                               *)

LEMMA OthersKeep ==
  ASSUME Parameters, G!TypeOK, Numbered, NEW s \in Session, Others(s), Moved(s),
         allocated' \in Nat, allocated <= allocated',
         NEW t \in Session \ {s}, Built(t), Foreseen(t), Replaced(t), Undone(t)
  PROVE  Built(t)' /\ Foreseen(t)' /\ Replaced(t)' /\ Undone(t)'
<1>1. /\ pc'[t] = pc[t] /\ gen'[t] = gen[t] /\ plan'[t] = plan[t] /\ at'[t] = at[t]
      /\ made'[t] = made[t] /\ terminal'[t] = terminal[t] /\ result'[t] = result[t]
  BY DEF Others
<1>2. ASSUME gen[t] # 0, NEW st \in G!Student
      PROVE  /\ status[<<gen[t], st>>] \in {"none", "prepared"}
                  => status'[<<gen[t], st>>] = status[<<gen[t], st>>]
             /\ status[<<gen[t], st>>] \in Valid => status'[<<gen[t], st>>] \in Valid
             /\ status[<<gen[t], st>>] \notin G!Live => status'[<<gen[t], st>>] \notin G!Live
             /\ <<gen[t], st>> \in routed <=> <<gen[t], st>> \in routed'
  <2>1. <<gen[t], st>> \in G!Issuance /\ <<gen[t], st>>[1] = gen[t] /\ gen[t] # gen[s]
    BY <1>2, SessionVariables DEF G!Issuance, G!Gen, Numbered, Parameters
  <2> QED
    BY <2>1 DEF Moved, Settled, G!Terminal, Valid, G!Live
<1>3. ASSUME NEW st \in G!Student, plan[t].preds[st] # 0
      PROVE  /\ <<plan[t].preds[st], st>> \in G!Issuance
             /\ status[<<plan[t].preds[st], st>>] \in Settled
                  => status'[<<plan[t].preds[st], st>>] \in Settled
             /\ status[<<plan[t].preds[st], st>>] \in G!Terminal
                  => status'[<<plan[t].preds[st], st>>] \in G!Terminal
             /\ <<plan[t].preds[st], st>> \in routed => <<plan[t].preds[st], st>> \in routed'
  <2>1. plan[t].preds[st] \in 0 .. MaxGen
    BY SessionVariables DEF PlanRecord
  <2>2. <<plan[t].preds[st], st>> \in G!Issuance
    BY <1>3, <2>1 DEF G!Issuance, G!Gen, Parameters
  <2> QED
    BY <2>2 DEF Moved
<1>4. pc[t] \notin Outside => gen[t] # 0
  BY DEF Numbered
<1>5. Built(t)'
  BY <1>1, <1>2, <1>4 DEF Built, Outside, Building, Closing
<1>6. Foreseen(t)'
  <2>1. ASSUME NEW st \in G!Student, plan[t].preds[st] # 0
        PROVE  /\ status'[<<plan[t].preds[st], st>>] \in Settled
               /\ <<plan[t].preds[st], st>> \in routed'
               /\ plan[t].preds[st] <= allocated'
               /\ pc[t] \notin Outside => plan[t].preds[st] < gen[t]
    <3>1. plan[t].preds[st] \in Nat /\ allocated \in Nat
      BY SessionVariables DEF PlanRecord, Parameters
    <3>2. plan[t].preds[st] <= allocated
      BY <2>1 DEF Foreseen
    <3>3. plan[t].preds[st] <= allocated'
      BY <3>1, <3>2
    <3>4. /\ status[<<plan[t].preds[st], st>>] \in Settled /\ <<plan[t].preds[st], st>> \in routed
          /\ pc[t] \notin Outside => plan[t].preds[st] < gen[t]
      BY <2>1 DEF Foreseen
    <3> QED
      BY <1>3, <2>1, <3>3, <3>4
  <2> QED
    BY <1>1, <2>1 DEF Foreseen
<1>7. Replaced(t)'
  BY <1>1, <1>3 DEF Replaced, Closed
<1>8. Undone(t)'
  BY <1>1, <1>2, <1>4 DEF Undone, Outside, Undoing
<1> QED
  BY <1>5, <1>6, <1>7, <1>8

-----------------------------------------------------------------------------
(* What a step does to the session itself.                                 *)

Mind(s) == Built(s) /\ Foreseen(s) /\ Replaced(s) /\ Undone(s)

(* A plan, once made, stays one of issuances that were issued.             *)
LEMMA ForeseenKept ==
  ASSUME Parameters, G!TypeOK, NEW s \in Session, Moved(s), Foreseen(s),
         allocated' \in Nat, allocated <= allocated',
         plan' = plan, gen' = gen, pc'[s] \notin Outside => pc[s] \notin Outside
  PROVE  Foreseen(s)'
<1>1. ASSUME NEW st \in G!Student, plan[s].preds[st] # 0
      PROVE  /\ status'[<<plan[s].preds[st], st>>] \in Settled
             /\ <<plan[s].preds[st], st>> \in routed'
             /\ plan[s].preds[st] <= allocated'
             /\ pc'[s] \notin Outside => plan[s].preds[st] < gen[s]
  <2>1. plan[s].preds[st] \in 0 .. MaxGen /\ plan[s].preds[st] \in Nat /\ allocated \in Nat
    BY SessionVariables DEF PlanRecord, Parameters
  <2>2. <<plan[s].preds[st], st>> \in G!Issuance
    BY <1>1, <2>1 DEF G!Issuance, G!Gen, Parameters
  <2>3. plan[s].preds[st] <= allocated
    BY <1>1 DEF Foreseen
  <2>4. plan[s].preds[st] <= allocated'
    BY <2>1, <2>3
  <2>5. /\ status[<<plan[s].preds[st], st>>] \in Settled /\ <<plan[s].preds[st], st>> \in routed
        /\ pc'[s] \notin Outside => plan[s].preds[st] < gen[s]
    BY <1>1 DEF Foreseen
  <2> QED
    BY <2>2, <2>4, <2>5 DEF Moved
<1> QED
  BY <1>1 DEF Foreseen

(* A session that ends without installing or failing.                      *)
LEMMA EndKept ==
  ASSUME Parameters, G!TypeOK, NEW s \in Session, Foreseen(s)', Undone(s),
         terminal' = terminal, pc'[s] = "idle", result'[s] \notin {"installed", "failed"}
  PROVE  Mind(s)'
BY DEF Mind, Built, Replaced, Undone, Building, Closing, Undoing

LEMMA PlanKept ==
  ASSUME Parameters, G!TypeOK, Numbered, G!IssuedIsRouted, NEW s \in Session, Mind(s), G!Plan(s)
  PROVE  Mind(s)'
<1>1. /\ pc'[s] = "planned" /\ plan'[s] = G!Snapshot /\ terminal' = terminal
      /\ UNCHANGED <<status, routed, allocated, gen>>
  BY SessionVariables DEF G!Plan, G!Goto, G!worldVars
<1>2. ASSUME NEW st \in G!Student, G!Predecessors[st] # 0
      PROVE  LET i == <<G!Predecessors[st], st>>
             IN  status[i] = "issued" /\ i \in routed /\ G!Predecessors[st] <= allocated
  <2>1. G!Predecessors[st] \in G!Issued(st)
    BY <1>2 DEF G!Predecessors
  <2>2. PICK g \in G!Gen : g = G!Predecessors[st] /\ status[<<g, st>>] = "issued"
    BY <2>1 DEF G!Issued
  <2>3. <<g, st>> \in G!Issuance /\ <<g, st>>[1] = g
    BY DEF G!Issuance
  <2> QED
    BY <2>2, <2>3 DEF G!IssuedIsRouted, Numbered
<1>3. Foreseen(s)'
  BY <1>1, <1>2, SnapshotTyped DEF Foreseen, Settled, Outside
<1> QED
  BY <1>1, <1>3 DEF Mind, Built, Replaced, Undone, Building, Closing, Undoing

LEMMA GenerateKept ==
  ASSUME Parameters, G!TypeOK, Numbered, NEW s \in Session, Mind(s), G!Generate(s)
  PROVE  Mind(s)'
<1>1. /\ pc'[s] = "records" /\ gen'[s] = allocated + 1 /\ made'[s] = 0 /\ at'[s] = 1
      /\ allocated' = allocated + 1
      /\ UNCHANGED <<status, routed, plan, terminal, result>>
  BY SessionVariables DEF G!Generate, G!Goto
<1>2. allocated \in Nat /\ allocated < MaxGen /\ allocated + 1 \in G!Gen /\ G!Student \subseteq Nat
      /\ \A st \in G!Student : st >= 1
  BY SessionVariables DEF G!Generate, G!Gen, Parameters, G!Student
<1>3. ASSUME NEW st \in G!Student
      PROVE  status[<<allocated + 1, st>>] = "none" /\ <<allocated + 1, st>> \notin routed
  <2>1. <<allocated + 1, st>> \in G!Issuance /\ ~ (<<allocated + 1, st>>[1] <= allocated)
    BY <1>2 DEF G!Issuance
  <2> QED
    BY <2>1 DEF Numbered
<1>4. Built(s)'
  <2>1. \A st \in G!Student : ~ (st < 1)
    BY <1>2
  <2>2. made'[s] = at'[s] - 1 /\ \A st \in G!Student : ~ (st < at'[s])
    BY <1>1, <2>1
  <2> QED
    BY <1>1, <1>3, <2>2 DEF Built, Building, Closing
<1>5. ASSUME NEW st \in G!Student, plan[s].preds[st] # 0
      PROVE  plan[s].preds[st] <= allocated + 1 /\ plan[s].preds[st] < allocated + 1
  <2>1. plan[s].preds[st] \in 0 .. MaxGen /\ plan[s].preds[st] \in Nat
    BY SessionVariables DEF PlanRecord, Parameters
  <2>2. plan[s].preds[st] <= allocated
    BY <1>5 DEF Mind, Foreseen
  <2> QED
    BY <1>2, <2>1, <2>2
<1>6. Foreseen(s)'
  BY <1>1, <1>5 DEF Mind, Foreseen
<1> QED
  BY <1>1, <1>4, <1>6 DEF Mind, Replaced, Undone, Closing, Undoing

(* A failure takes back what was persisted, from the first student on.     *)
LEMMA FailKept ==
  ASSUME Parameters, G!TypeOK, Numbered, NEW s \in Session, Mind(s), Foreseen(s)',
         pc[s] \in Building, G!Fail(s), UNCHANGED <<status, made, gen>>,
         pc[s] = "records" => routed' = routed
  PROVE  Mind(s)'
<1>1. /\ result'[s] = "failed" /\ terminal'[s] \in {"cancelled", "invalidated"}
      /\ IF made[s] = 0 THEN pc'[s] = "idle" ELSE pc'[s] = "compensate" /\ at'[s] = 1
      /\ terminal'[s] = "cancelled" =>
           /\ pc[s] \notin Building \ {"records", "routes"}
           /\ (pc[s] = "routes" => \A st \in G!Student : <<gen[s], st>> \notin routed')
  BY FailMoves
<1>2. made[s] \in Nat /\ at[s] \in G!Student /\ G!Student = 1 .. NStudents /\ NStudents \in Nat
      /\ NStudents >= 1
  BY SessionVariables DEF G!Student, Parameters
<1>3. pc[s] = "records" \/ made[s] = NStudents
  BY DEF Mind, Built, Building
<1>4. ASSUME NEW st \in G!Student, st > made[s]
      PROVE  status[<<gen[s], st>>] \notin G!Live
  <2>1. pc[s] = "records"
    BY <1>2, <1>3, <1>4
  <2>2. ~ (st < at[s])
    BY <1>2, <1>4, <2>1 DEF Mind, Built
  <2> QED
    BY <2>1, <2>2 DEF Mind, Built, G!Live
<1>5. terminal'[s] = "cancelled" => \A st \in G!Student : <<gen[s], st>> \notin routed'
  BY <1>1 DEF Mind, Built, Building
<1>6. CASE made[s] = 0
  <2>1. \A st \in G!Student : st > made[s]
    BY <1>2, <1>6
  <2>2. gen[s] # 0 /\ gen'[s] = gen[s] /\ status' = status
    BY DEF Numbered, Building, Outside
  <2>3. pc'[s] = "idle" /\ result'[s] = "failed"
    BY <1>1, <1>6
  <2>4. \A st \in G!Student : status[<<gen[s], st>>] \notin G!Live
    BY <1>4, <2>1
  <2> QED
    BY <1>1, <2>2, <2>3, <2>4 DEF Mind, Built, Replaced, Undone, Building, Closing, Undoing
<1>7. CASE made[s] # 0
  <2>1. 1 <= made[s] /\ \A st \in G!Student : ~ (st < 1)
    BY <1>2, <1>7
  <2>2. /\ pc'[s] = "compensate" /\ at'[s] = 1 /\ result'[s] = "failed"
        /\ gen'[s] = gen[s] /\ status' = status /\ made'[s] = made[s]
    BY <1>1, <1>7
  <2>3. Undone(s)'
    BY <1>1, <1>4, <1>5, <2>1, <2>2 DEF Undone, Undoing
  <2> QED
    BY <2>2, <2>3 DEF Mind, Built, Replaced, Building, Closing
<1> QED
  BY <1>6, <1>7

(* One's own issuance of a student is written, the others are not.         *)
LEMMA MineWritten ==
  ASSUME Parameters, G!TypeOK, Numbered, NEW s \in Session, pc[s] \notin Outside, NEW x,
         status' = [status EXCEPT ![G!Mine(s)] = x], NEW st \in G!Student
  PROVE  status'[<<gen[s], st>>] = IF st = at[s] THEN x ELSE status[<<gen[s], st>>]
<1>1. /\ G!Mine(s) \in G!Issuance /\ G!Mine(s) = <<gen[s], at[s]>> /\ status \in [G!Issuance -> G!Status]
      /\ gen[s] \in G!Gen
  BY MineIsIssuance, SessionVariables DEF G!Mine, Numbered, G!Gen, Parameters
<1>2. <<gen[s], st>> \in G!Issuance
  BY <1>1 DEF G!Issuance
<1> QED
  BY <1>1, <1>2

LEMMA TurnBounds ==
  ASSUME Parameters, G!TypeOK, NEW s \in Session
  PROVE  /\ at[s] \in Nat /\ 1 <= at[s] /\ at[s] <= NStudents /\ NStudents \in Nat
         /\ made[s] \in Nat /\ made[s] <= NStudents
         /\ \A st \in G!Student : st \in Nat /\ 1 <= st /\ st <= NStudents /\ ~ (st < 1)
         /\ at[s] \in G!Student
BY SessionVariables DEF G!Student, Parameters

LEMMA WriteRecordsKept ==
  ASSUME Parameters, G!TypeOK, Numbered, NEW s \in Session, Mind(s), Foreseen(s)', G!WriteRecords(s)
  PROVE  Mind(s)'
<1>1. pc[s] = "records" /\ UNCHANGED <<routed, gen, plan>>
  BY DEF G!WriteRecords
<1>2. CASE G!Fail(s) /\ UNCHANGED <<status, made>>
  BY <1>1, <1>2, FailKept DEF Building
<1>3. CASE /\ status' = [status EXCEPT ![G!Mine(s)] = "prepared"]
           /\ made' = [made EXCEPT ![s] = at[s]]
           /\ G!Advance(s, "records", NStudents, "routes")
           /\ UNCHANGED <<terminal, result>>
  <2>1. \A st \in G!Student :
          status'[<<gen[s], st>>] = IF st = at[s] THEN "prepared" ELSE status[<<gen[s], st>>]
    BY <1>1, <1>3, MineWritten DEF Outside
  <2>2. /\ IF at[s] < NStudents THEN pc'[s] = "records" /\ at'[s] = at[s] + 1
                                ELSE pc'[s] = "routes" /\ at'[s] = 1
    BY <1>3, AdvanceMoves DEF G!Step, Parameters
  <2>3. made'[s] = at[s]
    BY <1>3, SessionVariables
  <2>4. /\ made[s] = at[s] - 1
        /\ \A st \in G!Student : /\ status[<<gen[s], st>>] = IF st < at[s] THEN "prepared" ELSE "none"
                                 /\ <<gen[s], st>> \notin routed
    BY <1>1 DEF Mind, Built
  <2>5. CASE at[s] < NStudents
    <3>1. pc'[s] = "records" /\ at'[s] = at[s] + 1 /\ made'[s] = at'[s] - 1
      BY <2>2, <2>3, <2>5, TurnBounds
    <3>2. \A st \in G!Student : (st < at'[s]) <=> (st = at[s] \/ st < at[s])
      BY <3>1, TurnBounds
    <3>3. Built(s)'
      BY <1>1, <2>1, <2>4, <3>1, <3>2 DEF Built, Building, Closing
    <3> QED
      BY <1>1, <1>3, <3>1, <3>3 DEF Mind, Replaced, Undone, Closing, Undoing
  <2>6. CASE ~ (at[s] < NStudents)
    <3>1. pc'[s] = "routes" /\ at'[s] = 1 /\ made'[s] = NStudents
      BY <2>2, <2>3, <2>6, TurnBounds
    <3>2. \A st \in G!Student : (st = at[s] \/ st < at[s]) /\ ~ (st < 1)
      BY <2>6, TurnBounds
    <3>3. Built(s)'
      BY <1>1, <2>1, <2>4, <3>1, <3>2 DEF Built, Building, Closing
    <3> QED
      BY <1>1, <1>3, <3>1, <3>3 DEF Mind, Replaced, Undone, Closing, Undoing
  <2> QED
    BY <2>5, <2>6
<1> QED
  BY <1>2, <1>3 DEF G!WriteRecords

LEMMA WriteRoutesKept ==
  ASSUME Parameters, G!TypeOK, Numbered, NEW s \in Session, Mind(s), Foreseen(s)', G!WriteRoutes(s)
  PROVE  Mind(s)'
<1>1. /\ pc[s] = "routes" /\ routed' = routed \cup {G!Mine(s)}
      /\ UNCHANGED <<status, gen, plan, made, terminal, result>>
  BY DEF G!WriteRoutes
<1>2. IF at[s] < NStudents THEN pc'[s] = "routes" /\ at'[s] = at[s] + 1
                           ELSE pc'[s] = "render" /\ at'[s] = 1
  BY AdvanceMoves DEF G!WriteRoutes, G!Step, Parameters
<1>3. /\ made[s] = NStudents
      /\ \A st \in G!Student : /\ status[<<gen[s], st>>] = "prepared"
                               /\ st < at[s] \/ st = at[s] => <<gen[s], st>> \in routed'
  BY <1>1 DEF Mind, Built, G!Mine
<1>4. CASE at[s] < NStudents
  <2>1. pc'[s] = "routes" /\ at'[s] = at[s] + 1
    BY <1>2, <1>4
  <2>2. \A st \in G!Student : st < at'[s] => st = at[s] \/ st < at[s]
    BY <2>1, TurnBounds
  <2>3. Built(s)'
    BY <1>1, <1>3, <2>1, <2>2 DEF Built, Building, Closing
  <2> QED
    BY <1>1, <2>1, <2>3 DEF Mind, Replaced, Undone, Closing, Undoing
<1>5. CASE ~ (at[s] < NStudents)
  <2>1. pc'[s] = "render" /\ at'[s] = 1
    BY <1>2, <1>5
  <2>2. \A st \in G!Student : st = at[s] \/ st < at[s]
    BY <1>5, TurnBounds
  <2>3. Built(s)'
    BY <1>1, <1>3, <2>1, <2>2 DEF Built, Building, Closing
  <2> QED
    BY <1>1, <2>1, <2>3 DEF Mind, Replaced, Undone, Closing, Undoing
<1> QED
  BY <1>4, <1>5

LEMMA RenderKept ==
  ASSUME Parameters, G!TypeOK, NEW s \in Session, Mind(s), Foreseen(s)', G!Render(s) \/ G!IssueCheck(s)
  PROVE  Mind(s)'
<1>1. UNCHANGED <<status, routed, gen, plan, at, made, terminal, result>>
  BY DEF G!Render, G!IssueCheck, G!worldVars
<1>2. CASE G!Render(s)
  <2>1. pc[s] = "render" /\ pc'[s] = "issue"
    BY <1>2, SessionVariables DEF G!Render, G!Goto
  <2>2. \A st \in G!Student : ~ (st < 1)
    BY TurnBounds
  <2>3. Built(s)'
    BY <1>1, <2>1, <2>2 DEF Mind, Built, Building, Closing
  <2> QED
    BY <1>1, <2>1, <2>3 DEF Mind, Replaced, Undone, Closing, Undoing
<1>3. CASE G!IssueCheck(s)
  <2>1. pc[s] = "issue" /\ pc'[s] = "issue_write"
    BY <1>3, SessionVariables DEF G!IssueCheck, G!Goto
  <2>3. Built(s)'
    BY <1>1, <2>1 DEF Mind, Built, Building, Closing
  <2> QED
    BY <1>1, <2>1, <2>3 DEF Mind, Replaced, Undone, Closing, Undoing
<1> QED
  BY <1>2, <1>3

LEMMA IssueWriteKept ==
  ASSUME Parameters, G!TypeOK, Numbered, NEW s \in Session, Mind(s), Foreseen(s)', G!IssueWrite(s)
  PROVE  Mind(s)'
<1>1. /\ pc[s] = "issue_write" /\ status' = [status EXCEPT ![G!Mine(s)] = "issued"]
      /\ UNCHANGED <<routed, gen, plan, made, terminal, result>>
  BY DEF G!IssueWrite
<1>2. IF at[s] < NStudents THEN pc'[s] = "issue" /\ at'[s] = at[s] + 1
                           ELSE pc'[s] = "install_check" /\ at'[s] = 1
  BY AdvanceMoves DEF G!IssueWrite, G!Step, Parameters
<1>3. \A st \in G!Student :
        status'[<<gen[s], st>>] = IF st = at[s] THEN "issued" ELSE status[<<gen[s], st>>]
  BY <1>1, MineWritten DEF Outside
<1>4. /\ made[s] = NStudents
      /\ \A st \in G!Student :
           /\ <<gen[s], st>> \in routed
           /\ IF st < at[s] THEN status[<<gen[s], st>>] \in Valid
                            ELSE status[<<gen[s], st>>] = "prepared"
  BY <1>1 DEF Mind, Built, Building
<1>5. CASE at[s] < NStudents
  <2>1. pc'[s] = "issue" /\ at'[s] = at[s] + 1
    BY <1>2, <1>5
  <2>2. \A st \in G!Student : (st < at'[s]) <=> (st = at[s] \/ st < at[s])
    BY <2>1, TurnBounds
  <2>3. Built(s)'
    BY <1>1, <1>3, <1>4, <2>1, <2>2 DEF Built, Building, Closing, Valid
  <2> QED
    BY <1>1, <2>1, <2>3 DEF Mind, Replaced, Undone, Closing, Undoing
<1>6. CASE ~ (at[s] < NStudents)
  <2>1. pc'[s] = "install_check" /\ at'[s] = 1
    BY <1>2, <1>6
  <2>2. \A st \in G!Student : st = at[s] \/ st < at[s]
    BY <1>6, TurnBounds
  <2>3. Built(s)'
    BY <1>1, <1>3, <1>4, <2>1, <2>2 DEF Built, Building, Closing, Valid
  <2> QED
    BY <1>1, <2>1, <2>3 DEF Mind, Replaced, Undone, Closing, Undoing
<1> QED
  BY <1>5, <1>6

LEMMA InstallKept ==
  ASSUME Parameters, G!TypeOK, Numbered, NEW s \in Session, Mind(s), Foreseen(s)',
         G!InstallCheck(s) \/ G!Install(s)
  PROVE  Mind(s)'
<1>1. UNCHANGED <<status, routed, gen, plan, made>>
  BY DEF G!InstallCheck, G!Install, G!worldVars
<1>2. CASE G!InstallCheck(s) /\ G!Fail(s)
  BY <1>1, <1>2, FailKept DEF G!InstallCheck, Building
<1>3. CASE G!InstallCheck(s) /\ G!Goto(s, "install") /\ UNCHANGED <<terminal, at, result>>
  <2>1. pc[s] = "install_check" /\ pc'[s] = "install"
    BY <1>3, SessionVariables DEF G!InstallCheck, G!Goto
  <2>2. Built(s)'
    BY <1>1, <1>3, <2>1 DEF Mind, Built, Building, Closing
  <2> QED
    BY <1>1, <1>3, <2>1, <2>2 DEF Mind, Replaced, Undone, Closing, Undoing
<1>4. CASE G!Install(s)
  <2>1. /\ pc[s] = "install" /\ pc'[s] = "supersede" /\ result'[s] = "installed"
        /\ UNCHANGED <<at, terminal>>
    BY <1>4, SessionVariables DEF G!Install, G!Goto
  <2>2. Built(s)'
    BY <1>1, <2>1 DEF Mind, Built, Building, Closing
  <2>3. at[s] = 1 /\ \A st \in G!Student : ~ (st < 1)
    BY <2>1, TurnBounds DEF Mind, Built
  <2>4. Replaced(s)'
    BY <1>1, <2>1, <2>3 DEF Replaced, Closed, Closing
  <2> QED
    BY <1>1, <2>1, <2>2, <2>4 DEF Mind, Undone, Undoing
<1> QED
  BY <1>2, <1>3, <1>4 DEF G!InstallCheck

(* The loop over the predecessors: those before its turn are closed, unless *)
(* a warning was given.                                                    *)
LEMMA SupersedeNextKept ==
  ASSUME Parameters, G!TypeOK, Numbered, NEW s \in Session, Mind(s), Foreseen(s)', Moved(s),
         pc[s] \in Closing, UNCHANGED <<gen, plan, made, terminal, routed>>,
         \A st \in G!Student : status'[<<gen[s], st>>] \in Valid,
         NEW r \in {"installed", "partial"}, G!SupersedeNext(s, r),
         r = "installed" =>
           /\ result[s] = "installed"
           /\ plan[s].preds[at[s]] # 0 => status'[G!Predecessor(s)] \in G!Terminal
  PROVE  Mind(s)'
<1>1. /\ result'[s] = r
      /\ IF at[s] < NStudents THEN pc'[s] = "supersede" /\ at'[s] = at[s] + 1
                              ELSE pc'[s] = "idle" /\ at'[s] = 1
  <2>1. result' = [result EXCEPT ![s] = r] /\ result \in [Session -> G!Result]
    BY SessionVariables DEF G!SupersedeNext
  <2>2. result'[s] = r
    BY <2>1
  <2>3. G!Advance(s, "supersede", NStudents, "idle")
    BY DEF G!SupersedeNext
  <2>4. "supersede" \in G!Step /\ "idle" \in G!Step /\ NStudents \in 0 .. NStudents
    BY DEF G!Step, Parameters
  <2>5. IF at[s] < NStudents THEN pc'[s] = "supersede" /\ at'[s] = at[s] + 1
                             ELSE pc'[s] = "idle" /\ at'[s] = 1
    BY <2>3, <2>4, AdvanceMoves
  <2> QED
    BY <2>2, <2>5
<1>2. ASSUME r = "installed", NEW st \in G!Student, st < at[s] + 1, plan[s].preds[st] # 0
      PROVE  status'[<<plan[s].preds[st], st>>] \in G!Terminal
  <2>1. CASE st = at[s]
    BY <1>2, <2>1 DEF G!Predecessor
  <2>2. CASE st < at[s]
    <3>1. status[<<plan[s].preds[st], st>>] \in G!Terminal
      BY <1>2, <2>2 DEF Mind, Replaced, Closed
    <3>2. plan[s].preds[st] \in 0 .. MaxGen
      BY SessionVariables DEF PlanRecord
    <3>3. <<plan[s].preds[st], st>> \in G!Issuance
      BY <1>2, <3>2 DEF G!Issuance, G!Gen, Parameters
    <3> QED
      BY <3>1, <3>3 DEF Moved
  <2>3. st = at[s] \/ st < at[s]
    BY <1>2, TurnBounds
  <2> QED
    BY <2>1, <2>2, <2>3
<1>3. made[s] = NStudents /\ \A st \in G!Student : <<gen[s], st>> \in routed
  BY DEF Mind, Built
<1>4. CASE at[s] < NStudents
  <2>1. pc'[s] = "supersede" /\ at'[s] = at[s] + 1
    BY <1>1, <1>4
  <2>2. Built(s)'
    BY <1>3, <2>1 DEF Built, Building, Closing
  <2>3. r = "installed" => Closed(s, at[s])'
    BY <1>2, <2>1 DEF Closed
  <2>4. Replaced(s)'
    BY <1>1, <2>1, <2>3 DEF Replaced, Closed
  <2> QED
    BY <2>1, <2>2, <2>4 DEF Mind, Undone, Undoing
<1>5. CASE ~ (at[s] < NStudents)
  <2>1. pc'[s] = "idle"
    BY <1>1, <1>5
  <2>2. \A st \in G!Student : st < NStudents + 1 => st < at[s] + 1
    BY <1>5, TurnBounds
  <2>3. r = "installed" => Closed(s, NStudents + 1)'
    BY <1>2, <2>2 DEF Closed
  <2>4. Replaced(s)'
    BY <1>1, <2>1, <2>3 DEF Replaced, Closed, Closing
  <2> QED
    BY <1>1, <2>1, <2>4 DEF Mind, Built, Undone, Undoing, Building, Closing
<1> QED
  BY <1>4, <1>5

LEMMA SupersedeKept ==
  ASSUME Parameters, G!TypeOK, Numbered, NEW s \in Session, Mind(s), Foreseen(s)', Moved(s),
         G!SupersedeCheck(s) \/ G!SupersedeWrite(s)
  PROVE  Mind(s)'
<1>1. /\ pc[s] \in Closing /\ UNCHANGED <<gen, plan, made, terminal, routed>>
      /\ result[s] \in {"installed", "partial"} /\ made[s] = NStudents
      /\ \A st \in G!Student :
           status[<<gen[s], st>>] \in Valid /\ <<gen[s], st>> \in routed
  BY DEF G!SupersedeCheck, G!SupersedeWrite, G!worldVars, Closing, Mind, Built, Replaced
<1>2. CASE G!SupersedeWrite(s)
  <2>1. /\ plan[s].preds[at[s]] # 0 /\ status' = [status EXCEPT ![G!Predecessor(s)] = "superseded"]
        /\ G!SupersedeNext(s, result[s])
    BY <1>2 DEF G!SupersedeWrite, Mind, Replaced
  <2>2. G!Predecessor(s) \in G!Issuance /\ G!Predecessor(s)[1] # gen[s]
    <3>1. plan[s].preds[at[s]] < gen[s]
      BY <1>1, <2>1, TurnIsStudent DEF Mind, Foreseen, Closing, Outside
    <3>2. gen[s] \in Nat /\ plan[s].preds[at[s]] \in Nat
      BY TurnIsStudent, SessionVariables DEF PlanRecord, Parameters
    <3>3. plan[s].preds[at[s]] # gen[s]
      BY <3>1, <3>2
    <3> QED
      BY <2>1, <3>3, MineIsIssuance DEF G!Predecessor
  <2>3. status'[G!Predecessor(s)] \in G!Terminal
    BY <2>1, <2>2, SessionVariables DEF G!Terminal
  <2>4. \A st \in G!Student : status'[<<gen[s], st>>] \in Valid
    BY <1>1, <2>1, <2>2, SessionVariables DEF G!Predecessor
  <2> QED
    BY <1>1, <2>1, <2>3, <2>4, SupersedeNextKept
<1>3. CASE G!SupersedeCheck(s)
  <2>0. UNCHANGED status
    BY <1>3 DEF G!SupersedeCheck, G!worldVars
  <2>1. CASE plan[s].preds[at[s]] = 0 /\ G!SupersedeNext(s, result[s])
    BY <1>1, <2>0, <2>1, SupersedeNextKept
  <2>2. CASE G!SupersedeNext(s, "partial")
    BY <1>1, <2>0, <2>2, SupersedeNextKept
  <2>3. CASE plan[s].preds[at[s]] # 0 /\ G!Goto(s, "supersede_write") /\ UNCHANGED <<at, result>>
    <3>1. pc'[s] = "supersede_write"
      BY <2>3, SessionVariables DEF G!Goto
    <3>2. Built(s)'
      BY <1>1, <2>0, <2>3, <3>1 DEF Built, Building, Closing
    <3>3. Replaced(s)'
      BY <1>1, <2>0, <2>3, <3>1 DEF Mind, Replaced, Closed
    <3> QED
      BY <1>1, <3>1, <3>2, <3>3 DEF Mind, Undone, Undoing
  <2> QED
    BY <1>3, <2>1, <2>2, <2>3 DEF G!SupersedeCheck
<1> QED
  BY <1>2, <1>3

(* The loop over the persisted issuances: those before its turn are not    *)
(* live, unless a warning was given.                                       *)
LEMMA CompensateNextKept ==
  ASSUME Parameters, G!TypeOK, Numbered, NEW s \in Session, Mind(s), Foreseen(s)',
         pc[s] \in Undoing, UNCHANGED <<gen, plan, made, terminal, routed>>,
         G!Advance(s, "compensate", made[s], "idle"),
         \/ result'[s] = "failed_warned"
         \/ /\ result'[s] = result[s]
            /\ \A st \in G!Student :
                 \/ status'[<<gen[s], st>>] \notin G!Live
                 \/ st # at[s] /\ status'[<<gen[s], st>>] = status[<<gen[s], st>>]
  PROVE  Mind(s)'
<1>1. IF at[s] < made[s] THEN pc'[s] = "compensate" /\ at'[s] = at[s] + 1
                         ELSE pc'[s] = "idle" /\ at'[s] = 1
  BY AdvanceMoves, SessionVariables DEF G!Step
<1>2. /\ terminal[s] \in {"cancelled", "invalidated"} /\ at[s] <= made[s] /\ gen[s] # 0
      /\ result[s] \in {"failed", "failed_warned"}
      /\ terminal[s] = "cancelled" => \A st \in G!Student : <<gen[s], st>> \notin routed
      /\ result[s] = "failed" =>
           \A st \in G!Student : st < at[s] \/ st > made[s] => status[<<gen[s], st>>] \notin G!Live
  BY DEF Mind, Undone, Numbered, Undoing, Outside
<1>3. ASSUME result'[s] = "failed", NEW st \in G!Student, st < at[s] + 1 \/ st > made[s]
      PROVE  status'[<<gen[s], st>>] \notin G!Live
  <2>1. st < at[s] \/ st > made[s] \/ st = at[s]
    BY <1>3, TurnBounds
  <2> QED
    BY <1>2, <1>3, <2>1
<1>4. result'[s] \in {"failed", "failed_warned"}
  BY <1>2
<1>5. CASE at[s] < made[s]
  <2>1. pc'[s] = "compensate" /\ at'[s] = at[s] + 1 /\ at'[s] <= made[s]
    BY <1>1, <1>5, TurnBounds
  <2>2. Undone(s)'
    BY <1>2, <1>3, <1>4, <2>1 DEF Undone, Undoing
  <2> QED
    BY <2>1, <2>2 DEF Mind, Built, Replaced, Building, Closing
<1>6. CASE ~ (at[s] < made[s])
  <2>1. pc'[s] = "idle"
    BY <1>1, <1>6
  <2>2. \A st \in G!Student : st < at[s] + 1 \/ st > made[s]
    BY <1>6, <1>2, TurnBounds
  <2>3. Undone(s)'
    BY <1>2, <1>3, <2>1, <2>2 DEF Undone, Undoing
  <2> QED
    BY <1>4, <2>1, <2>3 DEF Mind, Built, Replaced, Building, Closing
<1> QED
  BY <1>5, <1>6

LEMMA CompensateKept ==
  ASSUME Parameters, G!TypeOK, Numbered, NEW s \in Session, Mind(s), Foreseen(s)',
         G!CompensateCheck(s) \/ G!CompensateWrite(s)
  PROVE  Mind(s)'
<1>1. pc[s] \in Undoing /\ UNCHANGED <<gen, plan, made, terminal, routed, result>>
  BY DEF G!CompensateCheck, G!CompensateWrite, G!worldVars, Undoing
<1>2. CASE G!CompensateWrite(s)
  <2>1. /\ status' = [status EXCEPT ![G!Mine(s)] = terminal[s]]
        /\ G!Advance(s, "compensate", made[s], "idle")
    BY <1>2 DEF G!CompensateWrite
  <2>2. terminal[s] \notin G!Live
    BY DEF Mind, Undone, G!Live
  <2>3. \A st \in G!Student :
          status'[<<gen[s], st>>] = IF st = at[s] THEN terminal[s] ELSE status[<<gen[s], st>>]
    BY <1>1, <2>1, MineWritten DEF Outside, Undoing
  <2> QED
    BY <1>1, <2>1, <2>2, <2>3, CompensateNextKept
<1>3. CASE G!CompensateCheck(s)
  <2>0. UNCHANGED status
    BY <1>3 DEF G!CompensateCheck, G!worldVars
  <2>1. CASE status[G!Mine(s)] \notin G!Live /\ G!Advance(s, "compensate", made[s], "idle")
    BY <1>1, <2>0, <2>1, CompensateNextKept DEF G!Mine
  <2>2. CASE G!Goto(s, "compensate_write") /\ UNCHANGED at
    <3>1. pc'[s] = "compensate_write"
      BY <2>2, SessionVariables DEF G!Goto
    <3>2. Undone(s)'
      BY <1>1, <2>0, <2>2, <3>1 DEF Mind, Undone, Undoing
    <3> QED
      BY <3>1, <3>2 DEF Mind, Built, Replaced, Building, Closing
  <2> QED
    BY <1>3, <2>1, <2>2 DEF G!CompensateCheck
<1> QED
  BY <1>2, <1>3

LEMMA FaultKept ==
  ASSUME Parameters, G!TypeOK, Numbered, NEW s \in Session, Mind(s), Foreseen(s)', Moved(s),
         G!FaultStep(s)
  PROVE  Mind(s)'
<1>1. CASE G!StageFault(s)
  <2>1. pc[s] \in Building /\ G!Fail(s) /\ UNCHANGED <<status, made, gen>>
        /\ (pc[s] = "records" => routed' = routed)
    BY <1>1 DEF G!StageFault, Building
  <2> QED
    BY <2>1, FailKept
<1>2. CASE G!RollbackFault(s)
  <2>1. /\ pc[s] = "records" /\ UNCHANGED <<routed, gen, made>>
        /\ pc'[s] = (IF made[s] = 0 THEN "idle" ELSE "compensate")
        /\ at'[s] = 1 /\ result'[s] = "failed_warned" /\ terminal'[s] = "cancelled"
    BY <1>2, SessionVariables DEF G!RollbackFault, G!Goto
  <2>2. \A st \in G!Student : <<gen[s], st>> \notin routed
    BY <2>1 DEF Mind, Built
  <2>3. CASE made[s] = 0
    BY <2>1, <2>3 DEF Mind, Built, Replaced, Undone, Building, Closing, Undoing
  <2>4. CASE made[s] # 0
    <3>1. pc'[s] = "compensate" /\ 1 <= made[s]
      BY <2>1, <2>4, TurnBounds
    <3>2. Undone(s)'
      BY <2>1, <2>2, <3>1 DEF Undone, Undoing
    <3> QED
      BY <2>1, <3>1, <3>2 DEF Mind, Built, Replaced, Building, Closing
  <2> QED
    BY <2>3, <2>4
<1>3. CASE G!TransitionFault(s)
  <2>0. UNCHANGED <<gen, plan, made, terminal, routed, status>>
    BY <1>3 DEF G!TransitionFault, G!worldVars
  <2>1. CASE pc[s] \in {"supersede", "supersede_write"} /\ G!SupersedeNext(s, "partial")
    <3>1. \A st \in G!Student : status[<<gen[s], st>>] \in Valid
      BY <2>1 DEF Mind, Built, Closing
    <3> QED
      BY <2>0, <2>1, <3>1, SupersedeNextKept DEF Closing
  <2>2. CASE /\ pc[s] \in {"compensate", "compensate_write"}
             /\ result' = [result EXCEPT ![s] = "failed_warned"]
             /\ G!Advance(s, "compensate", made[s], "idle")
    BY <2>0, <2>2, SessionVariables, CompensateNextKept DEF Undoing
  <2> QED
    BY <1>3, <2>1, <2>2 DEF G!TransitionFault
<1>4. CASE G!Crash(s)
  <2>1. pc'[s] = "idle" /\ result'[s] = "crashed" /\ terminal' = terminal
    BY <1>4, SessionVariables DEF G!Crash, G!End, G!Goto
  <2> QED
    BY <2>1, EndKept DEF Mind
<1> QED
  BY <1>1, <1>2, <1>3, <1>4 DEF G!FaultStep

LEMMA ActsKeep ==
  ASSUME Parameters, G!TypeOK, Numbered, G!IssuedIsRouted, NEW s \in Session, Mind(s), Acts(s)
  PROVE  Mind(s)'
<1>1. Moved(s) /\ allocated' \in Nat /\ allocated <= allocated'
  BY ActsMove, AllocatedGrows DEF Mind
<1>2. CASE G!Plan(s) \/ G!Generate(s)
  BY <1>2, PlanKept, GenerateKept
<1>3. CASE G!Decline(s)
  <2>1. pc'[s] = "idle" /\ result'[s] = "none" /\ UNCHANGED <<plan, gen, terminal>>
    BY <1>3, SessionVariables DEF G!Decline, G!End, G!Goto
  <2>2. Foreseen(s)'
    BY <1>1, <2>1, ForeseenKept DEF Mind, Outside
  <2> QED
    BY <2>1, <2>2, EndKept DEF Mind
<1>4. CASE ~ (G!Plan(s) \/ G!Generate(s) \/ G!Decline(s))
  <2>1. UNCHANGED <<plan, gen>> /\ pc[s] \notin Outside
    BY <1>4 DEF Acts, G!SessionStep, G!FaultStep, G!WriteRecords, G!WriteRoutes, G!Render,
         G!IssueCheck,
       G!IssueWrite, G!InstallCheck, G!Install, G!SupersedeCheck, G!SupersedeWrite,
       G!CompensateCheck,
       G!CompensateWrite, G!StageFault, G!RollbackFault, G!TransitionFault, G!Crash, Outside
  <2>2. Foreseen(s)'
    BY <1>1, <2>1, ForeseenKept DEF Mind
  <2> QED
    BY <1>1, <1>4, <2>2, WriteRecordsKept, WriteRoutesKept, RenderKept, IssueWriteKept,
       InstallKept, SupersedeKept, CompensateKept, FaultKept DEF Acts, G!SessionStep
<1> QED
  BY <1>2, <1>3, <1>4

-----------------------------------------------------------------------------
(* What a step does to what all sessions share.                            *)

(* A generation goes from stage to stage, and back to no stage.            *)
LEMMA Stages ==
  ASSUME Parameters, G!TypeOK, NEW s \in Session, Acts(s)
  PROVE  /\ G!Generate(s) \/ (gen' = gen /\ allocated' = allocated)
         /\ ~ G!Generate(s) /\ pc'[s] \notin Outside \cup Closing => pc[s] \notin Outside \cup Closing
         /\ pc'[s] \in Closing => pc[s] \in Closing \/ G!Install(s)
         /\ G!Install(s) \/ output' = output
<1>0. pc \in [Session -> G!Step]
  BY SessionVariables
<1>1. CASE G!Plan(s) \/ G!Decline(s) \/ G!Generate(s) \/ G!Render(s) \/ G!IssueCheck(s) \/ G!Install(s) \/ G!Crash(s)
  BY <1>0, <1>1 DEF G!Plan, G!Decline, G!Generate, G!Render, G!IssueCheck, G!Install, G!Crash,
       G!End, G!Goto,
     G!worldVars, Outside, Closing
<1>f. ASSUME G!Fail(s) PROVE pc'[s] \in {"idle", "compensate"}
  BY <1>f, FailMoves
<1>a. ASSUME NEW step, NEW last, NEW next, G!Advance(s, step, last, next)
      PROVE  pc'[s] \in {step, next}
  BY <1>0, <1>a DEF G!Advance, G!Goto
<1>2. CASE G!WriteRecords(s) \/ G!WriteRoutes(s) \/ G!IssueWrite(s) \/ G!InstallCheck(s) \/ G!StageFault(s)
           \/ G!RollbackFault(s)
  <2>1. /\ pc[s] \notin Outside \cup Closing /\ UNCHANGED <<gen, allocated, output>>
        /\ ~ G!Generate(s)
    BY <1>2 DEF G!WriteRecords, G!WriteRoutes, G!IssueWrite, G!InstallCheck, G!StageFault,
         G!RollbackFault,
       Outside, Closing, G!worldVars, G!Generate
  <2>2. pc'[s] \notin Closing
    BY <1>0, <1>2, <1>f, <1>a DEF G!WriteRecords, G!WriteRoutes, G!IssueWrite, G!InstallCheck,
         G!StageFault,
       G!RollbackFault, G!Goto, Closing
  <2> QED
    BY <2>1, <2>2
<1>3. CASE G!SupersedeCheck(s) \/ G!SupersedeWrite(s)
           \/ (G!TransitionFault(s) /\ pc[s] \in Closing)
  <2>1. /\ pc[s] \in Closing /\ UNCHANGED <<gen, allocated, output>>
    BY <1>3 DEF G!SupersedeCheck, G!SupersedeWrite, G!TransitionFault, Closing, G!worldVars
  <2>2. pc'[s] \in {"idle", "supersede", "supersede_write"}
    BY <1>0, <1>3, <1>a DEF G!SupersedeCheck, G!SupersedeWrite, G!TransitionFault,
         G!SupersedeNext, G!Goto, Closing
  <2> QED
    BY <2>1, <2>2 DEF Closing, Outside
<1>4. CASE G!CompensateCheck(s) \/ G!CompensateWrite(s)
           \/ (G!TransitionFault(s) /\ pc[s] \notin Closing)
  <2>1. /\ pc[s] \in Undoing /\ UNCHANGED <<gen, allocated, output>>
    BY <1>4 DEF G!CompensateCheck, G!CompensateWrite, G!TransitionFault, Closing, Undoing,
         G!worldVars
  <2>2. pc'[s] \in {"idle", "compensate", "compensate_write"}
    BY <1>0, <1>4, <1>a DEF G!CompensateCheck, G!CompensateWrite, G!TransitionFault, G!Goto, Closing
  <2> QED
    BY <2>1, <2>2 DEF Closing, Outside, Undoing
<1> QED
  BY <1>1, <1>2, <1>3, <1>4 DEF Acts, G!SessionStep, G!FaultStep

(* At most one record is written, or one student's routes.                 *)
LEMMA StatusSteps ==
  ASSUME NEW s \in Session, Acts(s)
  PROVE  \/ /\ UNCHANGED <<status, replacedBy>>
            /\ routed' = routed \/ (pc[s] = "routes" /\ routed' = routed \cup {G!Mine(s)})
         \/ /\ UNCHANGED routed
            /\ \/ /\ UNCHANGED replacedBy
                  /\ \/ pc[s] = "records" /\ status' = [status EXCEPT ![G!Mine(s)] = "prepared"]
                     \/ pc[s] = "issue_write" /\ status' = [status EXCEPT ![G!Mine(s)] = "issued"]
               \/ /\ pc[s] = "supersede_write"
                  /\ status' = [status EXCEPT ![G!Predecessor(s)] = "superseded"]
                  /\ replacedBy' = [replacedBy EXCEPT ![G!Predecessor(s)] = gen[s]]
               \/ /\ pc[s] = "compensate_write"
                  /\ status' = [status EXCEPT ![G!Mine(s)] = terminal[s]]
                  /\ replacedBy' = [replacedBy EXCEPT ![G!Mine(s)] = 0]
<1>1. CASE G!Plan(s) \/ G!Decline(s) \/ G!Generate(s) \/ G!Render(s) \/ G!IssueCheck(s) \/ G!InstallCheck(s)
           \/ G!Install(s) \/ G!SupersedeCheck(s) \/ G!CompensateCheck(s) \/ G!TransitionFault(s) \/ G!Crash(s)
  BY <1>1 DEF G!Plan, G!Decline, G!Generate, G!Render, G!IssueCheck, G!InstallCheck, G!Install,
       G!SupersedeCheck,
     G!CompensateCheck, G!TransitionFault, G!Crash, G!worldVars
<1>2. CASE G!WriteRecords(s) \/ G!WriteRoutes(s) \/ G!IssueWrite(s) \/ G!SupersedeWrite(s) \/ G!CompensateWrite(s)
           \/ G!StageFault(s) \/ G!RollbackFault(s)
  BY <1>2 DEF G!WriteRecords, G!WriteRoutes, G!IssueWrite, G!SupersedeWrite, G!CompensateWrite,
       G!StageFault,
     G!RollbackFault
<1> QED
  BY <1>1, <1>2 DEF Acts, G!SessionStep, G!FaultStep

LEMMA GenerationsApart ==
  ASSUME Parameters, G!TypeOK, Numbered, NEW s \in Session, Mind(s), Acts(s), Others(s), Moved(s)
  PROVE  Numbered'
<1>0. /\ allocated \in Nat /\ gen \in [Session -> 0 .. MaxGen] /\ \A t \in Session : gen[t] \in Nat
      /\ output \in Nat
  BY SessionVariables DEF Parameters
<1>1. \A t \in Session \ {s} : gen'[t] = gen[t] /\ pc'[t] = pc[t]
  BY DEF Others
<1>2. CASE G!Generate(s)
  <2>1. /\ gen'[s] = allocated + 1 /\ allocated' = allocated + 1 /\ UNCHANGED <<status, routed, output>>
    BY <1>0, <1>2 DEF G!Generate
  <2>2. \A t \in Session \ {s} : gen[t] <= allocated + 1 /\ gen[t] # allocated + 1
    BY <1>0 DEF Numbered
  <2>3. allocated + 1 <= allocated + 1 /\ allocated + 1 # 0 /\ output <= allocated + 1
    BY <1>0 DEF Numbered
  <2>4. \A i \in G!Issuance : i[1] \in Nat
    BY DEF G!Issuance, G!Gen, Parameters
  <2>5. \A i \in G!Issuance : i[1] <= allocated => i[1] <= allocated + 1
    BY <1>0, <2>4
  <2> QED
    BY <1>1, <2>1, <2>2, <2>3, <2>5 DEF Numbered
<1>3. CASE ~ G!Generate(s)
  <2>1. gen' = gen /\ allocated' = allocated
    BY <1>3, Stages
  <2>2. pc'[s] \notin Outside => gen[s] # 0
    <3>1. CASE pc'[s] \in Closing
      <4>1. pc[s] \notin Outside
        BY <3>1, Stages DEF G!Install, Outside, Closing
      <4> QED
        BY <4>1 DEF Numbered
    <3>2. CASE pc'[s] \notin Closing
      BY <1>3, <3>2, Stages DEF Numbered
    <3> QED
      BY <3>1, <3>2
  <2>3. output' <= allocated
    <3>1. CASE G!Install(s)
      BY <3>1 DEF G!Install, Numbered
    <3>2. CASE output' = output
      BY <3>2 DEF Numbered
    <3> QED
      BY <3>1, <3>2, Stages
  <2>4. \A i \in G!Issuance : status'[i] # "none" \/ i \in routed' => i[1] <= allocated
    <3>1. TAKE i \in G!Issuance
    <3>2. CASE i[1] = gen[s]
      BY <3>2 DEF Numbered
    <3>3. CASE i[1] # gen[s]
      BY <3>3 DEF Moved, Numbered, Settled, G!Terminal
    <3> QED
      BY <3>2, <3>3
  <2> QED
    BY <1>1, <2>1, <2>2, <2>3, <2>4 DEF Numbered
<1> QED
  BY <1>2, <1>3

(* The records and their routes.                                           *)
LEMMA RoutesKept ==
  ASSUME Parameters, G!TypeOK, Numbered, NEW s \in Session, Mind(s), Acts(s),
         G!IssuedIsRouted, G!CancelledHasNoRoute
  PROVE  G!IssuedIsRouted' /\ G!CancelledHasNoRoute'
<1>1. CASE UNCHANGED <<status, replacedBy>>
  <2>1. CASE routed' = routed
    BY <1>1, <2>1 DEF G!IssuedIsRouted, G!CancelledHasNoRoute
  <2>2. CASE pc[s] = "routes" /\ routed' = routed \cup {G!Mine(s)}
    <3>1. status[G!Mine(s)] = "prepared"
      BY <2>2, MineIsPrepared DEF Mind
    <3> QED
      BY <1>1, <2>2, <3>1 DEF G!IssuedIsRouted, G!CancelledHasNoRoute
  <2>3. routed' = routed \/ (pc[s] = "routes" /\ routed' = routed \cup {G!Mine(s)})
    BY <1>1, StatusSteps
  <2> QED
    BY <2>1, <2>2, <2>3
<1>2. ASSUME NEW i \in G!Issuance, NEW x, status' = [status EXCEPT ![i] = x], routed' = routed,
             x \in {"issued", "superseded"} => i \in routed,
             x = "cancelled" => i \notin routed
      PROVE  G!IssuedIsRouted' /\ G!CancelledHasNoRoute'
  <2>1. status'[i] = x /\ \A j \in G!Issuance : j # i => status'[j] = status[j]
    BY <1>2, SessionVariables
  <2> QED
    BY <1>2, <2>1 DEF G!IssuedIsRouted, G!CancelledHasNoRoute
<1>m. pc[s] \notin Outside => G!Mine(s) \in G!Issuance
  BY MineIsIssuance
<1>3. CASE /\ pc[s] = "records" /\ status' = [status EXCEPT ![G!Mine(s)] = "prepared"]
           /\ UNCHANGED routed
  BY <1>2, <1>3, <1>m DEF Outside
<1>4. CASE /\ pc[s] = "issue_write" /\ status' = [status EXCEPT ![G!Mine(s)] = "issued"]
           /\ UNCHANGED routed
  <2>1. G!Mine(s) \in routed
    BY <1>4, TurnIsStudent DEF G!Mine, Mind, Built, Building
  <2> QED
    BY <1>2, <1>4, <1>m, <2>1 DEF Outside
<1>5. CASE /\ pc[s] = "supersede_write" /\ status' = [status EXCEPT ![G!Predecessor(s)] = "superseded"]
           /\ UNCHANGED routed
  <2>1. plan[s].preds[at[s]] # 0
    BY <1>5 DEF Mind, Replaced
  <2>2. G!Predecessor(s) \in G!Issuance /\ G!Predecessor(s) \in routed
    BY <2>1, MineIsIssuance, TurnIsStudent DEF G!Predecessor, Mind, Foreseen
  <2> QED
    BY <1>2, <1>5, <2>2
<1>6. CASE /\ pc[s] = "compensate_write" /\ status' = [status EXCEPT ![G!Mine(s)] = terminal[s]]
           /\ UNCHANGED routed
  <2>1. /\ terminal[s] \in {"cancelled", "invalidated"}
        /\ terminal[s] = "cancelled" => G!Mine(s) \notin routed
    BY <1>6, TurnIsStudent DEF G!Mine, Mind, Undone, Undoing
  <2> QED
    BY <1>2, <1>6, <1>m, <2>1 DEF Outside
<1> QED
  BY <1>1, <1>3, <1>4, <1>5, <1>6, StatusSteps

(* What replaced an issuance stands.                                       *)
LEMMA LineageKept ==
  ASSUME Parameters, G!TypeOK, Numbered, NEW s \in Session, Mind(s), Acts(s), Others(s), Lineage
  PROVE  Lineage'
<1>1. ASSUME NEW i \in G!Issuance, status[i] = "superseded"
      PROVE  /\ <<replacedBy[i], i[2]>> \in G!Issuance /\ replacedBy[i] # 0
             /\ replacedBy[i] <= allocated /\ status[<<replacedBy[i], i[2]>>] \in Valid
             /\ replacedBy[i] > i[1]
  <2>1. replacedBy[i] > i[1] /\ status[<<replacedBy[i], i[2]>>] \in Valid
    BY <1>1 DEF Lineage
  <2>2. i[1] \in 1 .. MaxGen /\ i[2] \in G!Student /\ replacedBy[i] \in 0 .. MaxGen /\ MaxGen \in Nat
    BY SessionVariables DEF G!Issuance, G!Gen, Parameters
  <2>3. replacedBy[i] \in G!Gen /\ replacedBy[i] # 0
    BY <2>1, <2>2 DEF G!Gen
  <2>4. <<replacedBy[i], i[2]>> \in G!Issuance
    BY <2>2, <2>3 DEF G!Issuance
  <2>5. replacedBy[i] <= allocated
    <3>1. <<replacedBy[i], i[2]>>[1] = replacedBy[i] /\ status[<<replacedBy[i], i[2]>>] # "none"
      BY <2>1 DEF Valid
    <3> QED
      BY <2>4, <3>1 DEF Numbered
  <2> QED
    BY <2>1, <2>3, <2>4, <2>5
<1>2. ASSUME NEW i \in G!Issuance, status[i] = "superseded", NEW t \in Session, gen'[t] = replacedBy[i]
      PROVE  pc'[t] \in Outside \cup Closing
  <2>1. CASE G!Generate(s) /\ t = s
    <3>1. gen'[s] = allocated + 1 /\ allocated \in Nat
      BY <2>1, SessionVariables DEF G!Generate, Parameters
    <3>2. ~ (allocated + 1 <= allocated)
      BY <3>1
    <3> QED
      BY <1>1, <1>2, <2>1, <3>1, <3>2
  <2>2. CASE t # s
    BY <1>2, <2>2 DEF Others, Lineage
  <2>3. CASE ~ G!Generate(s) /\ t = s
    <3>1. gen[s] = replacedBy[i]
      BY <1>2, <2>3, Stages
    <3>2. pc[s] \in Outside \cup Closing
      BY <1>2, <3>1 DEF Lineage
    <3> QED
      BY <2>3, <3>2, Stages
  <2> QED
    BY <2>1, <2>2, <2>3
<1>m. pc[s] \notin Outside => G!Mine(s) \in G!Issuance /\ G!Mine(s)[1] = gen[s]
  BY MineIsIssuance DEF G!Mine
<1>s. status \in [G!Issuance -> G!Status] /\ replacedBy \in [G!Issuance -> 0 .. MaxGen]
  BY SessionVariables
<1>3. CASE UNCHANGED <<status, replacedBy>>
  BY <1>1, <1>2, <1>3 DEF Lineage
<1>4. CASE /\ pc[s] \in {"records", "issue_write"} /\ UNCHANGED replacedBy
           /\ \/ pc[s] = "records" /\ status' = [status EXCEPT ![G!Mine(s)] = "prepared"]
              \/ pc[s] = "issue_write" /\ status' = [status EXCEPT ![G!Mine(s)] = "issued"]
  <2>1. status[G!Mine(s)] \notin Valid
    BY <1>4, MineIsPrepared DEF Mind, Valid
  <2>2. \A i \in G!Issuance : /\ status'[i] = "superseded" => status[i] = "superseded"
                              /\ status[i] \in Valid => status'[i] \in Valid
    BY <1>4, <1>m, <1>s, <2>1 DEF Outside
  <2> QED
    BY <1>1, <1>2, <1>4, <2>2 DEF Lineage
<1>5. CASE /\ pc[s] = "supersede_write"
           /\ status' = [status EXCEPT ![G!Predecessor(s)] = "superseded"]
           /\ replacedBy' = [replacedBy EXCEPT ![G!Predecessor(s)] = gen[s]]
  <2>1. plan[s].preds[at[s]] # 0
    BY <1>5 DEF Mind, Replaced
  <2>2. /\ G!Predecessor(s) \in G!Issuance /\ gen[s] > plan[s].preds[at[s]]
        /\ G!Predecessor(s)[1] = plan[s].preds[at[s]] /\ G!Predecessor(s)[2] = at[s]
    <3>1. plan[s].preds[at[s]] < gen[s]
      BY <1>5, <2>1, TurnIsStudent DEF Mind, Foreseen, Outside
    <3>2. plan[s].preds[at[s]] \in Nat /\ gen[s] \in Nat
      BY TurnIsStudent, SessionVariables DEF PlanRecord, Parameters
    <3>3. gen[s] > plan[s].preds[at[s]]
      BY <3>1, <3>2
    <3> QED
      BY <2>1, <3>3, MineIsIssuance DEF G!Predecessor
  <2>3. \A i \in G!Issuance : status[i] \in Valid => status'[i] \in Valid
    BY <1>5, <1>s, <2>2 DEF Valid
  <2>4. G!Mine(s) \in G!Issuance /\ status'[<<gen[s], at[s]>>] \in Valid
    <3>1. status[G!Mine(s)] \in Valid
      BY <1>5, TurnIsStudent DEF Mind, Built, Closing, G!Mine
    <3> QED
      BY <1>5, <1>m, <2>3, <3>1 DEF Outside, G!Mine
  <2>5. ASSUME NEW t \in Session, gen'[t] = gen[s]
        PROVE  pc'[t] \in Outside \cup Closing
    <3>1. ~ G!Generate(s) /\ gen[s] # 0
      BY <1>5 DEF G!Generate, Numbered, Outside
    <3>2. t = s
      BY <2>5, <3>1, Stages DEF Numbered
    <3>3. pc[s] \in Closing
      BY <1>5 DEF Closing
    <3> QED
      BY <3>1, <3>2, <3>3, Stages
  <2>6. \A i \in G!Issuance : i # G!Predecessor(s) =>
          status'[i] = status[i] /\ replacedBy'[i] = replacedBy[i]
    BY <1>5, <1>s
  <2>7. replacedBy'[G!Predecessor(s)] = gen[s]
    BY <1>5, <1>s, <2>2
  <2> QED
    <3> SUFFICES ASSUME NEW i \in G!Issuance, status'[i] = "superseded"
                 PROVE  /\ replacedBy'[i] > i[1] /\ status'[<<replacedBy'[i], i[2]>>] \in Valid
                        /\ \A t \in Session : gen'[t] = replacedBy'[i] => pc'[t] \in Outside \cup Closing
      BY DEF Lineage
    <3>1. CASE i = G!Predecessor(s)
      BY <2>2, <2>4, <2>5, <2>7, <3>1
    <3>2. CASE i # G!Predecessor(s)
      BY <1>1, <1>2, <2>3, <2>6, <3>2
    <3> QED
      BY <3>1, <3>2
<1>6. CASE /\ pc[s] = "compensate_write" /\ status' = [status EXCEPT ![G!Mine(s)] = terminal[s]]
           /\ replacedBy' = [replacedBy EXCEPT ![G!Mine(s)] = 0]
  <2>1. terminal[s] # "superseded"
    BY DEF Mind, Undone
  <2>2. \A i \in G!Issuance : i # G!Mine(s) =>
          status'[i] = status[i] /\ replacedBy'[i] = replacedBy[i]
    BY <1>6, <1>s
  <2>3. status'[G!Mine(s)] = terminal[s]
    BY <1>6, <1>m, <1>s DEF Outside
  <2>4. ASSUME NEW i \in G!Issuance, status[i] = "superseded"
        PROVE  <<replacedBy[i], i[2]>> # G!Mine(s)
    <3>1. CASE replacedBy[i] = gen[s]
      BY <1>6, <2>4, <3>1 DEF Lineage, Outside, Closing
    <3>2. CASE replacedBy[i] # gen[s]
      BY <3>2 DEF G!Mine
    <3> QED
      BY <3>1, <3>2
  <2> QED
    <3> SUFFICES ASSUME NEW i \in G!Issuance, status'[i] = "superseded"
                 PROVE  /\ replacedBy'[i] > i[1] /\ status'[<<replacedBy'[i], i[2]>>] \in Valid
                        /\ \A t \in Session : gen'[t] = replacedBy'[i] => pc'[t] \in Outside \cup Closing
      BY DEF Lineage
    <3>1. i # G!Mine(s)
      BY <2>1, <2>3
    <3> QED
      BY <1>1, <1>2, <2>2, <2>4, <3>1
<1> QED
  BY <1>3, <1>4, <1>5, <1>6, StatusSteps

(* The only session that generates installs its packet once issued, and    *)
(* nothing supersedes a packet but a later one.                            *)
LEMMA SingleKept ==
  ASSUME Parameters, G!TypeOK, Numbered, NEW s \in Session, Mind(s), Acts(s), Others(s), Lineage,
         Single
  PROVE  Single'
<1> SUFFICES ASSUME Solo' PROVE Single'
  BY DEF Single
<1>g. /\ \A t \in Session : gen[t] \in Nat
      /\ allocated \in Nat /\ output \in Nat /\ gen \in [Session -> 0 .. MaxGen]
      /\ allocated + 1 # 0 /\ output <= allocated
  BY SessionVariables DEF Parameters, Numbered
<1>1. /\ G!Generate(s) => gen'[s] = allocated + 1 /\ allocated' = allocated + 1
      /\ ~ G!Generate(s) => gen' = gen /\ allocated' = allocated
  BY <1>g, Stages DEF G!Generate
<1>2. Solo /\ \A t \in Session : gen'[t] # 0 => \A u \in Session : gen'[u] # 0 => u = t
  <2>1. ASSUME NEW t \in Session, gen[t] # 0 PROVE gen'[t] # 0
    BY <1>g, <1>1, <2>1 DEF Others
  <2> QED
    BY <2>1 DEF Solo
<1>3. /\ G!OutputIsIssued
      /\ \A t \in Session : /\ gen[t] # 0 => gen[t] = allocated
                            /\ pc[t] \in Closing => output = gen[t]
                            /\ pc[t] \in Building \cup Undoing => output # gen[t]
  BY <1>2 DEF Single
<1>p. \A t \in Session \ {s} : gen'[t] = gen[t] /\ pc'[t] = pc[t]
  BY DEF Others
<1>n. \A t \in Session : pc[t] \notin Outside => gen[t] # 0
  BY DEF Numbered
<1>4. CASE G!Install(s)
  <2>0. /\ pc[s] = "install" /\ output' = gen[s] /\ UNCHANGED <<status, allocated, gen>>
        /\ pc'[s] = "supersede" /\ gen[s] # 0
    BY <1>4, SessionVariables DEF G!Install, G!Goto, Numbered, Outside
  <2>1. ASSUME NEW st \in G!Student PROVE status[<<gen[s], st>>] = "issued"
    <3>1. status[<<gen[s], st>>] \in Valid
      BY <2>0 DEF Mind, Built
    <3>2. CASE status[<<gen[s], st>>] = "superseded"
      <4>1. <<gen[s], st>> \in G!Issuance
        BY <2>0, SessionVariables DEF G!Issuance, G!Gen, Parameters
      <4>2. PICK h \in 0 .. MaxGen : h = replacedBy[<<gen[s], st>>]
        BY <4>1, SessionVariables
      <4>3. h > gen[s] /\ status[<<h, st>>] \in Valid
        BY <3>2, <4>1, <4>2 DEF Lineage
      <4>4. <<h, st>> \in G!Issuance /\ h \in Nat
        BY <1>g, <4>3 DEF G!Issuance, G!Gen, Parameters
      <4>5. h <= allocated
        BY <4>3, <4>4 DEF Numbered, Valid
      <4>6. gen[s] = allocated
        BY <1>3, <2>0
      <4> QED
        BY <1>g, <4>3, <4>4, <4>5, <4>6
    <3> QED
      BY <3>1, <3>2 DEF Valid
  <2>2. G!OutputIsIssued'
    BY <2>0, <2>1 DEF G!OutputIsIssued
  <2>3. \A t \in Session : t # s => pc'[t] \notin Closing \cup Building \cup Undoing
    BY <1>2, <1>p, <1>n, <2>0 DEF Outside, Closing, Building, Undoing
  <2>4. pc'[s] \notin Building \cup Undoing
    BY <2>0 DEF Building, Undoing
  <2> QED
    BY <1>3, <2>0, <2>2, <2>3, <2>4 DEF Single
<1>5. CASE ~ G!Install(s)
  <2>0. output' = output
    BY <1>5, Stages
  <2>1. ASSUME output # 0, NEW st \in G!Student PROVE status'[<<output, st>>] = "issued"
    <3>0. /\ status[<<output, st>>] = "issued" /\ <<output, st>> \in G!Issuance
          /\ status \in [G!Issuance -> G!Status]
      BY <1>3, <2>1, SessionVariables DEF G!OutputIsIssued, G!Issuance, G!Gen, Parameters
    <3>1. CASE pc[s] \in {"records", "issue_write", "compensate_write"}
      <4>1. output # gen[s]
        BY <1>3, <3>1 DEF Building, Undoing
      <4>2. status' = status \/ \E x : status' = [status EXCEPT ![G!Mine(s)] = x]
        BY <3>1, StatusSteps
      <4> QED
        BY <3>0, <4>1, <4>2 DEF G!Mine
    <3>2. CASE pc[s] = "supersede_write"
      <4>1. output = gen[s] /\ plan[s].preds[at[s]] # 0
        BY <1>3, <3>2 DEF Closing, Mind, Replaced
      <4>2. plan[s].preds[at[s]] < gen[s]
        BY <3>2, <4>1, TurnIsStudent DEF Mind, Foreseen, Outside
      <4>3. plan[s].preds[at[s]] \in Nat /\ gen[s] \in Nat
        BY TurnIsStudent, SessionVariables DEF PlanRecord, Parameters
      <4>4. plan[s].preds[at[s]] # gen[s]
        BY <4>2, <4>3
      <4>5. status' = status \/ status' = [status EXCEPT ![G!Predecessor(s)] = "superseded"]
        BY <3>2, StatusSteps
      <4> QED
        BY <3>0, <4>1, <4>4, <4>5 DEF G!Predecessor
    <3>3. CASE pc[s] \notin {"records", "issue_write", "compensate_write", "supersede_write"}
      BY <3>0, <3>3, StatusSteps
    <3> QED
      BY <3>1, <3>2, <3>3
  <2>2. G!OutputIsIssued'
    BY <2>0, <2>1 DEF G!OutputIsIssued
  <2>3. ASSUME NEW t \in Session
        PROVE  /\ gen'[t] # 0 => gen'[t] = allocated'
               /\ pc'[t] \in Closing => output = gen'[t]
               /\ pc'[t] \in Building \cup Undoing => output # gen'[t]
    <3>1. CASE G!Generate(s) /\ t = s
      <4>1. pc'[s] = "records" /\ output # allocated + 1
        BY <1>g, <3>1, SessionVariables DEF G!Generate, G!Goto
      <4> QED
        BY <1>1, <3>1, <4>1 DEF Closing
    <3>2. CASE G!Generate(s) /\ t # s
      <4>1. gen'[s] # 0
        BY <1>g, <1>1, <3>2
      <4>2. gen'[t] = 0 /\ pc'[t] \in Outside
        BY <1>2, <1>p, <1>n, <3>2, <4>1
      <4> QED
        BY <4>2 DEF Outside, Closing, Building, Undoing
    <3>3. CASE ~ G!Generate(s) /\ t = s
      <4>1. /\ pc'[s] \in Closing => pc[s] \in Closing
            /\ pc'[s] \in Building \cup Undoing => pc[s] \notin Outside \cup Closing
        BY <1>5, <3>3, Stages DEF Outside, Closing, Building, Undoing
      <4>2. pc[s] \notin Outside \cup Closing => pc[s] \in Building \cup Undoing
        BY SessionVariables DEF G!Step, G!Writing, Outside, Closing, Building, Undoing
      <4> QED
        BY <1>1, <1>3, <3>3, <4>1, <4>2
    <3>4. CASE ~ G!Generate(s) /\ t # s
      BY <1>1, <1>3, <1>p, <3>4
    <3> QED
      BY <3>1, <3>2, <3>3, <3>4
  <2> QED
    BY <2>0, <2>2, <2>3 DEF Single
<1> QED
  BY <1>4, <1>5

-----------------------------------------------------------------------------
(* The invariant holds at first, and every step keeps it.                  *)

LEMMA InitHolds ==
  ASSUME Parameters, G!Init
  PROVE  PacketInv
<1>1. /\ 1 \in G!Student /\ 0 \in 0 .. NStudents /\ 0 \in 0 .. MaxGen /\ 0 \in 0 .. MaxEdits
      /\ 0 \in 0 .. MaxFaults /\ G!NoPlan \in PlanRecord
      /\ \A st \in G!Student : G!NoPlan.preds[st] = 0
  BY DEF Parameters, G!Student, G!NoPlan, PlanRecord
<1>2. G!TypeOK
  BY <1>1 DEF G!Init, G!TypeOK, PlanRecord, G!Status, G!Step, G!Result, G!Terminal
<1>3. /\ \A s \in Session : gen[s] = 0 /\ pc[s] = "idle" /\ result[s] = "none"
                            /\ terminal[s] = "cancelled" /\ plan[s] = G!NoPlan
      /\ \A i \in G!Issuance : status[i] = "none" /\ i \notin routed
      /\ output = 0 /\ allocated = 0
  BY DEF G!Init
<1>4. Numbered
  BY <1>3 DEF Numbered, Outside
<1>5. \A s \in Session : Built(s) /\ Foreseen(s) /\ Replaced(s) /\ Undone(s)
  BY <1>1, <1>3 DEF Built, Foreseen, Replaced, Undone, Building, Closing, Undoing
<1>6. G!IssuedIsRouted /\ G!CancelledHasNoRoute /\ Lineage
  BY <1>3 DEF G!IssuedIsRouted, G!CancelledHasNoRoute, Lineage
<1>7. Single
  BY <1>3 DEF Single, G!OutputIsIssued, Building, Closing, Undoing
<1>8. IsFiniteSet({s \in Session : gen[s] # 0})
  <2>1. {s \in Session : gen[s] # 0} = {}
    BY <1>3
  <2> QED
    BY <2>1, FS_EmptySet
<1> QED
  BY <1>2, <1>4, <1>5, <1>6, <1>7, <1>8 DEF PacketInv

LEMMA EditKeeps ==
  ASSUME Parameters, PacketInv, G!EditSources
  PROVE  PacketInv'
<1>1. /\ UNCHANGED <<status, replacedBy, routed, output, litter, allocated, pc, gen, plan, at, made,
                     terminal, result, faults>>
  BY DEF G!EditSources
<1>2. G!TypeOK'
  <2>1. source' \in 0 .. MaxEdits
    BY DEF G!EditSources, PacketInv, G!TypeOK, Parameters
  <2> QED
    BY <1>1, <2>1 DEF PacketInv, G!TypeOK
<1>3. Numbered' /\ G!IssuedIsRouted' /\ G!CancelledHasNoRoute' /\ Lineage'
  BY <1>1 DEF PacketInv, Numbered, G!IssuedIsRouted, G!CancelledHasNoRoute, Lineage
<1>4. Single'
  BY <1>1 DEF PacketInv, Single, Solo, G!OutputIsIssued
<1>5. ASSUME NEW s \in Session PROVE Built(s)' /\ Foreseen(s)' /\ Replaced(s)' /\ Undone(s)'
  BY <1>1 DEF PacketInv, Built, Foreseen, Replaced, Closed, Undone
<1> QED
  BY <1>1, <1>2, <1>3, <1>4, <1>5 DEF PacketInv

LEMMA ActKeeps ==
  ASSUME Parameters, PacketInv, NEW s \in Session, Acts(s)
  PROVE  PacketInv'
<1>1. /\ G!TypeOK /\ Numbered /\ G!IssuedIsRouted /\ G!CancelledHasNoRoute /\ Lineage /\ Single
      /\ \A t \in Session : Mind(t)
  BY DEF PacketInv, Mind
<1>2. G!TypeOK' /\ Others(s) /\ Moved(s) /\ allocated' \in Nat /\ allocated <= allocated'
  BY <1>1, ActsTyped, ActsMove, AllocatedGrows DEF Mind
<1>3. \A t \in Session : Built(t)' /\ Foreseen(t)' /\ Replaced(t)' /\ Undone(t)'
  <2>1. Mind(s)'
    BY <1>1, ActsKeep
  <2>2. ASSUME NEW t \in Session \ {s} PROVE Built(t)' /\ Foreseen(t)' /\ Replaced(t)' /\ Undone(t)'
    BY <1>1, <1>2, OthersKeep DEF Mind
  <2> QED
    BY <2>1, <2>2 DEF Mind
<1>4. Numbered' /\ G!IssuedIsRouted' /\ G!CancelledHasNoRoute' /\ Lineage' /\ Single'
  BY <1>1, <1>2, GenerationsApart, RoutesKept, LineageKept, SingleKept
<1>5. IsFiniteSet({t \in Session : gen'[t] # 0})
  <2>1. IsFiniteSet({t \in Session : gen[t] # 0} \cup {s})
    BY FS_AddElement DEF PacketInv
  <2>2. {t \in Session : gen'[t] # 0} \subseteq {t \in Session : gen[t] # 0} \cup {s}
    BY <1>2 DEF Others
  <2> QED
    BY <2>1, <2>2, FS_Subset
<1> QED
  BY <1>2, <1>3, <1>4, <1>5 DEF PacketInv

LEMMA StepKeeps ==
  ASSUME Parameters, PacketInv, [G!Next]_(G!vars)
  PROVE  PacketInv'
<1>1. CASE G!Next
  BY <1>1, EditKeeps, ActKeeps DEF G!Next, Acts
<1>2. CASE UNCHANGED G!vars
  <2>1. UNCHANGED <<status, replacedBy, routed, output, source, litter, allocated, pc, gen, plan, at,
                    made, terminal, result, faults>>
    BY <1>2 DEF G!vars
  <2>2. G!TypeOK' /\ Numbered' /\ G!IssuedIsRouted' /\ G!CancelledHasNoRoute' /\ Lineage'
    BY <2>1 DEF PacketInv, G!TypeOK, Numbered, G!IssuedIsRouted, G!CancelledHasNoRoute, Lineage
  <2>3. Single'
    BY <2>1 DEF PacketInv, Single, Solo, G!OutputIsIssued
  <2>4. ASSUME NEW s \in Session PROVE Built(s)' /\ Foreseen(s)' /\ Replaced(s)' /\ Undone(s)'
    BY <2>1 DEF PacketInv, Built, Foreseen, Replaced, Closed, Undone
  <2> QED
    BY <2>1, <2>2, <2>3, <2>4 DEF PacketInv
<1> QED
  BY <1>1, <1>2

(* What the invariant says of printed pages and of the lineage.            *)
LEMMA PacketTold ==
  ASSUME Parameters, PacketInv
  PROVE  /\ G!IssuedIsRouted /\ G!CancelledHasNoRoute /\ G!FailureLeavesNothingLive
         /\ G!LineageForward /\ G!CleanInstallClosesLineage
         /\ Solo => G!OutputIsIssued
<1>1. G!FailureLeavesNothingLive
  BY DEF PacketInv, Undone, G!FailureLeavesNothingLive
<1>2. G!LineageForward
  BY DEF PacketInv, Lineage, G!LineageForward, Valid
<1>3. G!CleanInstallClosesLineage
  <2> SUFFICES ASSUME NEW s \in Session, pc[s] = "idle", result[s] = "installed", NEW st \in G!Student,
                      plan[s].preds[st] # 0
               PROVE  status[<<plan[s].preds[st], st>>] \in G!Terminal
    BY DEF G!CleanInstallClosesLineage
  <2>1. Closed(s, NStudents + 1)
    BY DEF PacketInv, Replaced
  <2>2. st < NStudents + 1
    BY TurnBounds DEF PacketInv
  <2> QED
    BY <2>1, <2>2 DEF Closed
<1> QED
  BY <1>1, <1>2, <1>3 DEF PacketInv, Single

-----------------------------------------------------------------------------
(***************************************************************************)
(* The page.                                                               *)
(***************************************************************************)
\* A call that runs has a page at hand.
HasPage(s) == pc[s] \notin {"idle", "list"} => todo[s] # <<>>

\* From the rendering on, the call holds the bytes it will put.
Rendered == {"look", "existing", "orphan", "temps", "linkEvidence", "inspectEvidence",
             "linkObservation", "inspectObservation", "rollback", "dropTemp", "reload"}
HasContent(s) == pc[s] \in Rendered => content[s] \in Rendering

\* Between the link of the evidence and the end of the observation's, the
\* evidence of the page at hand is this call's.
Owning == {"linkObservation", "inspectObservation", "rollback", "dropTemp"}
Owns(s) ==
  pc[s] \in Owning => evidence[O!Current(s)] = content[s] /\ owner[O!Current(s)] = s

\* Nobody records a page whose evidence a running call put.
Unrecorded(s) ==
  pc[s] \in {"linkObservation", "rollback"} => observation[O!Current(s)] = Absent

Typed == O!TypeOK /\ \A s \in Session : HasPage(s)

IInv ==
  /\ Typed
  /\ O!ObservationHasEvidence
  /\ \A s \in Session : HasContent(s) /\ Owns(s) /\ Unrecorded(s)

-----------------------------------------------------------------------------
(* The types.                                                              *)

(* A call that runs has a page of the work at hand.                        *)
LEMMA CurrentIsPage ==
  ASSUME Typed, NEW s \in Session, pc[s] \notin {"idle", "list"}
  PROVE  O!Current(s) \in Page
<1>1. todo[s] \in Seq(Page) /\ todo[s] # <<>>
  BY DEF Typed, O!TypeOK, HasPage
<1> QED
  BY <1>1 DEF O!Current

(* What is left of the pages to persist.                                   *)
LEMMA TailIsPages ==
  ASSUME Typed, NEW s \in Session, pc[s] \notin {"idle", "list"}
  PROVE  /\ Tail(todo[s]) \in Seq(Page)
         /\ Len(todo[s]) # 1 => Tail(todo[s]) # <<>>
<1>1. todo[s] \in Seq(Page) /\ todo[s] # <<>>
  BY DEF Typed, O!TypeOK, HasPage
<1>2. Tail(todo[s]) \in Seq(Page) /\ Len(Tail(todo[s])) = Len(todo[s]) - 1
  BY <1>1, HeadTailProperties
<1>3. Len(todo[s]) \in Nat /\ Len(<<>>) = 0
  BY <1>1, LenProperties
<1>4. ASSUME Tail(todo[s]) = <<>> PROVE Len(todo[s]) = 1
  <2>1. Len(Tail(todo[s])) = 0
    BY <1>3, <1>4
  <2> QED
    BY <1>2, <1>3, <2>1
<1> QED
  BY <1>2, <1>4

(* A reported answer is an answer.                                         *)
LEMMA ReportIsAnswer ==
  ASSUME Typed, NEW s \in Session, pc[s] \notin {"idle", "list"},
         NEW said \in O!Status, NEW obs \in BOOLEAN, NEW evi \in BOOLEAN,
         O!Report(s, said, obs, evi)
  PROVE  answer' \in [Session -> O!Answer]
<1>1. O!Current(s) \in Page
  BY CurrentIsPage
<1>2. [status |-> said, page |-> O!Current(s), namesObservation |-> obs, namesEvidence |-> evi]
        \in O!Answer
  BY <1>1 DEF O!Answer
<1> QED
  BY <1>2 DEF O!Report, Typed, O!TypeOK

(* A page that gets its answer leaves the call in its finally clause.      *)
LEMMA EndPageTyped ==
  ASSUME Typed, NEW s \in Session, pc[s] \notin {"idle", "list"},
         NEW said \in O!Status, NEW obs \in BOOLEAN, NEW evi \in BOOLEAN,
         O!EndPage(s, said, obs, evi),
         evidence' \in [Page -> Rendering \cup {Absent}],
         observation' \in [Page -> Rendering \cup {Absent}],
         owner' \in [Page -> Session \cup {Absent}],
         issued' = issued, unlisted' = unlisted, faults' \in 0 .. MaxFaults
  PROVE  Typed'
<1>1. answer' \in [Session -> O!Answer]
  BY ReportIsAnswer DEF O!EndPage
<1>2. pc' = [pc EXCEPT ![s] = "cleanup"] /\ todo' = todo /\ temp' = temp /\ stray' = stray
      /\ content' = content
  BY DEF O!EndPage, O!Goto
<1>3. O!TypeOK'
  BY <1>1, <1>2 DEF Typed, O!TypeOK, O!Step
<1>4. \A t \in Session : HasPage(t)'
  BY <1>2 DEF Typed, O!TypeOK, HasPage
<1> QED
  BY <1>3, <1>4 DEF Typed

(* Faults stay within their bound.                                         *)
LEMMA PageFaultsBounded ==
  ASSUME MaxFaults \in Nat, Typed, O!Fault \/ UNCHANGED faults
  PROVE  faults' \in 0 .. MaxFaults
<1>1. faults \in 0 .. MaxFaults
  BY DEF Typed, O!TypeOK
<1> QED
  BY <1>1 DEF O!Fault

LEMMA InitTyped ==
  ASSUME MaxFaults \in Nat, O!Init
  PROVE  Typed
<1>1. <<>> \in Seq(Page)
  OBVIOUS
<1>2. O!NoAnswer \in O!Answer
  BY DEF O!NoAnswer, O!Answer, O!Status
<1>3. faults \in 0 .. MaxFaults
  BY DEF O!Init
<1>4. todo \in [Session -> Seq(Page)] /\ answer \in [Session -> O!Answer]
  BY <1>1, <1>2 DEF O!Init
<1>5. O!TypeOK
  BY <1>3, <1>4 DEF O!Init, O!TypeOK, O!Step
<1>6. \A s \in Session : HasPage(s)
  BY DEF O!Init, HasPage
<1> QED
  BY <1>5, <1>6 DEF Typed

-----------------------------------------------------------------------------
(* Every step keeps the types.                                             *)

(* A page that gets its answer.                                            *)
LEMMA EndPageStepTyped ==
  ASSUME MaxFaults \in Nat, Typed, NEW s \in Session,
         \/ O!Unauthorized(s) \/ O!PrepareFault(s) \/ O!ValidateExisting(s) \/ O!BeforeLinkFault(s)
         \/ O!InspectEvidence(s) \/ O!RollBackEvidence(s) \/ O!RollBackFault(s) \/ O!Reload(s)
         \/ O!ReloadFault(s)
         \/ O!LookForOrphan(s) /\ evidence[O!Current(s)] # Absent
         \/ O!InspectObservation(s) /\ observation[O!Current(s)] # Absent
  PROVE  Typed'
<1>1. pc[s] \notin {"idle", "list"}
  BY DEF O!Unauthorized, O!PrepareFault, O!ValidateExisting, O!BeforeLinkFault, O!InspectEvidence,
         O!RollBackEvidence, O!RollBackFault, O!Reload, O!ReloadFault, O!LookForOrphan,
         O!InspectObservation
<1>2. faults' \in 0 .. MaxFaults
  <2>1. O!Fault \/ UNCHANGED faults
    BY DEF O!Unauthorized, O!PrepareFault, O!ValidateExisting, O!BeforeLinkFault, O!InspectEvidence,
           O!RollBackEvidence, O!RollBackFault, O!Reload, O!ReloadFault, O!LookForOrphan,
           O!InspectObservation
  <2> QED
    BY <2>1, PageFaultsBounded
<1>3. /\ evidence' \in [Page -> Rendering \cup {Absent}]
      /\ observation' = observation
      /\ owner' \in [Page -> Session \cup {Absent}]
      /\ issued' = issued /\ unlisted' = unlisted
  BY DEF Typed, O!TypeOK, O!Unauthorized, O!PrepareFault, O!ValidateExisting, O!BeforeLinkFault,
         O!InspectEvidence, O!RollBackEvidence, O!RollBackFault, O!Reload, O!ReloadFault,
         O!LookForOrphan,
         O!InspectObservation
<1>4. observation' \in [Page -> Rendering \cup {Absent}]
  BY <1>3 DEF Typed, O!TypeOK
<1>5. /\ "failed" \in O!Status /\ "integrity" \in O!Status
      /\ "existing" \in O!Status /\ "created" \in O!Status
  BY DEF O!Status
<1>6. ASSUME NEW said \in O!Status, NEW obs \in BOOLEAN, NEW evi \in BOOLEAN,
             O!EndPage(s, said, obs, evi)
      PROVE  Typed'
  BY <1>1, <1>2, <1>3, <1>4, <1>6, EndPageTyped
<1>7. CASE O!Unauthorized(s)
  BY <1>5, <1>6, <1>7 DEF O!Unauthorized
<1>8. CASE O!PrepareFault(s)
  BY <1>5, <1>6, <1>8 DEF O!PrepareFault
<1>9. CASE O!ValidateExisting(s)
  BY <1>5, <1>6, <1>9 DEF O!ValidateExisting
<1>10. CASE O!BeforeLinkFault(s)
  BY <1>5, <1>6, <1>10 DEF O!BeforeLinkFault
<1>11. CASE O!InspectEvidence(s)
  BY <1>5, <1>6, <1>11 DEF O!InspectEvidence
<1>12. CASE O!RollBackEvidence(s)
  BY <1>5, <1>6, <1>12 DEF O!RollBackEvidence
<1>13. CASE O!RollBackFault(s)
  BY <1>5, <1>6, <1>13 DEF O!RollBackFault
<1>14. CASE O!Reload(s)
  BY <1>5, <1>6, <1>14 DEF O!Reload
<1>15. CASE O!ReloadFault(s)
  BY <1>5, <1>6, <1>15 DEF O!ReloadFault
<1>16. CASE O!LookForOrphan(s) /\ evidence[O!Current(s)] # Absent
  BY <1>5, <1>6, <1>16 DEF O!LookForOrphan
<1>17. CASE O!InspectObservation(s) /\ observation[O!Current(s)] # Absent
  BY <1>5, <1>6, <1>17 DEF O!InspectObservation, O!Inspect
<1> QED
  BY <1>7, <1>8, <1>9, <1>10, <1>11, <1>12, <1>13, <1>14, <1>15, <1>16, <1>17

(* A step inside a call that keeps the page at hand.                       *)
LEMMA PageMoveTyped ==
  ASSUME Typed, NEW s \in Session, pc[s] \notin {"idle", "list"},
         NEW step \in O!Step, O!Goto(s, step), todo' = todo,
         content' \in [Session -> Rendering \cup {Absent}],
         answer' = answer, unlisted' = unlisted, stray' = stray, issued' = issued,
         temp' \in [Session -> BOOLEAN],
         evidence' \in [Page -> Rendering \cup {Absent}],
         observation' \in [Page -> Rendering \cup {Absent}],
         owner' \in [Page -> Session \cup {Absent}],
         faults' \in 0 .. MaxFaults
  PROVE  Typed'
<1>1. O!TypeOK'
  BY DEF Typed, O!TypeOK, O!Goto
<1>2. \A t \in Session : HasPage(t)'
  BY DEF Typed, O!TypeOK, HasPage, O!Goto
<1> QED
  BY <1>1, <1>2 DEF Typed

LEMMA MoveStepTyped ==
  ASSUME MaxFaults \in Nat, Typed, NEW s \in Session,
         \/ \E r \in Rendering : O!Prepare(s, r)
         \/ O!LookForObservation(s) \/ O!WriteTemporaries(s) \/ O!LinkEvidence(s)
         \/ O!LinkEvidenceCollides(s) \/ O!LinkEvidenceFault(s) \/ O!LinkObservation(s)
         \/ O!LinkObservationFault(s) \/ O!DropTemporary(s) \/ O!DropTemporaryFault(s)
         \/ O!LookForOrphan(s) /\ evidence[O!Current(s)] = Absent
         \/ O!InspectObservation(s) /\ observation[O!Current(s)] = Absent
  PROVE  Typed'
<1> USE DEF O!Prepare, O!LookForObservation, O!WriteTemporaries, O!LinkEvidence, O!LinkEvidenceCollides,
            O!LinkEvidenceFault, O!LinkObservation, O!LinkObservationFault, O!DropTemporary,
            O!DropTemporaryFault, O!LookForOrphan, O!InspectObservation, O!Inspect, O!Remains
<1>1. pc[s] \notin {"idle", "list"}
  OBVIOUS
<1>2. faults' \in 0 .. MaxFaults
  <2>1. O!Fault \/ UNCHANGED faults
    OBVIOUS
  <2> QED
    BY <2>1, PageFaultsBounded
<1>3. O!Current(s) \in Page
  BY <1>1, CurrentIsPage
<1>4. evidence' \in [Page -> Rendering \cup {Absent}] /\ owner' \in [Page -> Session \cup {Absent}]
  BY <1>3 DEF O!PutEvidence, Typed, O!TypeOK
<1>5. observation' \in [Page -> Rendering \cup {Absent}]
  BY <1>3 DEF O!PutObservation, Typed, O!TypeOK
<1>6. /\ temp' \in [Session -> BOOLEAN] /\ content' \in [Session -> Rendering \cup {Absent}]
      /\ todo' = todo /\ answer' = answer /\ unlisted' = unlisted /\ stray' = stray
      /\ issued' = issued
  BY DEF Typed, O!TypeOK
<1>7. \E step \in O!Step : O!Goto(s, step)
  BY DEF O!Step
<1> QED
  BY <1>1, <1>2, <1>4, <1>5, <1>6, <1>7, PageMoveTyped

(* On to the next page, or done.                                           *)
LEMMA NextPageTyped ==
  ASSUME MaxFaults \in Nat, Typed, NEW s \in Session, O!CleanUp(s) \/ O!CleanUpFault(s)
  PROVE  Typed'
<1>1. pc[s] \notin {"idle", "list"} /\ O!NextPage(s) /\ stray' \in BOOLEAN
  BY DEF O!CleanUp, O!CleanUpFault, Typed, O!TypeOK
<1>2. faults' \in 0 .. MaxFaults
  BY PageFaultsBounded DEF O!CleanUp, O!CleanUpFault
<1>3. Tail(todo[s]) \in Seq(Page) /\ (Len(todo[s]) # 1 => Tail(todo[s]) # <<>>)
  BY <1>1, TailIsPages
<1>4. /\ evidence' = evidence /\ observation' = observation /\ issued' = issued
      /\ unlisted' = unlisted /\ answer' = answer
      /\ temp' = [temp EXCEPT ![s] = FALSE] /\ content' = [content EXCEPT ![s] = Absent]
      /\ todo' = [todo EXCEPT ![s] = Tail(@)]
      /\ pc' = [pc EXCEPT ![s] = IF Len(todo[s]) = 1 THEN "idle" ELSE "page"]
      /\ owner' \in [Page -> Session \cup {Absent}]
  BY <1>1 DEF O!NextPage, O!Goto, O!Disown, Typed, O!TypeOK
<1>5. O!TypeOK'
  BY <1>1, <1>2, <1>3, <1>4 DEF Typed, O!TypeOK, O!Step
<1>6. \A t \in Session : HasPage(t)'
  BY <1>3, <1>4 DEF Typed, O!TypeOK, HasPage
<1> QED
  BY <1>5, <1>6 DEF Typed

LEMMA SkipForeignTyped ==
  ASSUME Typed, NEW s \in Session, O!SkipForeign(s)
  PROVE  Typed'
<1>1. Tail(todo[s]) \in Seq(Page) /\ (Len(todo[s]) # 1 => Tail(todo[s]) # <<>>)
  BY TailIsPages DEF O!SkipForeign
<1>2. O!TypeOK'
  BY <1>1 DEF O!SkipForeign, O!Goto, Typed, O!TypeOK, O!Step
<1>3. \A t \in Session : HasPage(t)'
  BY <1>1 DEF O!SkipForeign, O!Goto, Typed, O!TypeOK, HasPage
<1> QED
  BY <1>2, <1>3 DEF Typed

LEMMA BeginTyped ==
  ASSUME Typed, NEW s \in Session, NEW scan \in O!Scan, O!Begin(s, scan)
  PROVE  Typed'
<1>1. scan \in Seq(Page) /\ scan # <<>>
  <2>1. CASE \E p \in Page : scan = <<p>>
    BY <2>1
  <2>2. CASE \E p, q \in Page : scan = <<p, q>>
    BY <2>2
  <2> QED
    BY <2>1, <2>2 DEF O!Scan
<1>2. O!NoAnswer \in O!Answer
  BY DEF O!NoAnswer, O!Answer, O!Status
<1>3. O!TypeOK'
  BY <1>1, <1>2 DEF O!Begin, O!Goto, Typed, O!TypeOK, O!Step
<1>4. \A t \in Session : HasPage(t)'
  BY <1>1 DEF O!Begin, O!Goto, Typed, O!TypeOK, HasPage
<1> QED
  BY <1>3, <1>4 DEF Typed

(* What a listing may answer.                                              *)
LEMMA ListingAnswers ==
  ASSUME NEW said \in O!Status
  PROVE  [O!NoAnswer EXCEPT !.status = said] \in O!Answer
BY DEF O!NoAnswer, O!Answer

LEMMA ListingTyped ==
  ASSUME Typed, NEW s \in Session,
         O!OpenListing(s) \/ (\E p \in Page : O!VerifyListed(s, p)) \/ O!CloseListing(s)
  PROVE  Typed'
<1>1. /\ pc[s] \in {"idle", "list"} /\ \E step \in {"idle", "list"} : pc' = [pc EXCEPT ![s] = step]
      /\ UNCHANGED <<evidence, observation, temp, stray, issued, todo, content, owner, faults>>
  BY DEF O!OpenListing, O!VerifyListed, O!CloseListing, O!Goto, Typed, O!TypeOK
<1>2. answer' \in [Session -> O!Answer]
  <2>1. O!NoAnswer \in O!Answer
    BY DEF O!NoAnswer, O!Answer, O!Status
  <2>2. \A said \in {"listed", "observation_invalid", "observation_missing_evidence",
                       "observation_evidence_hash_mismatch"} :
          [O!NoAnswer EXCEPT !.status = said] \in O!Answer
    BY ListingAnswers DEF O!Status
  <2>3. CASE O!OpenListing(s)
    BY <2>1, <2>2, <2>3 DEF O!OpenListing, Typed, O!TypeOK
  <2>4. CASE \E p \in Page : O!VerifyListed(s, p)
    BY <2>2, <2>4 DEF O!VerifyListed, Typed, O!TypeOK
  <2>5. CASE O!CloseListing(s)
    BY <2>2, <2>5 DEF O!CloseListing, Typed, O!TypeOK
  <2> QED
    BY <2>3, <2>4, <2>5
<1>3. unlisted' \in [Session -> SUBSET Page]
  <2>1. unlisted \in [Session -> SUBSET Page] /\ unlisted[s] \subseteq Page
    BY DEF Typed, O!TypeOK
  <2>2. \E rest \in SUBSET Page : unlisted' = unlisted \/ unlisted' = [unlisted EXCEPT ![s] = rest]
    <3>1. O!Names \subseteq Page /\ {} \subseteq Page
      BY DEF O!Names
    <3>2. \A p \in Page : unlisted[s] \ {p} \subseteq Page
      BY <2>1
    <3> QED
      BY <3>1, <3>2 DEF O!OpenListing, O!VerifyListed, O!CloseListing
  <2> QED
    BY <2>1, <2>2
<1>4. O!TypeOK'
  BY <1>1, <1>2, <1>3 DEF Typed, O!TypeOK, O!Step
<1>5. \A t \in Session : HasPage(t)'
  BY <1>1 DEF Typed, O!TypeOK, HasPage
<1> QED
  BY <1>4, <1>5 DEF Typed

LEMMA DieTyped ==
  ASSUME MaxFaults \in Nat, Typed, NEW s \in Session, O!Die(s)
  PROVE  Typed'
<1>1. faults' \in 0 .. MaxFaults
  BY PageFaultsBounded DEF O!Die
<1>2. [O!NoAnswer EXCEPT !.status = "died"] \in O!Answer
  BY ListingAnswers DEF O!Status
<1>3. <<>> \in Seq(Page)
  OBVIOUS
<1>4. owner' \in [Page -> Session \cup {Absent}]
  BY DEF O!Die, O!Disown, Typed, O!TypeOK
<1>5. O!TypeOK'
  BY <1>1, <1>2, <1>3, <1>4 DEF O!Die, O!Goto, Typed, O!TypeOK, O!Step
<1>6. \A t \in Session : HasPage(t)'
  BY DEF O!Die, O!Goto, Typed, O!TypeOK, HasPage
<1> QED
  BY <1>5, <1>6 DEF Typed

LEMMA NextTyped ==
  ASSUME MaxFaults \in Nat, Typed, O!Next
  PROVE  Typed'
<1>1. ASSUME NEW s \in Session, O!Works(s) PROVE Typed'
  BY <1>1, EndPageStepTyped, MoveStepTyped, NextPageTyped, SkipForeignTyped, ListingTyped
  DEF O!Works
<1>2. ASSUME NEW s \in Session, O!Fails(s) PROVE Typed'
  BY <1>2, EndPageStepTyped, MoveStepTyped, NextPageTyped, DieTyped DEF O!Fails
<1>3. CASE O!Supersede
  <2>1. O!TypeOK'
    BY <1>3 DEF O!Supersede, Typed, O!TypeOK
  <2>2. \A t \in Session : HasPage(t)'
    BY <1>3 DEF O!Supersede, Typed, HasPage
  <2> QED
    BY <2>1, <2>2 DEF Typed
<1> QED
  BY <1>1, <1>2, <1>3, BeginTyped, ListingTyped DEF O!Next

-----------------------------------------------------------------------------
(* What a step of a session does to the files and to the other sessions.   *)

\* Session s does something.
PageActs(s) == O!Works(s) \/ O!Fails(s) \/ O!OpenListing(s) \/ \E scan \in O!Scan : O!Begin(s, scan)

OthersStand(s) ==
  \A t \in Session \ {s} :
    pc'[t] = pc[t] /\ todo'[t] = todo[t] /\ content'[t] = content[t]

NoFile(s) == evidence' = evidence /\ observation' = observation /\ (owner' = owner \/ O!Disown(s))
Puts(s) == pc[s] = "linkEvidence" /\ O!PutEvidence(s) /\ observation' = observation
Records(s) == pc[s] = "linkObservation" /\ O!PutObservation(s) /\ UNCHANGED <<evidence, owner>>
TakesBack(s) == O!RollBackEvidence(s)

(* Only a link and the removal of a call's own evidence touch the files.   *)
LEMMA FileSteps ==
  ASSUME Typed, NEW s \in Session, PageActs(s)
  PROVE  NoFile(s) \/ Puts(s) \/ Records(s) \/ TakesBack(s)
<1> USE DEF NoFile, Puts, Records, TakesBack
<1>1. CASE O!Works(s)
  BY <1>1 DEF O!Works, O!SkipForeign, O!Unauthorized, O!Prepare, O!LookForObservation,
       O!ValidateExisting,
     O!LookForOrphan, O!WriteTemporaries, O!LinkEvidence, O!LinkEvidenceCollides, O!InspectEvidence,
     O!LinkObservation, O!DropTemporary, O!InspectObservation, O!Reload, O!CleanUp, O!NextPage,
     O!VerifyListed,
     O!CloseListing
<1>2. CASE O!Fails(s)
  BY <1>2 DEF O!Fails, O!PrepareFault, O!BeforeLinkFault, O!LinkEvidenceFault,
       O!LinkObservationFault,
     O!DropTemporaryFault, O!RollBackFault, O!ReloadFault, O!CleanUpFault, O!NextPage, O!Die
<1>3. CASE O!OpenListing(s) \/ \E scan \in O!Scan : O!Begin(s, scan)
  BY <1>3 DEF O!OpenListing, O!Begin
<1> QED
  BY <1>1, <1>2, <1>3 DEF PageActs

(* A step of one session leaves where the others are, and what they hold.  *)
LEMMA OthersAreLeft ==
  ASSUME Typed, NEW s \in Session, PageActs(s)
  PROVE  OthersStand(s)
<1> USE DEF OthersStand, O!Goto, O!EndPage, O!Remains, Typed, O!TypeOK
<1>1. CASE O!Works(s)
  BY <1>1 DEF O!Works, O!SkipForeign, O!Unauthorized, O!Prepare, O!LookForObservation,
       O!ValidateExisting,
     O!LookForOrphan, O!WriteTemporaries, O!LinkEvidence, O!LinkEvidenceCollides, O!InspectEvidence,
     O!LinkObservation, O!DropTemporary, O!InspectObservation, O!Reload, O!CleanUp, O!NextPage,
     O!VerifyListed,
     O!CloseListing, O!RollBackEvidence
<1>2. CASE O!Fails(s)
  BY <1>2 DEF O!Fails, O!PrepareFault, O!BeforeLinkFault, O!LinkEvidenceFault,
       O!LinkObservationFault,
     O!DropTemporaryFault, O!RollBackFault, O!ReloadFault, O!CleanUpFault, O!NextPage, O!Die
<1>3. CASE O!OpenListing(s) \/ \E scan \in O!Scan : O!Begin(s, scan)
  BY <1>3 DEF O!OpenListing, O!Begin
<1> QED
  BY <1>1, <1>2, <1>3 DEF PageActs

-----------------------------------------------------------------------------
(* Every step keeps the invariant.                                         *)

(* What a session holds survives the steps of the others.                  *)
LEMMA PageOthersKeep ==
  ASSUME Absent \notin Rendering, IInv, NEW s \in Session, PageActs(s), NEW t \in Session \ {s}
  PROVE  HasContent(t)' /\ Owns(t)' /\ Unrecorded(t)'
<1>1. pc'[t] = pc[t] /\ todo'[t] = todo[t] /\ content'[t] = content[t]
  BY OthersAreLeft DEF OthersStand, IInv
<1>2. HasContent(t)'
  BY <1>1 DEF IInv, HasContent
<1>3. CASE pc[t] \notin Owning
  BY <1>1, <1>2, <1>3 DEF Owns, Unrecorded, Owning
<1>4. CASE pc[t] \in Owning
  <2> DEFINE p == O!Current(t)
  <2>1. p \in Page /\ O!Current(t)' = p
    BY <1>1, <1>4, CurrentIsPage DEF IInv, Owning, O!Current
  <2>2. evidence[p] = content[t] /\ owner[p] = t /\ evidence[p] # Absent
    BY <1>4 DEF IInv, Owns, HasContent, Owning, Rendered
  <2>3. pc[t] \in {"linkObservation", "rollback"} => observation[p] = Absent
    BY DEF IInv, Unrecorded
  <2>4. evidence \in [Page -> Rendering \cup {Absent}] /\ owner \in [Page -> Session \cup {Absent}]
        /\ observation \in [Page -> Rendering \cup {Absent}]
    BY DEF IInv, Typed, O!TypeOK
  <2> HIDE DEF p
  <2>5. evidence'[p] = evidence[p] /\ owner'[p] = owner[p] /\ observation'[p] = observation[p]
    <3>1. CASE NoFile(s)
      BY <2>1, <2>2, <2>4, <3>1 DEF NoFile, O!Disown
    <3>2. CASE Puts(s)
      BY <2>1, <2>2, <2>4, <3>2 DEF Puts, O!PutEvidence
    <3>3. CASE Records(s) \/ TakesBack(s)
      <4>1. owner[O!Current(s)] = s
        BY <3>3 DEF Records, TakesBack, O!RollBackEvidence, IInv, Owns, Owning
      <4>2. p # O!Current(s)
        BY <2>2, <4>1
      <4> QED
        BY <2>1, <2>4, <3>3, <4>2 DEF Records, TakesBack, O!RollBackEvidence, O!PutObservation
    <3> QED
      BY <3>1, <3>2, <3>3, FileSteps DEF IInv
  <2>6. Owns(t)' /\ Unrecorded(t)'
    BY <1>1, <2>1, <2>2, <2>3, <2>5 DEF Owns, Unrecorded, Owning
  <2> QED
    BY <1>2, <2>6
<1> QED
  BY <1>3, <1>4

(* A call gets to its observation only with the evidence it put.           *)
LEMMA OwnKeep ==
  ASSUME Absent \notin Rendering, IInv, NEW s \in Session, PageActs(s), Typed'
  PROVE  HasContent(s)' /\ Owns(s)' /\ Unrecorded(s)'
<1>1. CASE O!SkipForeign(s) \/ O!Unauthorized(s) \/ O!PrepareFault(s) \/ O!ValidateExisting(s)
           \/ O!BeforeLinkFault(s) \/ O!InspectEvidence(s) \/ O!RollBackEvidence(s) \/ O!RollBackFault(s)
           \/ O!Reload(s) \/ O!ReloadFault(s) \/ O!CleanUp(s) \/ O!CleanUpFault(s) \/ O!OpenListing(s)
           \/ (\E p \in Page : O!VerifyListed(s, p)) \/ O!CloseListing(s) \/ O!Die(s)
           \/ (\E scan \in O!Scan : O!Begin(s, scan))
           \/ (O!LookForOrphan(s) /\ evidence[O!Current(s)] # Absent)
           \/ (O!InspectObservation(s) /\ observation[O!Current(s)] # Absent)
  <2>1. pc'[s] \in {"idle", "list", "page", "cleanup"}
    BY <1>1 DEF O!SkipForeign, O!Unauthorized, O!PrepareFault, O!ValidateExisting,
         O!BeforeLinkFault,
       O!InspectEvidence, O!RollBackEvidence, O!RollBackFault, O!Reload, O!ReloadFault, O!CleanUp,
       O!CleanUpFault, O!NextPage, O!OpenListing, O!VerifyListed, O!CloseListing, O!Die, O!Begin,
       O!LookForOrphan, O!InspectObservation, O!Inspect, O!EndPage, O!Goto, IInv, Typed, O!TypeOK
  <2> QED
    BY <2>1 DEF HasContent, Owns, Unrecorded, Rendered, Owning
<1>2. CASE \E r \in Rendering : O!Prepare(s, r)
  BY <1>2 DEF O!Prepare, O!Goto, IInv, Typed, O!TypeOK, HasContent, Owns, Unrecorded, Owning
<1>3. ASSUME todo' = todo, content' = content, pc[s] \in Rendered
      PROVE  HasContent(s)' /\ O!Current(s)' = O!Current(s)
  BY <1>3 DEF IInv, HasContent, O!Current
<1>4. CASE O!LookForObservation(s) \/ O!WriteTemporaries(s) \/ O!LinkEvidenceCollides(s)
           \/ O!LinkEvidenceFault(s) \/ O!DropTemporary(s)
           \/ (O!LookForOrphan(s) /\ evidence[O!Current(s)] = Absent)
  <2>1. /\ pc'[s] \in {"orphan", "existing", "temps", "linkEvidence", "inspectEvidence", "reload"}
        /\ todo' = todo /\ content' = content /\ pc[s] \in Rendered
    BY <1>4 DEF O!LookForObservation, O!WriteTemporaries, O!LinkEvidenceCollides,
         O!LinkEvidenceFault,
       O!DropTemporary, O!LookForOrphan, O!Goto, O!Remains, Rendered, IInv, Typed, O!TypeOK
  <2> QED
    BY <1>3, <2>1 DEF Owns, Unrecorded, Owning
<1>5. CASE O!LinkEvidence(s)
  <2>1. /\ pc'[s] = "linkObservation" /\ observation' = observation
        /\ todo' = todo /\ content' = content /\ pc[s] = "linkEvidence"
    BY <1>5 DEF O!LinkEvidence, O!Goto, O!Remains, IInv, Typed, O!TypeOK
  <2>2. O!Current(s) \in Page
    BY <2>1, CurrentIsPage DEF IInv
  <2>3. evidence[O!Current(s)] = Absent /\ evidence'[O!Current(s)] = content[s] /\ owner'[O!Current(s)] = s
    BY <1>5, <2>2 DEF O!LinkEvidence, O!PutEvidence, IInv, Typed, O!TypeOK
  <2>4. observation[O!Current(s)] = Absent
    BY <2>2, <2>3 DEF IInv, O!ObservationHasEvidence
  <2>5. HasContent(s)' /\ O!Current(s)' = O!Current(s)
    BY <1>3, <2>1 DEF Rendered
  <2> QED
    BY <2>1, <2>3, <2>4, <2>5 DEF Owns, Unrecorded
<1>6. CASE O!LinkObservation(s) \/ O!LinkObservationFault(s) \/ O!DropTemporaryFault(s)
           \/ (O!InspectObservation(s) /\ observation[O!Current(s)] = Absent)
  <2>1. /\ pc[s] \in Owning /\ pc[s] \in Rendered
        /\ pc'[s] \in {"dropTemp", "inspectObservation", "rollback"}
        /\ todo' = todo /\ content' = content /\ evidence' = evidence /\ owner' = owner
        /\ pc'[s] = "rollback" => observation[O!Current(s)] = Absent /\ observation' = observation
    BY <1>6 DEF O!LinkObservation, O!LinkObservationFault, O!DropTemporaryFault,
         O!InspectObservation,
       O!Inspect, O!Goto, O!Remains, Rendered, Owning, IInv, Typed, O!TypeOK
  <2>2. HasContent(s)' /\ O!Current(s)' = O!Current(s)
    BY <1>3, <2>1
  <2> QED
    BY <2>1, <2>2 DEF IInv, Owns, Unrecorded
<1>7. CASE O!LookForOrphan(s)
  BY <1>1, <1>4, <1>7
<1>8. CASE O!InspectObservation(s)
  BY <1>1, <1>6, <1>8
<1>9. CASE O!Works(s)
  BY <1>1, <1>2, <1>4, <1>5, <1>6, <1>7, <1>8, <1>9 DEF O!Works
<1>10. CASE O!Fails(s)
  BY <1>1, <1>4, <1>6, <1>10 DEF O!Fails
<1> QED
  BY <1>1, <1>9, <1>10 DEF PageActs

(* An observation is put beside its own evidence, which is taken back only *)
(* where no observation is.                                                *)
LEMMA EvidenceStays ==
  ASSUME Absent \notin Rendering, IInv, NEW s \in Session, PageActs(s)
  PROVE  O!ObservationHasEvidence'
<1>1. evidence \in [Page -> Rendering \cup {Absent}] /\ observation \in [Page -> Rendering \cup {Absent}]
  BY DEF IInv, Typed, O!TypeOK
<1>2. CASE NoFile(s)
  BY <1>2 DEF NoFile, IInv, O!ObservationHasEvidence
<1>3. CASE Puts(s)
  BY <1>1, <1>3 DEF Puts, O!PutEvidence, IInv, O!ObservationHasEvidence
<1>4. CASE Records(s)
  <2>1. evidence[O!Current(s)] = content[s]
    BY <1>4 DEF Records, IInv, Owns, Owning
  <2> QED
    BY <1>1, <1>4, <2>1 DEF Records, O!PutObservation, IInv, O!ObservationHasEvidence
<1>5. CASE TakesBack(s)
  <2>1. observation[O!Current(s)] = Absent
    BY <1>5 DEF TakesBack, O!RollBackEvidence, IInv, Unrecorded
  <2> QED
    BY <1>1, <1>5, <2>1 DEF TakesBack, O!RollBackEvidence, IInv, O!ObservationHasEvidence
<1> QED
  BY <1>2, <1>3, <1>4, <1>5, FileSteps DEF IInv

LEMMA InitIInv ==
  ASSUME MaxFaults \in Nat, O!Init
  PROVE  IInv
<1>1. Typed
  BY InitTyped
<1> QED
  BY <1>1 DEF O!Init, IInv, O!ObservationHasEvidence, HasContent, Owns, Unrecorded, Rendered, Owning

LEMMA NextIInv ==
  ASSUME MaxFaults \in Nat, Absent \notin Rendering, IInv, [O!Next]_(O!vars)
  PROVE  IInv'
<1>1. CASE UNCHANGED O!vars
  BY <1>1 DEF O!vars, IInv, Typed, O!TypeOK, HasPage, O!ObservationHasEvidence, HasContent, Owns,
     Unrecorded, O!Current
<1>2. ASSUME NEW s \in Session, PageActs(s) PROVE IInv'
  <2>1. Typed'
    BY <1>2, NextTyped DEF IInv, O!Next, PageActs
  <2>2. \A t \in Session : HasContent(t)' /\ Owns(t)' /\ Unrecorded(t)'
    BY <1>2, <2>1, OwnKeep, PageOthersKeep
  <2> QED
    BY <1>2, <2>1, <2>2, EvidenceStays DEF IInv
<1>3. CASE O!Supersede
  <2>1. Typed'
    BY <1>3, NextTyped DEF IInv, O!Next
  <2> QED
    BY <1>3, <2>1 DEF O!Supersede, IInv, O!ObservationHasEvidence, HasContent, Owns, Unrecorded,
         O!Current
<1> QED
  BY <1>1, <1>2, <1>3 DEF O!Next, PageActs

-----------------------------------------------------------------------------
(* Persisting pages implements the store.                                  *)

(* Under the invariant, what is stored is what is observed.                *)
LEMMA StoredIsObserved ==
  ASSUME IInv
  PROVE  O!Stored = observation
<1>1. observation \in [Page -> Rendering \cup {Absent}]
  BY DEF IInv, Typed, O!TypeOK
<1>2. \A p \in Page : O!Stored[p] = observation[p]
  BY DEF O!Stored, IInv, O!ObservationHasEvidence
<1> QED
  BY <1>1, <1>2 DEF O!Stored

-----------------------------------------------------------------------------
(* What callers hear, and what a fault strands.                            *)

\* Once a call may have put the evidence of its page, until it is done with it.
After == {"inspectEvidence", "linkObservation", "inspectObservation", "rollback", "dropTemp", "reload",
          "cleanup"}

\* What a session has reported, and has still to list.
Heard(s) ==
  /\ answer[s].status \in {"created", "existing"} =>
       answer[s].page \in Page /\ observation[answer[s].page] # Absent
  /\ answer[s].status \notin {"observation_missing_evidence", "observation_evidence_hash_mismatch"}
  /\ \A p \in unlisted[s] : observation[p] # Absent
  /\ pc[s] = "cleanup" =>
       /\ answer[s].page = O!Current(s)
       /\ answer[s].status \in {"failed", "integrity"} /\ ~ answer[s].namesEvidence =>
            owner[O!Current(s)] # s

\* What a running call put is there.
Held ==
  \A p \in Page :
    /\ owner[p] # Absent => evidence[p] # Absent
    /\ \A s \in Session : owner[p] = s => pc[s] \in After

\* The evidence of pages that nobody will record or take back any more.
Doing == {"linkObservation", "inspectObservation", "rollback"}
Doomed ==
  {p \in Page : /\ evidence[p] # Absent /\ observation[p] = Absent
                /\ \A s \in Session : ~ (owner[p] = s /\ pc[s] \in Doing /\ O!Current(s) = p)}

Stranded == IsFiniteSet(Doomed) /\ Cardinality(Doomed) <= faults /\ (stray => faults > 0)

Told == IInv /\ Held /\ (\A s \in Session : Heard(s)) /\ Stranded

(* An observation, once there, stays.                                      *)
LEMMA ObservationStays ==
  ASSUME Typed, NEW s \in Session, PageActs(s), NEW p \in Page, observation[p] # Absent
  PROVE  observation'[p] = observation[p]
<1>1. observation \in [Page -> Rendering \cup {Absent}]
  BY DEF Typed, O!TypeOK
<1> QED
  BY <1>1, FileSteps DEF NoFile, Puts, Records, O!PutObservation, TakesBack, O!RollBackEvidence

(* The others have what they had of their own.                             *)
LEMMA AnswersAreLeft ==
  ASSUME Typed, NEW s \in Session, PageActs(s), NEW t \in Session \ {s}
  PROVE  answer'[t] = answer[t] /\ unlisted'[t] = unlisted[t]
<1> USE DEF O!EndPage, O!Report, O!Remains, Typed, O!TypeOK
<1>1. CASE O!Works(s)
  BY <1>1 DEF O!Works, O!SkipForeign, O!Unauthorized, O!Prepare, O!LookForObservation,
       O!ValidateExisting,
     O!LookForOrphan, O!WriteTemporaries, O!LinkEvidence, O!LinkEvidenceCollides, O!InspectEvidence,
     O!LinkObservation, O!DropTemporary, O!InspectObservation, O!Reload, O!CleanUp, O!NextPage,
     O!VerifyListed,
     O!CloseListing, O!RollBackEvidence
<1>2. CASE O!Fails(s)
  BY <1>2 DEF O!Fails, O!PrepareFault, O!BeforeLinkFault, O!LinkEvidenceFault,
       O!LinkObservationFault,
     O!DropTemporaryFault, O!RollBackFault, O!ReloadFault, O!CleanUpFault, O!NextPage, O!Die
<1>3. CASE O!OpenListing(s) \/ \E scan \in O!Scan : O!Begin(s, scan)
  BY <1>3 DEF O!OpenListing, O!Begin
<1> QED
  BY <1>1, <1>2, <1>3 DEF PageActs

LEMMA OthersHear ==
  ASSUME Absent \notin Session, Told, NEW s \in Session, PageActs(s), NEW t \in Session \ {s}
  PROVE  Heard(t)'
<1>1. /\ pc'[t] = pc[t] /\ todo'[t] = todo[t] /\ answer'[t] = answer[t] /\ unlisted'[t] = unlisted[t]
      /\ O!Current(t)' = O!Current(t) /\ Typed
  BY OthersAreLeft, AnswersAreLeft DEF OthersStand, Told, IInv, O!Current
<1>2. \A p \in Page : observation[p] # Absent => observation'[p] # Absent
  BY <1>1, ObservationStays
<1>3. \A p \in Page : owner'[p] = t => owner[p] = t
  BY <1>1, FileSteps DEF NoFile, Puts, Records, TakesBack, O!RollBackEvidence, O!PutEvidence,
       O!Disown,
     Typed, O!TypeOK
<1>4. unlisted[t] \subseteq Page /\ (pc[t] = "cleanup" => O!Current(t) \in Page)
  BY <1>1, CurrentIsPage DEF Typed, O!TypeOK
<1> QED
  BY <1>1, <1>2, <1>3, <1>4 DEF Told, Heard

(* A page gets its answer.                                                 *)
LEMMA EndHeard ==
  ASSUME Told, NEW s \in Session, PageActs(s), pc[s] \notin {"idle", "list"},
         NEW said \in {"created", "existing", "failed", "integrity"},
         NEW obs \in BOOLEAN, NEW evi \in BOOLEAN, O!EndPage(s, said, obs, evi),
         unlisted' = unlisted,
         said \in {"created", "existing"} => observation[O!Current(s)] # Absent,
         said \in {"failed", "integrity"} /\ ~ evi => owner'[O!Current(s)] # s
  PROVE  Heard(s)'
<1>1. Typed /\ O!Current(s) \in Page /\ O!Current(s)' = O!Current(s) /\ pc'[s] = "cleanup"
  BY CurrentIsPage DEF Told, IInv, O!EndPage, O!Goto, O!Current, Typed, O!TypeOK
<1>2. answer'[s] = [status |-> said, page |-> O!Current(s), namesObservation |-> obs,
                    namesEvidence |-> evi]
  BY DEF O!EndPage, O!Report, Told, IInv, Typed, O!TypeOK
<1>3. answer'[s].status = said /\ answer'[s].page = O!Current(s) /\ answer'[s].namesEvidence = evi
  BY <1>2
<1>4. \A p \in unlisted'[s] : observation'[p] # Absent
  BY <1>1, ObservationStays DEF Told, Heard, Typed, O!TypeOK
<1>5. said \in {"created", "existing"} => observation'[O!Current(s)] # Absent
  BY <1>1, ObservationStays
<1> QED
  BY <1>1, <1>3, <1>4, <1>5 DEF Heard

(* A call goes on, or a listing does.                                      *)
LEMMA OnHeard ==
  ASSUME Told, NEW s \in Session, PageActs(s), pc'[s] # "cleanup",
         answer'[s] = answer[s] \/
           answer'[s].status \notin {"created", "existing", "observation_missing_evidence",
                                     "observation_evidence_hash_mismatch"},
         \A p \in unlisted'[s] : p \in unlisted[s] \/ (p \in Page /\ observation[p] # Absent)
  PROVE  Heard(s)'
<1>1. \A p \in Page : observation[p] # Absent => observation'[p] # Absent
  BY ObservationStays DEF Told, IInv
<1>2. unlisted[s] \subseteq Page
  BY DEF Told, IInv, Typed, O!TypeOK
<1> QED
  BY <1>1, <1>2 DEF Told, Heard

(* What a call answers is true.                                            *)
LEMMA OwnHeard ==
  ASSUME Absent \notin Session, Absent \notin Rendering, Told, NEW s \in Session, PageActs(s)
  PROVE  Heard(s)'
<1>0. /\ Typed /\ pc \in [Session -> O!Step] /\ answer \in [Session -> O!Answer]
      /\ unlisted \in [Session -> SUBSET Page] /\ owner \in [Page -> Session \cup {Absent}]
      /\ evidence \in [Page -> Rendering \cup {Absent}]
  BY DEF Told, IInv, Typed, O!TypeOK
<1>p. pc[s] \notin {"idle", "list"} => O!Current(s) \in Page
  BY <1>0, CurrentIsPage
<1>o. /\ pc[s] \notin After \cup {"idle", "list"} => owner[O!Current(s)] # s
      /\ \A p \in Page : owner[p] = s => evidence[p] # Absent
  BY <1>p DEF Told, Held
<1>n. /\ O!NoAnswer.status = "none"
      /\ \A x : [O!NoAnswer EXCEPT !.status = x].status = x
  BY DEF O!NoAnswer
<1>1. CASE O!Unauthorized(s) \/ O!PrepareFault(s)
  <2>1. /\ O!EndPage(s, "failed", FALSE, FALSE) /\ pc[s] = "page" /\ unlisted' = unlisted /\ owner' = owner
    BY <1>1 DEF O!Unauthorized, O!PrepareFault
  <2> QED
    BY <1>o, <2>1, EndHeard DEF After
<1>2. CASE O!ValidateExisting(s)
  <2> DEFINE same == observation[O!Current(s)] = content[s] /\ O!Intact(O!Current(s))
  <2>1. /\ O!EndPage(s, IF same THEN "existing" ELSE "integrity", ~same, ~same)
        /\ pc[s] = "existing" /\ unlisted' = unlisted /\ owner' = owner
    BY <1>2 DEF O!ValidateExisting
  <2>2. same => observation[O!Current(s)] # Absent
    BY <2>1 DEF Told, IInv, HasContent, Rendered
  <2> HIDE DEF same
  <2>3. CASE same
    BY <1>o, <2>1, <2>2, <2>3, EndHeard DEF After
  <2>4. CASE ~ same
    BY <1>o, <2>1, <2>2, <2>4, EndHeard DEF After
  <2> QED
    BY <2>3, <2>4
<1>3. CASE O!LookForOrphan(s)
  <2>1. CASE evidence[O!Current(s)] # Absent
    <3>1. O!EndPage(s, "integrity", TRUE, TRUE) /\ pc[s] = "orphan" /\ unlisted' = unlisted
      BY <1>3, <2>1 DEF O!LookForOrphan
    <3> QED
      BY <3>1, EndHeard
  <2>2. CASE evidence[O!Current(s)] = Absent
    <3>1. pc'[s] = "temps" /\ answer' = answer /\ unlisted' = unlisted
      BY <1>0, <1>3, <2>2 DEF O!LookForOrphan, O!Goto
    <3> QED
      BY <3>1, OnHeard
  <2> QED
    BY <2>1, <2>2
<1>4. CASE O!BeforeLinkFault(s)
  <2>1. /\ O!EndPage(s, "failed", observation[O!Current(s)] # Absent, evidence[O!Current(s)] # Absent)
        /\ pc[s] \in {"orphan", "temps"} /\ unlisted' = unlisted /\ owner' = owner
    BY <1>4 DEF O!BeforeLinkFault
  <2> QED
    BY <1>o, <2>1, EndHeard DEF After
<1>5. CASE O!InspectEvidence(s)
  <2> DEFINE state == O!Inspect(evidence[O!Current(s)], content[s])
  <2>1. /\ O!EndPage(s, IF state = "contradictory" THEN "integrity" ELSE "failed", FALSE, state # "absent")
        /\ pc[s] = "inspectEvidence" /\ unlisted' = unlisted /\ owner' = owner
    BY <1>5 DEF O!InspectEvidence
  <2>2. state = "absent" => owner[O!Current(s)] # s
    BY <1>p, <1>o, <2>1 DEF O!Inspect
  <2> HIDE DEF state
  <2>3. (IF state = "contradictory" THEN "integrity" ELSE "failed") \in {"failed", "integrity"}
    OBVIOUS
  <2> QED
    BY <2>1, <2>2, <2>3, EndHeard
<1>6. CASE O!InspectObservation(s)
  <2> DEFINE state == O!Inspect(observation[O!Current(s)], content[s])
  <2>1. /\ pc[s] = "inspectObservation" /\ unlisted' = unlisted
        /\ IF state = "absent" THEN O!Goto(s, "rollback") /\ answer' = answer
           ELSE O!EndPage(s, IF state = "exact" THEN "failed" ELSE "integrity", TRUE, TRUE)
    BY <1>6 DEF O!InspectObservation
  <2> HIDE DEF state
  <2>2. CASE state = "absent"
    <3>1. pc'[s] = "rollback"
      BY <1>0, <2>1, <2>2 DEF O!Goto
    <3> QED
      BY <2>1, <2>2, <3>1, OnHeard
  <2>3. CASE state # "absent"
    BY <2>1, <2>3, EndHeard
  <2> QED
    BY <2>2, <2>3
<1>7. CASE O!RollBackEvidence(s)
  <2> DEFINE removed == evidence[O!Current(s)] \in {Absent, content[s]}
  <2>1. /\ O!EndPage(s, "failed", ~removed, ~removed) /\ pc[s] = "rollback" /\ unlisted' = unlisted
        /\ owner' = [owner EXCEPT ![O!Current(s)] = IF removed THEN Absent ELSE @]
    BY <1>7 DEF O!RollBackEvidence
  <2>2. removed => owner'[O!Current(s)] # s
    BY <1>0, <1>p, <2>1
  <2> HIDE DEF removed
  <2> QED
    BY <2>1, <2>2, EndHeard
<1>8. CASE O!RollBackFault(s)
  BY <1>8, EndHeard DEF O!RollBackFault
<1>9. CASE O!Reload(s)
  <2> DEFINE verified == observation[O!Current(s)] = content[s] /\ O!Intact(O!Current(s))
  <2>1. /\ O!EndPage(s, IF verified THEN "created" ELSE "failed", ~verified, ~verified)
        /\ pc[s] = "reload" /\ unlisted' = unlisted
    BY <1>9 DEF O!Reload
  <2>2. verified => observation[O!Current(s)] # Absent
    BY <2>1 DEF Told, IInv, HasContent, Rendered
  <2> HIDE DEF verified
  <2>3. CASE verified
    BY <2>1, <2>2, <2>3, EndHeard
  <2>4. CASE ~ verified
    BY <2>1, <2>4, EndHeard
  <2> QED
    BY <2>3, <2>4
<1>10. CASE O!ReloadFault(s)
  <2>1. /\ O!EndPage(s, "failed", observation[O!Current(s)] # Absent, evidence[O!Current(s)] # Absent)
        /\ pc[s] = "reload" /\ unlisted' = unlisted /\ owner' = owner
    BY <1>10 DEF O!ReloadFault
  <2> QED
    BY <1>p, <1>o, <2>1, EndHeard
<1>11. CASE \/ O!SkipForeign(s) \/ (\E r \in Rendering : O!Prepare(s, r)) \/ O!LookForObservation(s)
            \/ O!WriteTemporaries(s) \/ O!LinkEvidence(s) \/ O!LinkEvidenceCollides(s) \/ O!LinkEvidenceFault(s)
            \/ O!LinkObservation(s) \/ O!LinkObservationFault(s) \/ O!DropTemporary(s) \/ O!DropTemporaryFault(s)
            \/ O!CleanUp(s) \/ O!CleanUpFault(s)
  <2>1. pc'[s] # "cleanup" /\ answer' = answer /\ unlisted' = unlisted
    BY <1>0, <1>11 DEF O!SkipForeign, O!Prepare, O!LookForObservation, O!WriteTemporaries,
         O!LinkEvidence,
       O!LinkEvidenceCollides, O!LinkEvidenceFault, O!LinkObservation, O!LinkObservationFault,
       O!DropTemporary,
       O!DropTemporaryFault, O!CleanUp, O!CleanUpFault, O!NextPage, O!Goto, O!Remains
  <2> QED
    BY <2>1, OnHeard
<1>12. CASE \E scan \in O!Scan : O!Begin(s, scan)
  <2>1. pc'[s] = "page" /\ answer'[s] = O!NoAnswer /\ unlisted' = unlisted
    BY <1>0, <1>12 DEF O!Begin, O!Goto
  <2> QED
    BY <1>n, <2>1, OnHeard
<1>13. CASE O!OpenListing(s)
  <2>1. /\ pc'[s] # "cleanup" /\ answer'[s].status \in {"none", "observation_invalid"}
        /\ unlisted'[s] = unlisted[s] \/ unlisted'[s] = O!Names
    BY <1>0, <1>n, <1>13 DEF O!OpenListing, O!Goto
  <2> QED
    BY <2>1, OnHeard DEF O!Names
<1>14. CASE \E p \in Page : O!VerifyListed(s, p)
  <2>1. PICK p \in Page : O!VerifyListed(s, p)
    BY <1>14
  <2>2. O!Intact(p)
    BY <2>1 DEF O!VerifyListed, Told, Heard, IInv, O!ObservationHasEvidence, O!Intact
  <2>3. /\ pc'[s] = "list" /\ answer' = answer /\ unlisted'[s] \subseteq unlisted[s]
    BY <1>0, <2>1, <2>2 DEF O!VerifyListed
  <2> QED
    BY <2>3, OnHeard
<1>15. CASE O!CloseListing(s) \/ O!Die(s)
  <2>1. /\ pc'[s] = "idle" /\ answer'[s].status \in {"listed", "died"}
        /\ unlisted'[s] \subseteq unlisted[s]
    BY <1>0, <1>n, <1>15 DEF O!CloseListing, O!Die, O!Goto
  <2> QED
    BY <2>1, OnHeard
<1> QED
  BY <1>1, <1>2, <1>3, <1>4, <1>5, <1>6, <1>7, <1>8, <1>9, <1>10, <1>11, <1>12, <1>13, <1>14, <1>15
  DEF PageActs, O!Works, O!Fails

(* What a call put is there until it is done with it.                      *)
LEMMA HeldKept ==
  ASSUME Absent \notin Session, Absent \notin Rendering, Told, NEW s \in Session, PageActs(s)
  PROVE  Held'
<1>0. /\ Typed /\ evidence \in [Page -> Rendering \cup {Absent}] /\ owner \in [Page -> Session \cup {Absent}]
      /\ pc \in [Session -> O!Step]
  BY DEF Told, IInv, Typed, O!TypeOK
<1>1. ASSUME NEW p \in Page, owner'[p] # Absent PROVE evidence'[p] # Absent
  <2>1. CASE NoFile(s) \/ Records(s)
    BY <1>0, <1>1, <2>1 DEF NoFile, Records, O!Disown, Told, Held
  <2>2. CASE Puts(s)
    <3>1. content[s] # Absent
      BY <2>2 DEF Puts, Told, IInv, HasContent, Rendered
    <3> QED
      BY <1>0, <1>1, <2>2, <3>1 DEF Puts, O!PutEvidence, Told, Held
  <2>3. CASE TakesBack(s)
    <3>1. p # O!Current(s) \/ evidence[p] \notin {Absent, content[s]}
      BY <1>0, <1>1, <2>3 DEF TakesBack, O!RollBackEvidence
    <3> QED
      BY <1>0, <1>1, <2>3, <3>1 DEF TakesBack, O!RollBackEvidence, Told, Held
  <2> QED
    BY <1>0, <2>1, <2>2, <2>3, FileSteps
<1>2. ASSUME NEW p \in Page, NEW t \in Session, owner'[p] = t PROVE pc'[t] \in After
  <2>1. CASE t # s
    <3>1. pc'[t] = pc[t]
      BY <1>0, <2>1, OthersAreLeft DEF OthersStand
    <3>2. owner[p] = t
      BY <1>0, <1>2, <2>1, FileSteps DEF NoFile, Puts, Records, TakesBack, O!RollBackEvidence,
           O!PutEvidence,
         O!Disown
    <3> QED
      BY <3>1, <3>2 DEF Told, Held
  <2>2. CASE t = s /\ owner[p] # s
    <3>1. Puts(s)
      BY <1>0, <1>2, <2>2, FileSteps DEF NoFile, Records, TakesBack, O!RollBackEvidence, O!Disown
    <3>2. owner' # owner /\ ~ O!Die(s) /\ pc[s] = "linkEvidence"
      BY <1>0, <1>2, <2>2, <3>1 DEF O!Die, O!Disown, Puts
    <3>3. O!LinkEvidence(s) \/ O!LinkEvidenceFault(s)
      BY <3>2 DEF PageActs, O!Works, O!Fails, O!SkipForeign, O!Unauthorized, O!Prepare,
           O!LookForObservation,
         O!ValidateExisting, O!LookForOrphan, O!WriteTemporaries, O!LinkEvidenceCollides,
         O!InspectEvidence,
         O!LinkObservation, O!DropTemporary, O!InspectObservation, O!RollBackEvidence, O!Reload,
         O!CleanUp,
         O!VerifyListed, O!CloseListing, O!PrepareFault, O!BeforeLinkFault, O!LinkObservationFault,
         O!DropTemporaryFault, O!RollBackFault, O!ReloadFault, O!CleanUpFault, O!OpenListing,
         O!Begin
    <3> QED
      BY <1>0, <2>2, <3>3 DEF O!LinkEvidence, O!LinkEvidenceFault, O!Goto, After
  <2>3. CASE t = s /\ owner[p] = s
    <3>1. pc[s] \in After
      BY <2>3 DEF Told, Held
    <3>2. ~ O!Die(s) /\ ~ O!CleanUp(s) /\ ~ O!CleanUpFault(s)
      BY <1>0, <1>2, <2>3 DEF O!Die, O!CleanUp, O!CleanUpFault, O!NextPage, O!Disown
    <3>3. \/ O!InspectEvidence(s) \/ O!RollBackEvidence(s) \/ O!Reload(s) \/ O!RollBackFault(s)
          \/ O!ReloadFault(s) \/ O!LinkObservation(s) \/ O!DropTemporary(s) \/ O!InspectObservation(s)
          \/ O!LinkObservationFault(s) \/ O!DropTemporaryFault(s)
      BY <3>1, <3>2 DEF After, PageActs, O!Works, O!Fails, O!SkipForeign, O!Unauthorized, O!Prepare,
         O!LookForObservation, O!ValidateExisting, O!LookForOrphan, O!WriteTemporaries,
         O!LinkEvidence,
         O!LinkEvidenceCollides, O!VerifyListed, O!CloseListing, O!PrepareFault, O!BeforeLinkFault,
         O!LinkEvidenceFault, O!OpenListing, O!Begin
    <3>4. CASE O!InspectEvidence(s) \/ O!RollBackEvidence(s) \/ O!Reload(s) \/ O!RollBackFault(s)
               \/ O!ReloadFault(s)
      BY <1>0, <2>3, <3>4 DEF After, O!InspectEvidence, O!RollBackEvidence, O!Reload,
           O!RollBackFault,
         O!ReloadFault, O!EndPage, O!Goto
    <3>5. CASE O!LinkObservation(s) \/ O!DropTemporary(s) \/ O!LinkObservationFault(s)
               \/ O!DropTemporaryFault(s)
      BY <1>0, <2>3, <3>5 DEF After, O!LinkObservation, O!DropTemporary, O!LinkObservationFault,
         O!DropTemporaryFault, O!Goto
    <3>6. CASE O!InspectObservation(s)
      BY <1>0, <2>3, <3>6 DEF After, O!InspectObservation, O!EndPage, O!Goto
    <3> QED
      BY <3>3, <3>4, <3>5, <3>6
  <2> QED
    BY <2>1, <2>2, <2>3
<1> QED
  BY <1>1, <1>2 DEF Held

(* Without an error nothing is stranded.                                   *)
LEMMA NobodyStrands ==
  ASSUME Absent \notin Rendering, Told, NEW s \in Session, O!Works(s) \/ O!OpenListing(s) \/ (\E scan \in O!Scan : O!Begin(s, scan))
  PROVE  Doomed' \subseteq Doomed
<1>0. /\ Typed /\ evidence \in [Page -> Rendering \cup {Absent}] /\ owner \in [Page -> Session \cup {Absent}]
      /\ observation \in [Page -> Rendering \cup {Absent}] /\ pc \in [Session -> O!Step] /\ PageActs(s)
  BY DEF Told, IInv, Typed, O!TypeOK, PageActs
<1> SUFFICES ASSUME NEW p \in Page, evidence'[p] # Absent, observation'[p] = Absent,
                    \A t \in Session : ~ (owner'[p] = t /\ pc'[t] \in Doing /\ O!Current(t)' = p),
                    p \notin Doomed
             PROVE  FALSE
  BY DEF Doomed
<1>1. observation[p] = Absent
  BY <1>0, ObservationStays
<1>2. CASE evidence[p] = Absent
  <2>1. Puts(s) /\ p = O!Current(s)
    BY <1>0, <1>2, FileSteps DEF NoFile, Puts, O!PutEvidence, Records, TakesBack, O!RollBackEvidence
  <2>2. O!LinkEvidence(s)
    BY <2>1 DEF Puts, O!PutEvidence, O!Works, O!SkipForeign, O!Unauthorized, O!Prepare,
         O!LookForObservation,
       O!ValidateExisting, O!LookForOrphan, O!WriteTemporaries, O!LinkEvidenceCollides,
       O!InspectEvidence,
       O!LinkObservation, O!DropTemporary, O!InspectObservation, O!RollBackEvidence, O!Reload,
       O!CleanUp,
       O!VerifyListed, O!CloseListing, O!OpenListing, O!Begin
  <2>3. owner'[p] = s /\ pc'[s] = "linkObservation" /\ O!Current(s)' = O!Current(s)
    BY <1>0, <2>1, <2>2 DEF O!LinkEvidence, O!PutEvidence, O!Goto, O!Remains, O!Current
  <2> QED
    BY <2>1, <2>3 DEF Doing
<1>3. CASE evidence[p] # Absent
  <2>1. PICK t \in Session : owner[p] = t /\ pc[t] \in Doing /\ O!Current(t) = p
    BY <1>1, <1>3 DEF Doomed
  <2>2. CASE t # s
    <3>1. pc'[t] = pc[t] /\ O!Current(t)' = O!Current(t)
      BY <1>0, <2>2, OthersAreLeft DEF OthersStand, O!Current
    <3>2. owner'[p] = t \/ (TakesBack(s) /\ p = O!Current(s))
      BY <1>0, <1>3, <2>1, <2>2, FileSteps DEF NoFile, O!Disown, Puts, O!PutEvidence, Records,
           TakesBack,
         O!RollBackEvidence
    <3>3. TakesBack(s) => p # O!Current(s)
      BY <2>1, <2>2 DEF TakesBack, O!RollBackEvidence, Told, IInv, Owns, Owning
    <3> QED
      BY <2>1, <3>1, <3>2, <3>3
  <2>3. CASE t = s
    <3>1. O!LinkObservation(s) \/ O!InspectObservation(s) \/ O!RollBackEvidence(s)
      BY <2>1, <2>3 DEF Doing, O!Works, O!SkipForeign, O!Unauthorized, O!Prepare,
           O!LookForObservation,
         O!ValidateExisting, O!LookForOrphan, O!WriteTemporaries, O!LinkEvidence,
         O!LinkEvidenceCollides,
         O!InspectEvidence, O!DropTemporary, O!Reload, O!CleanUp, O!VerifyListed, O!CloseListing,
         O!OpenListing, O!Begin
    <3>2. CASE O!LinkObservation(s)
      <4>1. observation'[p] = content[s] /\ content[s] # Absent
        BY <1>0, <1>1, <2>1, <2>3, <3>2 DEF O!LinkObservation, O!PutObservation, Told, IInv,
             HasContent,
           Rendered
      <4> QED
        BY <4>1
    <3>3. CASE O!InspectObservation(s)
      <4>1. /\ pc'[s] = "rollback" /\ owner' = owner /\ O!Current(s)' = O!Current(s)
        BY <1>0, <1>1, <2>1, <2>3, <3>3 DEF O!InspectObservation, O!Inspect, O!Goto, O!Current
      <4> QED
        BY <2>1, <2>3, <4>1 DEF Doing
    <3>4. CASE O!RollBackEvidence(s)
      <4>1. evidence[p] = content[s]
        BY <2>1, <2>3, <3>4 DEF O!RollBackEvidence, Told, IInv, Owns, Owning
      <4> QED
        BY <1>0, <2>1, <2>3, <3>4, <4>1 DEF O!RollBackEvidence
    <3> QED
      BY <3>1, <3>2, <3>3, <3>4
  <2> QED
    BY <2>2, <2>3
<1> QED
  BY <1>2, <1>3

(* An error or a death strands at most the page at hand.                   *)
LEMMA FaultStrandsOne ==
  ASSUME Told, NEW s \in Session, O!Fails(s)
  PROVE  Doomed' \subseteq Doomed \cup {O!Current(s)}
<1>0. /\ Typed /\ evidence \in [Page -> Rendering \cup {Absent}] /\ owner \in [Page -> Session \cup {Absent}]
      /\ observation \in [Page -> Rendering \cup {Absent}] /\ pc \in [Session -> O!Step] /\ PageActs(s)
  BY DEF Told, IInv, Typed, O!TypeOK, PageActs
<1> SUFFICES ASSUME NEW p \in Page, evidence'[p] # Absent, observation'[p] = Absent,
                    \A t \in Session : ~ (owner'[p] = t /\ pc'[t] \in Doing /\ O!Current(t)' = p),
                    p \notin Doomed, p # O!Current(s)
             PROVE  FALSE
  BY DEF Doomed
<1>1. observation[p] = Absent /\ evidence[p] # Absent
  BY <1>0, ObservationStays, FileSteps DEF NoFile, Puts, O!PutEvidence, Records, TakesBack,
       O!RollBackEvidence
<1>2. PICK t \in Session : owner[p] = t /\ pc[t] \in Doing /\ O!Current(t) = p
  BY <1>1 DEF Doomed
<1>3. pc'[t] = pc[t] /\ O!Current(t)' = O!Current(t)
  BY <1>0, <1>2, OthersAreLeft DEF OthersStand, O!Current
<1>4. owner'[p] = t
  BY <1>0, <1>2, FileSteps DEF NoFile, O!Disown, Puts, O!PutEvidence, Records, TakesBack,
       O!RollBackEvidence
<1> QED
  BY <1>2, <1>3, <1>4

LEMMA StrandedKept ==
  ASSUME MaxFaults \in Nat, Absent \notin Rendering, Told, [O!Next]_(O!vars)
  PROVE  Stranded'
<1>0. /\ faults \in Nat /\ IsFiniteSet(Doomed) /\ Cardinality(Doomed) <= faults
      /\ Cardinality(Doomed) \in Nat /\ (stray => faults > 0)
  BY FS_CardinalityType DEF Told, Stranded, IInv, Typed, O!TypeOK
<1>1. ASSUME Doomed' \subseteq Doomed, UNCHANGED <<stray, faults>>
      PROVE  Stranded'
  <2>1. IsFiniteSet(Doomed') /\ Cardinality(Doomed') <= Cardinality(Doomed)
    BY <1>0, <1>1, FS_Subset
  <2>2. Cardinality(Doomed') \in Nat
    BY <2>1, FS_CardinalityType
  <2>3. Cardinality(Doomed') <= faults
    BY <1>0, <2>1, <2>2
  <2> QED
    BY <1>0, <1>1, <2>1, <2>3 DEF Stranded
<1>2. ASSUME NEW s \in Session, O!Fails(s) PROVE Stranded'
  <2>1. faults' = faults + 1
    BY <1>2 DEF O!Fails, O!PrepareFault, O!BeforeLinkFault, O!LinkEvidenceFault,
         O!LinkObservationFault,
       O!DropTemporaryFault, O!RollBackFault, O!ReloadFault, O!CleanUpFault, O!Die, O!Fault
  <2>2. /\ IsFiniteSet(Doomed \cup {O!Current(s)})
        /\ Cardinality(Doomed \cup {O!Current(s)}) <= Cardinality(Doomed) + 1
    <3>1. /\ IsFiniteSet(Doomed \cup {O!Current(s)})
          /\ Cardinality(Doomed \cup {O!Current(s)}) =
               IF O!Current(s) \in Doomed THEN Cardinality(Doomed) ELSE Cardinality(Doomed) + 1
      BY <1>0, FS_AddElement
    <3> QED
      BY <1>0, <3>1
  <2>3. IsFiniteSet(Doomed') /\ Cardinality(Doomed') <= Cardinality(Doomed \cup {O!Current(s)})
    BY <1>2, <2>2, FaultStrandsOne, FS_Subset
  <2>4. Cardinality(Doomed') \in Nat /\ Cardinality(Doomed \cup {O!Current(s)}) \in Nat
    BY <2>2, <2>3, FS_CardinalityType
  <2>5. Cardinality(Doomed') <= faults + 1
    BY <1>0, <2>2, <2>3, <2>4
  <2> QED
    BY <1>0, <2>1, <2>3, <2>5 DEF Stranded
<1>3. ASSUME NEW s \in Session, O!Works(s) \/ O!OpenListing(s) \/ (\E scan \in O!Scan : O!Begin(s, scan))
      PROVE  Stranded'
  <2>1. UNCHANGED <<stray, faults>>
    BY <1>3 DEF O!Works, O!SkipForeign, O!Unauthorized, O!Prepare, O!LookForObservation,
         O!ValidateExisting,
       O!LookForOrphan, O!WriteTemporaries, O!LinkEvidence, O!LinkEvidenceCollides,
       O!InspectEvidence,
       O!LinkObservation, O!DropTemporary, O!InspectObservation, O!RollBackEvidence, O!Reload,
       O!CleanUp,
       O!VerifyListed, O!CloseListing, O!OpenListing, O!Begin, O!EndPage
  <2> QED
    BY <1>1, <1>3, <2>1, NobodyStrands
<1>4. CASE O!Supersede \/ UNCHANGED O!vars
  <2>1. UNCHANGED <<evidence, observation, owner, pc, todo, stray, faults>>
    BY <1>4 DEF O!Supersede, O!vars
  <2>2. Doomed' = Doomed
    BY <2>1 DEF Doomed, O!Current
  <2> QED
    BY <1>1, <2>1, <2>2
<1> QED
  BY <1>2, <1>3, <1>4 DEF O!Next

LEMMA InitTold ==
  ASSUME MaxFaults \in Nat, Absent \notin Session, O!Init
  PROVE  Told
<1>1. IInv
  BY InitIInv
<1>2. Doomed = {}
  BY DEF O!Init, Doomed
<1>3. Stranded
  <2>1. faults = 0 /\ ~ stray
    BY DEF O!Init
  <2>2. IsFiniteSet({}) /\ Cardinality({}) = 0
    BY FS_EmptySet
  <2> QED
    BY <1>2, <2>1, <2>2 DEF Stranded
<1>4. Held /\ \A s \in Session : Heard(s)
  BY DEF O!Init, Held, Heard, O!NoAnswer
<1> QED
  BY <1>1, <1>3, <1>4 DEF Told

LEMMA NextTold ==
  ASSUME MaxFaults \in Nat, Absent \notin Rendering, Absent \notin Session, Told, [O!Next]_(O!vars)
  PROVE  Told'
<1>1. IInv' /\ Stranded'
  BY NextIInv, StrandedKept DEF Told
<1>2. ASSUME NEW s \in Session, PageActs(s) PROVE Held' /\ \A t \in Session : Heard(t)'
  BY <1>2, HeldKept, OwnHeard, OthersHear
<1>3. CASE O!Supersede \/ UNCHANGED O!vars
  <2>1. UNCHANGED <<evidence, observation, owner, pc, todo, unlisted, answer>>
    BY <1>3 DEF O!Supersede, O!vars
  <2> QED
    BY <1>1, <2>1 DEF Told, Held, Heard, O!Current
<1> QED
  BY <1>1, <1>2, <1>3 DEF O!Next, PageActs, Told

(* Callers hear the truth, and each error or death strands at most a page. *)
LEMMA ToldIsTrue ==
  ASSUME Told, Absent \notin Session
  PROVE  O!AnswersAreTrue /\ O!OneFaultOnePage /\ O!ObservationHasEvidence
<1>c. \A S : O!Cardinality(S) = Cardinality(S)
  BY DEF O!Cardinality, Cardinality
<1>1. O!AnswersAreTrue
  BY DEF Told, Heard, O!AnswersAreTrue
<1>2. O!Orphans \subseteq Doomed
  BY DEF O!Orphans, Doomed
<1>3. Cardinality(O!Orphans) <= faults
  <2>1. /\ IsFiniteSet(Doomed) /\ Cardinality(Doomed) <= faults /\ Cardinality(Doomed) \in Nat
        /\ faults \in Nat
    BY FS_CardinalityType DEF Told, Stranded, IInv, Typed, O!TypeOK
  <2>2. IsFiniteSet(O!Orphans) /\ Cardinality(O!Orphans) <= Cardinality(Doomed)
    BY <1>2, <2>1, FS_Subset
  <2>3. Cardinality(O!Orphans) \in Nat
    BY <2>2, FS_CardinalityType
  <2> QED
    BY <2>1, <2>2, <2>3
<1> QED
  BY <1>c, <1>1, <1>3 DEF Told, Stranded, IInv, O!OneFaultOnePage

-----------------------------------------------------------------------------
(***************************************************************************)
(* Both components.                                                        *)
(***************************************************************************)

MCInv ==
  /\ component \in {"packet", "page"}
  /\ component = "packet" => PacketInv
  /\ component = "page" => Told

LEMMA Constants ==
  /\ Parameters /\ MaxFaults \in Nat /\ Absent \notin Rendering /\ Absent \notin Session
BY MCPaperAssumption DEF Parameters

LEMMA MCStart == Init => MCInv
<1> SUFFICES ASSUME Init PROVE MCInv
  OBVIOUS
<1>1. CASE component = "packet" /\ G!Init
  BY <1>1, Constants, InitHolds DEF MCInv
<1>2. CASE component = "page" /\ O!Init
  BY <1>2, Constants, InitTold DEF MCInv
<1> QED
  BY <1>1, <1>2 DEF Init

LEMMA MCStep == MCInv /\ [Next]_all => MCInv'
<1> SUFFICES ASSUME MCInv, [Next]_all PROVE MCInv'
  OBVIOUS
<1>1. component' = component
  BY DEF Next, all
<1>2. CASE component = "packet"
  <2>1. [G!Next]_(G!vars)
    BY <1>2 DEF Next, all, packet, G!vars
  <2>2. PacketInv'
    BY <1>2, <2>1, Constants, StepKeeps DEF MCInv
  <2> QED
    BY <1>1, <1>2, <2>2 DEF MCInv
<1>3. CASE component = "page"
  <2>1. [O!Next]_(O!vars)
    BY <1>3 DEF Next, all, page, O!vars
  <2>2. Told'
    BY <1>3, <2>1, Constants, NextTold DEF MCInv
  <2> QED
    BY <1>1, <1>3, <2>2 DEF MCInv
<1> QED
  BY <1>2, <1>3 DEF MCInv

LEMMA MCAlways == Init /\ [][Next]_all => []MCInv
<1>1. Init => MCInv
  BY MCStart
<1>2. MCInv /\ [Next]_all => MCInv'
  BY MCStep
<1> QED
  BY <1>1, <1>2, PTL

(* The variables of both components keep their types.                      *)
THEOREM TypeCorrect == Spec => []TypeOK
<1>1. MCInv => TypeOK
  BY DEF MCInv, PacketInv, Told, IInv, Typed, TypeOK
<1> QED
  BY <1>1, MCAlways, PTL DEF Spec

(* Who generates alone is the only one.                                    *)
LEMMA AloneIsSolo ==
  ASSUME IsFiniteSet({s \in Session : gen[s] # 0}), Alone
  PROVE  Solo
<1> SUFFICES ASSUME NEW s \in Session, NEW t \in Session, gen[s] # 0, gen[t] # 0, s # t
             PROVE  FALSE
  BY DEF Solo
<1>1. IsFiniteSet({s}) /\ Cardinality({s}) = 1
  BY FS_Singleton
<1>2. Cardinality({s} \cup {t}) = 2
  <2>1. Cardinality({s} \cup {t}) = IF t \in {s} THEN Cardinality({s}) ELSE Cardinality({s}) + 1
    BY <1>1, FS_AddElement
  <2>2. t \notin {s}
    OBVIOUS
  <2> QED
    BY <1>1, <2>1, <2>2
<1>3. {s} \cup {t} \subseteq {u \in Session : gen[u] # 0}
  OBVIOUS
<1>4. Cardinality({s} \cup {t}) <= Cardinality({u \in Session : gen[u] # 0})
  BY <1>3, FS_Subset
<1>5. Cardinality({u \in Session : gen[u] # 0}) \in Nat
  BY FS_CardinalityType
<1> QED
  BY <1>2, <1>4, <1>5 DEF Alone

(* What is printed can be scanned, whatever sessions generate at once, fail  *)
(* or die: issued pages have their routes, cancelled ones have none, a       *)
(* failure without a warning leaves no live issuance, and while one session  *)
(* generates, the PDF at the output path has issued pages                    *)
(* (execute_printable_response_artifact).                                    *)
THEOREM PrintedCanBeScanned == Spec => []PrintedIsScannable
<1>1. MCInv => PrintedIsScannable
  <2> SUFFICES ASSUME MCInv, component = "packet" PROVE PrintedIsScannable
    BY DEF PrintedIsScannable
  <2>1. PacketInv
    BY DEF MCInv
  <2>2. Alone => Solo
    BY <2>1, AloneIsSolo DEF PacketInv
  <2> QED
    BY <2>1, <2>2, Constants, PacketTold DEF PrintedIsScannable
<1> QED
  BY <1>1, MCAlways, PTL DEF Spec

(* A superseded page names a later generation that stands, and an             *)
(* installation that reports success left none of its predecessors open      *)
(* (the loop over the predecessors).                                          *)
THEOREM LineageStands == Spec => []LineageIsKept
<1>1. MCInv => LineageIsKept
  BY Constants, PacketTold DEF MCInv, LineageIsKept
<1> QED
  BY <1>1, MCAlways, PTL DEF Spec

(* An observation has exactly the evidence it was recorded with, callers hear *)
(* the truth of it, and each error or death strands at most one page, whoever *)
(* persists the same page at once (_persist_prepared_page).                   *)
THEOREM LeftoversAreNamed == Spec => []AnswersNameLeftovers
<1>1. MCInv => AnswersNameLeftovers
  BY Constants, ToldIsTrue DEF MCInv, AnswersNameLeftovers
<1> QED
  BY <1>1, MCAlways, PTL DEF Spec

\* What the store shows.
Shown == IF component = "page" THEN O!Stored ELSE [p \in Page |-> Absent]

(* Every step records one page in the store or leaves the store alone.     *)
LEMMA StepIsStoreStep ==
  ASSUME MCInv, MCInv', [Next]_all
  PROVE  [Store!Next]_Shown
<1>1. component' = component
  BY DEF Next, all
<1>2. CASE component # "page"
  BY <1>1, <1>2 DEF Shown
<1>3. CASE component = "page"
  <2>0. IInv /\ [O!Next]_(O!vars) /\ Shown = O!Stored /\ Shown' = O!Stored'
    BY <1>1, <1>3 DEF Next, all, page, O!vars, MCInv, Told, Shown
  <2>1. Shown = observation /\ Shown' = observation'
    <3>1. O!Stored = observation
      BY <2>0, StoredIsObserved
    <3>2. observation' \in [Page -> Rendering \cup {Absent}]
      BY <1>1, <1>3 DEF MCInv, Told, IInv, Typed, O!TypeOK
    <3>3. \A p \in Page : O!Stored'[p] = observation'[p]
      BY <1>1, <1>3 DEF O!Stored, MCInv, Told, IInv, O!ObservationHasEvidence
    <3>4. O!Stored' = observation'
      BY <3>2, <3>3 DEF O!Stored
    <3> QED
      BY <2>0, <3>1, <3>4
  <2>2. CASE observation' = observation
    BY <2>1, <2>2
  <2>3. ASSUME NEW s \in Session, PageActs(s) PROVE [Store!Next]_Shown
    <3>1. CASE NoFile(s) \/ Puts(s) \/ TakesBack(s)
      BY <2>2, <3>1 DEF NoFile, Puts, TakesBack, O!RollBackEvidence
    <3>2. CASE Records(s)
      <4>1. O!Current(s) \in Page /\ content[s] \in Rendering
        BY <2>0, <3>2, CurrentIsPage DEF Records, IInv, HasContent, Rendered
      <4>2. /\ Shown[O!Current(s)] = Absent
            /\ Shown' = [Shown EXCEPT ![O!Current(s)] = content[s]]
        BY <2>1, <3>2 DEF Records, O!PutObservation
      <4>3. Store!Record(O!Current(s), content[s])
        BY <4>2 DEF Store!Record, Shown
      <4> QED
        BY <4>1, <4>3 DEF Store!Next
    <3> QED
      BY <2>0, <2>3, <3>1, <3>2, FileSteps DEF IInv
  <2>4. CASE O!Supersede \/ UNCHANGED O!vars
    BY <2>2, <2>4 DEF O!Supersede, O!vars
  <2> QED
    BY <2>0, <2>3, <2>4 DEF O!Next, PageActs
<1> QED
  BY <1>2, <1>3

(* Sessions that persist pages, list them, fail and die implement a store  *)
(* in which a page appears together with its evidence, once and for good.  *)
THEOREM ImplementsStore == Spec => Implements
<1>1. Init => Store!Init
  BY DEF Init, Store!Init, O!Init, O!Stored
<1>2. MCInv /\ MCInv' /\ [Next]_all => [Store!Next]_Shown
  BY StepIsStoreStep
<1> QED
  BY <1>1, <1>2, MCAlways, PTL DEF Spec, Implements, Store!Spec, Shown
=============================================================================
