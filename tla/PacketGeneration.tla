-------------------------- MODULE PacketGeneration --------------------------
(***************************************************************************)
(* Generation of a class packet of printable response pages:               *)
(* quillan/printable_response_packet.py plans it (and the teacher looks at *)
(* the plan), printable_response_generation.py executes it as a            *)
(* transaction over the issuance and page records                          *)
(* (printable_response_persistence.py), Core's route registrations         *)
(* (printable_response_routes.py) and the one PDF at the canonical output  *)
(* path.  Nothing locks the assignment: two sessions may generate at once. *)
(*                                                                         *)
(* A generation has one issuance per student; <<g, st>> names it, and its  *)
(* pages and routes, which are written together, stand or fall with it.    *)
(* The revision of a lifecycle is determined by its status, so the         *)
(* expected_revision of a transition is modelled by the status expected.   *)
(***************************************************************************)
EXTENDS Naturals, FiniteSets

CONSTANTS
  Session,      \* processes that may generate a packet of this assignment
  NStudents,    \* students of the roster, in roster order
  MaxGen,       \* bound on the generations ever allocated
  MaxEdits,     \* bound on edits of the assignment or the roster
  MaxFaults     \* bound on I/O errors and process deaths

Student == 1 .. NStudents
Gen == 1 .. MaxGen
Issuance == Gen \X Student

VARIABLES
  status,      \* Issuance -> lifecycle status, "none" before it is written
  replacedBy,  \* Issuance -> the generation that superseded it, or 0
  routed,      \* issuances whose routes Core has registered
  output,      \* the generation whose PDF is at the output path, or 0
  source,      \* the revision of assignment and roster
  litter,      \* the issuance collection holds a file that is no record
  allocated,   \* generations allocated so far
  pc,          \* Session -> the next step of its generation
  gen,         \* Session -> the generation it executes
  plan,        \* Session -> what the packet plan recorded
  at,          \* Session -> the student whose turn it is
  made,        \* Session -> how many record sets it persisted
  terminal,    \* Session -> the status its compensation writes
  result,      \* Session -> how its last generation ended
  faults

worldVars == <<status, replacedBy, routed, output, source, litter, allocated>>
vars == <<status, replacedBy, routed, output, source, litter, allocated, pc,
          gen, plan, at, made, terminal, result, faults>>

Live == {"prepared", "issued"}
Terminal == {"cancelled", "superseded", "invalidated"}
Status == {"none"} \cup Live \cup Terminal

\* Steps of execute_printable_response_artifact.  A lifecycle transition is
\* two steps: the revision check and, with nothing in between to stop another
\* process, the os.replace of _atomic_replace_issuance.
Writing == {"issue_write", "supersede_write", "compensate_write"}
Step == {"idle", "planned", "records", "routes", "render", "issue", "install_check",
         "install", "supersede", "compensate"} \cup Writing
Result == {"none", "installed", "partial", "failed", "failed_warned", "crashed"}

-----------------------------------------------------------------------------
(* Planning.                                                               *)

Issued(st) == {g \in Gen : status[<<g, st>>] = "issued"}

\* select_printable_response_predecessors: refused while any issuance of a
\* roster student is prepared, or two of them are issued.
Selectable ==
  /\ ~litter
  /\ \A st \in Student :
       /\ \A g \in Gen : status[<<g, st>>] # "prepared"
       /\ Cardinality(Issued(st)) <= 1

Predecessors ==
  [st \in Student |-> IF Issued(st) = {} THEN 0 ELSE CHOOSE g \in Issued(st) : TRUE]

Snapshot == [preds |-> Predecessors, output |-> output, source |-> source]
NoPlan == [preds |-> [st \in Student |-> 0], output |-> 0, source |-> 0]

Init ==
  /\ status = [i \in Issuance |-> "none"]
  /\ replacedBy = [i \in Issuance |-> 0]
  /\ routed = {}
  /\ output = 0
  /\ source = 0
  /\ litter = FALSE
  /\ allocated = 0
  /\ pc = [s \in Session |-> "idle"]
  /\ gen = [s \in Session |-> 0]
  /\ plan = [s \in Session |-> NoPlan]
  /\ at = [s \in Session |-> 1]
  /\ made = [s \in Session |-> 0]
  /\ terminal = [s \in Session |-> "cancelled"]
  /\ result = [s \in Session |-> "none"]
  /\ faults = 0

Goto(s, step) == pc' = [pc EXCEPT ![s] = step]

\* Mutant: one student too many.
AdvancePast(s, step, last, next) ==
  IF at[s] <= last
    THEN Goto(s, step) /\ at' = [at EXCEPT ![s] = @ + 1]
    ELSE Goto(s, next) /\ at' = [at EXCEPT ![s] = 1]

\* After the step of one student: the next student's, or the next stage.
Advance(s, step, last, next) ==
  IF at[s] < last
    THEN Goto(s, step) /\ at' = [at EXCEPT ![s] = @ + 1]
    ELSE Goto(s, next) /\ at' = [at EXCEPT ![s] = 1]

End(s, r) ==
  /\ result' = [result EXCEPT ![s] = r]
  /\ Goto(s, "idle")

\* plan_printable_response_packet.
Plan(s) ==
  /\ pc[s] = "idle"
  /\ Selectable
  /\ plan' = [plan EXCEPT ![s] = Snapshot]
  /\ result' = [result EXCEPT ![s] = "none"]
  /\ Goto(s, "planned")
  /\ UNCHANGED <<worldVars, gen, at, made, terminal, faults>>

\* The teacher does not confirm, or the sources, the predecessors or the
\* existence or digest of the output are no longer what the plan recorded.
Decline(s) ==
  /\ pc[s] = "planned"
  /\ End(s, "none")
  /\ UNCHANGED <<worldVars, gen, plan, at, made, terminal, faults>>

\* generate_printable_response_packet up to the first write: the plan still
\* holds and every identity is fresh.
Generate(s) ==
  /\ pc[s] = "planned"
  /\ Selectable
  /\ Snapshot = plan[s]
  /\ allocated < MaxGen
  /\ allocated' = allocated + 1
  /\ gen' = [gen EXCEPT ![s] = allocated + 1]
  /\ made' = [made EXCEPT ![s] = 0]
  /\ at' = [at EXCEPT ![s] = 1]
  /\ Goto(s, "records")
  /\ UNCHANGED <<status, replacedBy, routed, output, source, litter, plan,
                 terminal, result, faults>>

-----------------------------------------------------------------------------
(* The stages.                                                             *)

Mine(s) == <<gen[s], at[s]>>

\* Mutant: a failure while routes are written cancels like an earlier one.
FailForgettingRoutes(s) ==
  /\ terminal' = [terminal EXCEPT ![s] =
       IF pc[s] \in {"render", "issue", "issue_write", "install_check", "install"}
         THEN "invalidated" ELSE "cancelled"]
  /\ IF made[s] = 0
       THEN End(s, "failed") /\ UNCHANGED at
       ELSE /\ Goto(s, "compensate")
            /\ at' = [at EXCEPT ![s] = 1]
            /\ result' = [result EXCEPT ![s] = "failed"]

\* The except clause: what compensation will write, over the record sets
\* persisted so far.
Fail(s) ==
  /\ terminal' = [terminal EXCEPT ![s] =
       IF \/ pc[s] \in {"render", "issue", "issue_write", "install_check", "install"}
          \/ pc[s] = "routes" /\ \E st \in Student : <<gen[s], st>> \in routed'
         THEN "invalidated" ELSE "cancelled"]
  /\ IF made[s] = 0
       THEN End(s, "failed") /\ UNCHANGED at
       ELSE /\ Goto(s, "compensate")
            /\ at' = [at EXCEPT ![s] = 1]
            /\ result' = [result EXCEPT ![s] = "failed"]

\* write_printable_response_record_set: pages, then the prepared issuance.
\* It fails if assignment or roster were edited since they were read.
WriteRecords(s) ==
  /\ pc[s] = "records"
  /\ \/ /\ source = plan[s].source
        /\ status' = [status EXCEPT ![Mine(s)] = "prepared"]
        /\ made' = [made EXCEPT ![s] = at[s]]
        /\ Advance(s, "records", NStudents, "routes")
        /\ UNCHANGED <<terminal, result>>
     \/ /\ source # plan[s].source
        /\ Fail(s)
        /\ UNCHANGED <<status, made>>
  /\ UNCHANGED <<replacedBy, routed, output, source, litter, allocated, gen, plan, faults>>

\* persist_printable_response_route_set: only for a prepared issuance.
WriteRoutes(s) ==
  /\ pc[s] = "routes"
  /\ status[Mine(s)] = "prepared"
  /\ routed' = routed \cup {Mine(s)}
  /\ Advance(s, "routes", NStudents, "render")
  /\ UNCHANGED <<status, replacedBy, output, source, litter, allocated, gen,
                 plan, made, terminal, result, faults>>

\* Mutant: the new issuances are issued before the routes are written.
RenderBeforeRoutes(s) ==
  /\ pc[s] \in {"render", "routes"}
  /\ Goto(s, "issue")
  /\ UNCHANGED <<worldVars, gen, plan, at, made, terminal, result, faults>>

\* render_printable_response_pdf, into a temporary file of this operation.
Render(s) ==
  /\ pc[s] = "render"
  /\ Goto(s, "issue")
  /\ UNCHANGED <<worldVars, gen, plan, at, made, terminal, result, faults>>

\* prepared -> issued: revision check ...
IssueCheck(s) ==
  /\ pc[s] = "issue"
  /\ status[Mine(s)] = "prepared"
  /\ Goto(s, "issue_write")
  /\ UNCHANGED <<worldVars, gen, plan, at, made, terminal, result, faults>>

\* ... and replacement of the record.
IssueWrite(s) ==
  /\ pc[s] = "issue_write"
  /\ status' = [status EXCEPT ![Mine(s)] = "issued"]
  /\ Advance(s, "issue", NStudents, "install_check")
  /\ UNCHANGED <<replacedBy, routed, output, source, litter, allocated, gen,
                 plan, made, terminal, result, faults>>

\* _check_concurrent_output: existence and digest are still the planned ones.
InstallCheck(s) ==
  /\ pc[s] = "install_check"
  /\ \/ output = plan[s].output /\ Goto(s, "install") /\ UNCHANGED <<terminal, at, result>>
     \/ output # plan[s].output /\ Fail(s)
  /\ UNCHANGED <<worldVars, gen, plan, made, faults>>

\* os.replace(temporary, output).
Install(s) ==
  /\ pc[s] = "install"
  /\ output' = gen[s]
  /\ result' = [result EXCEPT ![s] = "installed"]
  /\ Goto(s, "supersede")
  /\ UNCHANGED <<status, replacedBy, routed, source, litter, allocated, gen,
                 plan, at, made, terminal, faults>>

Predecessor(s) == <<plan[s].preds[at[s]], at[s]>>

\* The loop over the predecessors goes on whatever happened to one of them.
SupersedeNext(s, r) ==
  /\ result' = [result EXCEPT ![s] = r]
  /\ Advance(s, "supersede", NStudents, "idle")

\* issued -> superseded of each named predecessor: its revision must be the
\* planned one and its replacement must be issued ...
SupersedeCheck(s) ==
  /\ pc[s] = "supersede"
  /\ \/ plan[s].preds[at[s]] = 0 /\ SupersedeNext(s, result[s])
     \/ /\ plan[s].preds[at[s]] # 0
        /\ IF status[Predecessor(s)] = "issued" /\ status[Mine(s)] = "issued"
             THEN Goto(s, "supersede_write") /\ UNCHANGED <<at, result>>
             ELSE SupersedeNext(s, "partial")
  /\ UNCHANGED <<worldVars, gen, plan, made, terminal, faults>>

\* Mutant: the lineage is recorded on the new issuance.
SupersedeMine(s) ==
  /\ pc[s] = "supersede_write"
  /\ status' = [status EXCEPT ![Mine(s)] = "superseded"]
  /\ replacedBy' = [replacedBy EXCEPT ![Mine(s)] = gen[s]]
  /\ SupersedeNext(s, result[s])
  /\ UNCHANGED <<routed, output, source, litter, allocated, gen, plan, made, terminal, faults>>

\* ... and the replacement of the predecessor's record.
SupersedeWrite(s) ==
  /\ pc[s] = "supersede_write"
  /\ status' = [status EXCEPT ![Predecessor(s)] = "superseded"]
  /\ replacedBy' = [replacedBy EXCEPT ![Predecessor(s)] = gen[s]]
  /\ SupersedeNext(s, result[s])
  /\ UNCHANGED <<routed, output, source, litter, allocated, gen, plan, made, terminal, faults>>

\* _compensate_issuances: an issuance that is no longer live is skipped.
CompensateCheck(s) ==
  /\ pc[s] = "compensate"
  /\ \/ /\ status[Mine(s)] \in Live
        /\ Goto(s, "compensate_write")
        /\ UNCHANGED at
     \/ /\ status[Mine(s)] \notin Live
        /\ Advance(s, "compensate", made[s], "idle")
  /\ UNCHANGED <<worldVars, gen, plan, made, terminal, result, faults>>

CompensateWrite(s) ==
  /\ pc[s] = "compensate_write"
  /\ status' = [status EXCEPT ![Mine(s)] = terminal[s]]
  /\ replacedBy' = [replacedBy EXCEPT ![Mine(s)] = 0]
  /\ Advance(s, "compensate", made[s], "idle")
  /\ UNCHANGED <<routed, output, source, litter, allocated, gen, plan, made,
                 terminal, result, faults>>

-----------------------------------------------------------------------------
(* The environment.                                                        *)

\* The teacher edits the assignment or the roster.
EditSources ==
  /\ source < MaxEdits
  /\ source' = source + 1
  /\ UNCHANGED <<status, replacedBy, routed, output, litter, allocated, pc,
                 gen, plan, at, made, terminal, result, faults>>

Fault == faults < MaxFaults /\ faults' = faults + 1

\* A stage raises.  Writing records rolls the student's files back, or says it
\* could not; writing routes may have registered them all the same.
StageFault(s) ==
  /\ pc[s] \in {"records", "routes", "render", "issue", "issue_write",
                "install_check", "install"}
  /\ routed' \in {routed, IF pc[s] = "routes" THEN routed \cup {Mine(s)} ELSE routed}
  /\ Fail(s)
  /\ Fault
  /\ UNCHANGED <<status, replacedBy, output, source, litter, allocated, gen, plan, made>>

\* PrintableResponseRollbackError: the prepared issuance stays, and is not
\* among the persisted ones that compensation visits.
RollbackFault(s) ==
  /\ pc[s] = "records"
  /\ source = plan[s].source
  /\ status' = [status EXCEPT ![Mine(s)] = "prepared"]
  /\ terminal' = [terminal EXCEPT ![s] = "cancelled"]
  /\ result' = [result EXCEPT ![s] = "failed_warned"]
  /\ Goto(s, IF made[s] = 0 THEN "idle" ELSE "compensate")
  /\ at' = [at EXCEPT ![s] = 1]
  /\ Fault
  /\ UNCHANGED <<replacedBy, routed, output, source, litter, allocated, gen, plan, made>>

\* A supersession or a compensation that raises becomes a warning.
TransitionFault(s) ==
  /\ \/ /\ pc[s] \in {"supersede", "supersede_write"}
        /\ plan[s].preds[at[s]] # 0
        /\ SupersedeNext(s, "partial")
     \/ /\ pc[s] \in {"compensate", "compensate_write"}
        /\ result' = [result EXCEPT ![s] = "failed_warned"]
        /\ Advance(s, "compensate", made[s], "idle")
  /\ Fault
  /\ UNCHANGED <<worldVars, gen, plan, made, terminal>>

\* The process dies; in the middle of writing into the issuance collection it
\* may leave a temporary or a torn record there.
Crash(s) ==
  /\ pc[s] \notin {"idle", "planned"}
  /\ litter' \in IF pc[s] \in Writing \cup {"records"} THEN {litter, TRUE} ELSE {litter}
  /\ End(s, "crashed")
  /\ Fault
  /\ UNCHANGED <<status, replacedBy, routed, output, source, allocated, gen,
                 plan, at, made, terminal>>

SessionStep(s) ==
  \/ Plan(s) \/ Decline(s) \/ Generate(s) \/ WriteRecords(s) \/ WriteRoutes(s)
  \/ Render(s) \/ IssueCheck(s) \/ IssueWrite(s) \/ InstallCheck(s) \/ Install(s)
  \/ SupersedeCheck(s) \/ SupersedeWrite(s) \/ CompensateCheck(s) \/ CompensateWrite(s)

FaultStep(s) == StageFault(s) \/ RollbackFault(s) \/ TransitionFault(s) \/ Crash(s)

Next == EditSources \/ \E s \in Session : SessionStep(s) \/ FaultStep(s)

Spec == Init /\ [][Next]_vars

-----------------------------------------------------------------------------
(* What the transaction must guarantee.                                    *)

TypeOK ==
  /\ status \in [Issuance -> Status]
  /\ replacedBy \in [Issuance -> 0 .. MaxGen]
  /\ routed \subseteq Issuance
  /\ output \in 0 .. MaxGen
  /\ source \in 0 .. MaxEdits
  /\ litter \in BOOLEAN
  /\ allocated \in 0 .. MaxGen
  /\ pc \in [Session -> Step]
  /\ gen \in [Session -> 0 .. MaxGen]
  /\ plan \in [Session -> [preds : [Student -> 0 .. MaxGen], output : 0 .. MaxGen,
                           source : 0 .. MaxEdits]]
  /\ at \in [Session -> Student]
  /\ made \in [Session -> 0 .. NStudents]
  /\ terminal \in [Session -> Terminal]
  /\ result \in [Session -> Result]
  /\ faults \in 0 .. MaxFaults

\* A cancelled issuance was never routed: a printed page's locator can only
\* lead to a record that says it was invalidated, never to one that claims
\* nothing was ever made (docs/printable_response_template.md, lines 70-72).
CancelledHasNoRoute ==
  \A i \in Issuance : status[i] = "cancelled" => i \notin routed

\* What was issued can be scanned: its routes were registered first.
IssuedIsRouted ==
  \A i \in Issuance : status[i] \in {"issued", "superseded"} => i \in routed

\* A superseded issuance names a later one of the same student whose packet
\* was installed; the lineage of a student never loops or dangles.
LineageForward ==
  \A i \in Issuance : status[i] = "superseded" =>
    LET h == replacedBy[i]
    IN  /\ h > i[1]
        /\ status[<<h, i[2]>>] \in {"issued", "superseded"}

\* A generation that ends in failure without a warning leaves no issuance that
\* a scan would accept or that would block the next generation.
FailureLeavesNothingLive ==
  \A s \in Session : pc[s] = "idle" /\ result[s] = "failed" =>
    \A st \in Student : status[<<gen[s], st>>] \notin Live

\* A generation that reports clean success has closed the lineage it replaced.
CleanInstallClosesLineage ==
  \A s \in Session : pc[s] = "idle" /\ result[s] = "installed" =>
    \A st \in Student :
      plan[s].preds[st] # 0 => status[<<plan[s].preds[st], st>>] \in Terminal

\* One session at a time, whatever fails or dies: the PDF at the output path is
\* the one whose pages a scan accepts, also while its successor is in progress.
OutputIsIssued ==
  output # 0 => \A st \in Student : status[<<output, st>>] = "issued"
=============================================================================
