----------------------------- MODULE MCWorkspace -----------------------------
(* A teacher at the review menus, an assignment saved for several classes, *)
(* a class roster, and the reports of an assignment, each on a small       *)
(* instance, in one run: the initial state picks the component, and the    *)
(* variables of the others keep one value.                                 *)
EXTENDS TLC, Naturals, Sequences, FiniteSets

CONSTANTS
  Session, Roster, MaxExtras,                      \* ReviewSession
  Teacher, Class, MaxVersion,                      \* AssignmentBatch
  Editor, MaxSaves,                                \* Roster
  Reporter, Roll, Record, MaxExports, MaxEdits     \* Reports

VARIABLES
  component,
  policy, work, at, extras,
  aside, basis, batches, pc, over,
  roster, metadata, contents, step, call, answer,
  enrolled, available, record, edits, exports, stage, replaced,
  file, job, told  \* of AssignmentBatch and of Reports

S == INSTANCE ReviewSession
B == INSTANCE AssignmentBatch
C == INSTANCE Roster
P == INSTANCE Reports

\* Every student and every class is in the list it is taken from, and an assignment
\* that is reviewed has students.
ASSUME MCWorkspaceAssumption ==
  /\ MaxExtras \in Nat /\ Roster \in Seq(S!Student) /\ Roster # <<>>
  /\ MaxVersion \in Nat /\ Class \in Seq(B!Classes)
  /\ MaxSaves \in Nat
  /\ MaxExports \in Nat /\ MaxEdits \in Nat /\ Record \subseteq P!Records
  /\ Roll \in Seq(P!Student)

Off == "off"
session == <<policy, work, at, extras>>
batch == <<aside, basis, batches, pc, over>>
class == <<roster, metadata, contents, step, call, answer>>
reports == <<enrolled, available, record, edits, exports, stage, replaced>>
shared == <<file, job, told>>
all == <<component, session, batch, class, reports, shared>>

SessionOff == policy = Off /\ work = Off /\ at = Off /\ extras = Off
BatchOff == aside = Off /\ basis = Off /\ batches = Off /\ pc = Off /\ over = Off
ClassOff ==
  /\ roster = Off /\ metadata = Off /\ contents = Off
  /\ step = Off /\ call = Off /\ answer = Off
ReportsOff ==
  /\ enrolled = Off /\ available = Off /\ record = Off /\ edits = Off
  /\ exports = Off /\ stage = Off /\ replaced = Off
SharedOff == file = Off /\ job = Off /\ told = Off

Init ==
  \/ component = "session" /\ S!Init /\ BatchOff /\ ClassOff /\ ReportsOff /\ SharedOff
  \/ component = "batch" /\ B!Init /\ SessionOff /\ ClassOff /\ ReportsOff
  \/ component = "class" /\ C!Init /\ SessionOff /\ BatchOff /\ ReportsOff /\ SharedOff
  \/ component = "reports" /\ P!Init /\ SessionOff /\ BatchOff /\ ClassOff

\* Bounds of the reports: two exports, and exports of one report, only while nobody
\* has any work; when the records vary there is one export, of a packet.
Plain == edits = 0 /\ \A s \in DOMAIN record : record[s].submission = "none"
OnePacket == exports <= 1 /\ \A e \in Reporter : Len(job[e].reports) # 1
ReportBounds == Plain' \/ OnePacket'

Next ==
  /\ UNCHANGED component
  /\ \/ component = "session" /\ S!Next /\ UNCHANGED <<batch, class, reports, shared>>
     \/ component = "batch" /\ B!Next /\ UNCHANGED <<session, class, reports>>
     \/ component = "class" /\ C!Next /\ UNCHANGED <<session, batch, reports, shared>>
     \/ component = "reports" /\ P!Next /\ ReportBounds /\ UNCHANGED <<session, batch, class>>

\* Every teacher keeps doing what the screens lead to.
Follow(s) ==
  /\ component = "session" /\ S!Follow(s)
  /\ UNCHANGED <<component, batch, class, reports, shared>>

Spec == Init /\ [][Next]_all /\ \A s \in Session : WF_all(Follow(s))

-----------------------------------------------------------------------------
(* Instances *)

MCStudents == <<"a", "b">>
MCClass == <<"c1", "c2">>

Valid(state, returned, rated) ==
  [submission |-> "valid", review |-> state, returned |-> returned, rated |-> rated]
Without(submission, review) ==
  [submission |-> submission, review |-> review, returned |-> FALSE, rated |-> FALSE]

\* One record of each kind that the reports tell apart.
MCRecord ==
  {Without("none", "none"), Without("orphan", "invalid"), Without("valid", "invalid"),
   Valid("observations_in_progress", FALSE, FALSE), Valid("exported", FALSE, TRUE),
   Valid("returned_without_full_review", TRUE, TRUE)}

-----------------------------------------------------------------------------
(* Properties: each of its component, as the component's module states it *)

\* The components' type invariants.
TypeOK ==
  /\ component = "session" => S!TypeOK
  /\ component = "batch" => B!TypeOK
  /\ component = "class" => C!TypeOK
  /\ component = "reports" => P!TypeOK

\* A save of several files is whole, or takes back what it may and names what it
\* could not: the copies of an assignment, a roster and its metadata, the reports
\* of a packet, which moreover agree with each other.
SavesAreWhole ==
  /\ component = "batch" => B!RemainsAreNamed /\ B!SavedIsKept /\ B!UpdatesTakenBack
  /\ component = "class" => C!CreationIsWhole
  /\ component = "reports" => P!ReportsAgree /\ P!CompletedStand /\ P!PacketInventory

\* A stage that was completed at the guidance's advice is behind the student: no
\* screen leads back to it.
GuidanceAdvances == [][component = "session" => S!StageAdvances]_all

\* A teacher who follows the screens finishes every student's review.
EveryReviewCompletes == <>[](component = "session" => S!AllDone)
=============================================================================
