------------------------------ MODULE MCPaper ------------------------------
(* Response pages on paper: the packet that is printed and the scanned     *)
(* page that is recorded, each on a small instance, in one run: the        *)
(* initial state picks the component, and the variables of the other keep  *)
(* one value.                                                              *)
EXTENDS TLC, FiniteSets, Naturals

CONSTANTS
  Session, MaxFaults,          \* both
  NStudents, MaxGen, MaxEdits, \* PacketGeneration
  Page, Foreign, Rendering, Absent  \* ObservationPersistence

\* A roster without students is refused when the packet is planned.
ASSUME MCPaperAssumption ==
  /\ NStudents \in Nat \ {0} /\ MaxGen \in Nat /\ MaxEdits \in Nat /\ MaxFaults \in Nat
  /\ Absent \notin Rendering \cup Session

VARIABLES
  component,
  pc, faults,
  status, replacedBy, routed, output, source, litter, allocated, gen, plan, at,
  made, terminal, result,
  evidence, observation, temp, stray, issued, todo, content, unlisted, answer, owner

G == INSTANCE PacketGeneration
O == INSTANCE ObservationPersistence

Off == "off"
packet == <<status, replacedBy, routed, output, source, litter, allocated, gen, plan,
            at, made, terminal, result>>
page == <<evidence, observation, temp, stray, issued, todo, content, unlisted, answer, owner>>
all == <<component, pc, faults, packet, page>>

PacketOff ==
  /\ status = Off /\ replacedBy = Off /\ routed = Off /\ output = Off /\ source = Off
  /\ litter = Off /\ allocated = Off /\ gen = Off /\ plan = Off /\ at = Off /\ made = Off
  /\ terminal = Off /\ result = Off
PageOff ==
  /\ evidence = Off /\ observation = Off /\ temp = Off /\ stray = Off /\ issued = Off
  /\ todo = Off /\ content = Off /\ unlisted = Off /\ answer = Off /\ owner = Off

Init ==
  \/ component = "packet" /\ G!Init /\ PageOff
  \/ component = "page" /\ O!Init /\ PacketOff

Next ==
  /\ UNCHANGED component
  /\ \/ component = "packet" /\ G!Next /\ UNCHANGED page
     \/ component = "page" /\ O!Next /\ UNCHANGED packet

\* Sessions that persist a page run on; nothing obliges a teacher to finish a packet.
Works(s) == component = "page" /\ O!Works(s) /\ UNCHANGED <<component, packet>>
Spec == Init /\ [][Next]_all /\ \A s \in Session : WF_all(Works(s))

\* Only one session has generated so far.
Alone == Cardinality({s \in Session : gen[s] # 0}) <= 1

\* Bound: two faults while one session generates packet after packet, one
\* fault once two sessions did.
Faults == component = "packet" => faults' <= IF Alone' THEN 2 ELSE 1

-----------------------------------------------------------------------------
(* Properties: each of its component, as the component's module states it *)

\* Both components' type invariants.
TypeOK == /\ component = "packet" => G!TypeOK
          /\ component = "page" => O!TypeOK

\* What is printed can be scanned and nothing else can: issued pages have their
\* routes, cancelled ones have none, and a failure that warns of nothing leaves no
\* live issuance.  As long as one session generates, the PDF at the output path
\* has issued pages (two at once may leave issuances superseded under a packet).
PrintedIsScannable ==
  component = "packet" =>
    /\ G!IssuedIsRouted /\ G!CancelledHasNoRoute /\ G!FailureLeavesNothingLive
    /\ Alone => G!OutputIsIssued

\* A page is superseded by a later generation, and a clean installation leaves
\* none of its predecessors open.
LineageIsKept == component = "packet" => G!LineageForward /\ G!CleanInstallClosesLineage

\* An observation has the evidence it was recorded with, callers hear the truth,
\* and each error or death strands at most one page.
AnswersNameLeftovers ==
  component = "page" => O!ObservationHasEvidence /\ O!AnswersAreTrue /\ O!OneFaultOnePage

\* Sessions, collisions, errors and deaths implement a store in which a page
\* appears with its evidence in one step and stays.
Store == INSTANCE ObservationStore WITH
  store <- IF component = "page" THEN O!Stored ELSE [p \in Page |-> Absent]
Implements == Store!Spec

\* A session that runs comes to an answer.
Answers ==
  \A s \in Session :
    (component = "page" /\ pc[s] # "idle") ~> (component = "page" /\ pc[s] = "idle")
=============================================================================
