------------------------------- MODULE MCScan -------------------------------
(* The four components between a scan and a submission, each on a small    *)
(* instance, in one run: the initial state picks the component, and the    *)
(* variables of the others keep one value.  Components share the names of  *)
(* some variables (pc, job, clock, faults), never their states.            *)
EXTENDS TLC, Naturals, Sequences

CONSTANTS
  Kinds, MaxRuns,                                \* ScanIntake
  Session, Route, MaxDecisions, Elsewhere,       \* ScanRecovery
  Occurrence, Student, MaxTime,                  \* PostDispatchReview
  Creator,                                       \* PlainPaper
  MaxFaults

\* Names of the models that are nobody's.
ASSUME MCScanAssumption ==
  /\ MaxRuns \in Nat /\ MaxDecisions \in Nat /\ MaxTime \in Nat /\ MaxFaults \in Nat
  /\ "all" \notin Student /\ "nobody" \notin Student
  /\ "nobody" \notin Creator /\ "other" \notin Creator

VARIABLES
  component,
  paper, retained, records, observed, submitted, occurrences,
  run, at, file, todo, source, terminal, failing, reported,
  decisions, issued, page, place, receipts,
  about, created, broken, revision, resolutions,
  manifest, review, guard, displaced, named, teacher,
  clock, pc, job, faults

\* Three sheets in two files: one student has a sheet in each.
FileOf == <<1, 1, 2>>
StudentOf == <<"ann", "bo", "ann">>

I == INSTANCE ScanIntake
R == INSTANCE ScanRecovery
D == INSTANCE PostDispatchReview
P == INSTANCE PlainPaper

Off == "off"
intake == <<paper, retained, records, observed, submitted, occurrences,
            run, at, file, todo, source, terminal, failing, reported>>
recovery == <<decisions, issued, page, place, receipts>>
postdispatch == <<about, created, broken, revision, resolutions>>
plain == <<manifest, review, guard, displaced, named, teacher>>
all == <<component, intake, recovery, postdispatch, plain, clock, pc, job, faults>>

IntakeOff ==
  /\ paper = Off /\ retained = Off /\ records = Off /\ observed = Off /\ submitted = Off
  /\ occurrences = Off /\ run = Off /\ at = Off /\ file = Off /\ todo = Off
  /\ source = Off /\ terminal = Off /\ failing = Off /\ reported = Off
RecoveryOff == decisions = Off /\ issued = Off /\ page = Off /\ place = Off /\ receipts = Off
PostDispatchOff == about = Off /\ created = Off /\ broken = Off /\ revision = Off /\ resolutions = Off
PlainOff ==
  manifest = Off /\ review = Off /\ guard = Off /\ displaced = Off /\ named = Off /\ teacher = Off

Init ==
  \/ /\ component = "intake" /\ I!Init
     /\ RecoveryOff /\ PostDispatchOff /\ PlainOff /\ clock = Off /\ pc = Off /\ job = Off
  \/ /\ component = "recovery" /\ R!Init
     /\ IntakeOff /\ PostDispatchOff /\ PlainOff /\ faults = Off
  \/ /\ component = "postdispatch" /\ D!Init
     /\ IntakeOff /\ RecoveryOff /\ PlainOff /\ faults = Off
  \/ /\ component = "plain" /\ P!Init
     /\ IntakeOff /\ RecoveryOff /\ PostDispatchOff /\ clock = Off /\ job = Off

Next ==
  /\ UNCHANGED component
  /\ \/ component = "intake" /\ I!Next /\ UNCHANGED <<recovery, postdispatch, plain, clock, pc, job>>
     \/ component = "recovery" /\ R!Next /\ UNCHANGED <<intake, postdispatch, plain, faults>>
     \/ component = "postdispatch" /\ D!Next /\ UNCHANGED <<intake, recovery, plain, faults>>
     \/ component = "plain" /\ P!Next /\ UNCHANGED <<intake, recovery, postdispatch, clock, job>>

Spec == Init /\ [][Next]_all

Sym == Permutations(Session) \cup Permutations(Occurrence) \cup Permutations(Student)

\* Bound: the route Elsewhere is decided and prepared for, but nothing becomes
\* of it.
OnePageChanges ==
  component = "recovery" =>
    /\ place'[Elsewhere] = "none" /\ page'[Elsewhere] = "empty" /\ Elsewhere \in issued'
    /\ \A s \in Session : job'[s].route = Elsewhere => pc'[s] \in {"idle", "decide", "dispatch"}

-----------------------------------------------------------------------------
(* Properties: each of its component, as the component's module states it *)

\* Every component's type invariant.
TypeOK == /\ component = "intake" => I!TypeOK
          /\ component = "recovery" => R!TypeOK
          /\ component = "postdispatch" => D!TypeOK
          /\ component = "plain" => P!TypeOK

\* An intake that ended lost no retained sheet, its status tells the truth, no
\* sheet is a failure and observed in one run, and what a dead intake left is
\* assembled later.
SheetsAccounted ==
  component = "intake" =>
    I!EverySheetAccounted /\ I!StatusIsTrue /\ I!FailedOrObserved /\ I!StrandedPagesJoin

\* What was recorded stands.  A completed recovery's page stays in a submission; a
\* failure stays known until a retry repaired it, and one recorded after a retry
\* began stays listed; a plain-paper creation that failed and names no manifest
\* left none, and a created pair of manifest and review is never taken apart.
WhatIsRecordedStands ==
  /\ component = "recovery" => R!ReceiptsStand
  /\ component = "postdispatch" => D!RetryRepaired /\ D!LaterFailureStaysOpen
  /\ component = "plain" => P!SilentMeansGone /\ P!CreatedStays

\* Decisions count in the order they were taken, a recovery never overrides a
\* teacher, and a compensation never loses what someone else wrote.
NothingIsOverridden ==
  [][/\ component = "recovery" => R!InOrder /\ R!Defers
     /\ component = "plain" => P!Keeps]_all
=============================================================================
