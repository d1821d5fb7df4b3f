----------------------------- MODULE ScanIntake -----------------------------
(***************************************************************************)
(* Returned paper on its way into the workspace: a folder of scans is      *)
(* retained, read and dispatched file by file (quillan/pds2_scan_intake),  *)
(* failures are kept for review (scan_review_preservation), and then the   *)
(* pages of the whole batch are observed, assembled and their failures     *)
(* kept (intake_assembly).  Any step may fail, and the process may die and *)
(* the folder be taken in again.                                           *)
(*                                                                         *)
(* Persisting one observation and assembling one submission are one step   *)
(* here: ObservationPersistence and Submission have the details.           *)
(***************************************************************************)
EXTENDS FiniteSetsExt, Sequences

CONSTANTS
  FileOf,     \* Sheet -> the file it was scanned into; sheets are numbered in file order
  StudentOf,  \* Sheet -> whose response page it is
  Kinds,      \* what may be on a sheet
  MaxRuns,    \* bound on intakes of the folder
  MaxFaults   \* bound on errors and deaths

Sheet == DOMAIN FileOf
File == 1 .. Max({FileOf[s] : s \in Sheet})
Of(f) == {s \in Sheet : FileOf[s] = f}
\* What may fail: one sheet, a file as a whole, or a student's submission.
Page(s) == <<"sheet", s>>
Whole(f) == <<"file", f>>
Submission(a) == <<"student", a>>

VARIABLES
  paper,       \* Sheet -> Kinds
  retained,    \* durable: <<run, file>> of the retained scans
  records,     \* durable: routing failure records
  observed,    \* durable: <<run, sheet>> with an observation
  submitted,   \* durable: <<run, sheet>> in the student's submission
  occurrences, \* durable: <<run, sheet or student>> post-dispatch occurrences
  run, at, file,  \* the intake's number, step and file
  todo,        \* what the step has still to handle
  source,      \* File -> how its scan went
  terminal,    \* Sheet -> terminal outcome of this run
  failing,     \* sheets and students that failed after dispatch
  reported,    \* what the result names as not preserved
  faults

durable == <<retained, records, observed, submitted, occurrences>>
memory == <<todo, source, terminal, failing, reported>>
vars == <<paper, durable, run, at, file, memory, faults>>

Waiting == [f \in File |-> "waiting"]
Unread == [s \in Sheet |-> "unread"]

Init ==
  /\ paper \in [Sheet -> Kinds]
  /\ retained = {} /\ records = {} /\ observed = {} /\ submitted = {} /\ occurrences = {}
  /\ run = 0 /\ at = "idle" /\ file = 1 /\ faults = 0
  /\ todo = {} /\ source = Waiting /\ terminal = Unread /\ failing = {} /\ reported = {}

Fault == faults < MaxFaults /\ faults' = faults + 1

-----------------------------------------------------------------------------
(* One file: retain, read, dispatch *)

Begin ==
  /\ at \in {"idle", "dead"} /\ run < MaxRuns
  /\ run' = run + 1 /\ at' = "retain" /\ file' = 1
  /\ todo' = {} /\ source' = Waiting /\ terminal' = Unread /\ failing' = {} /\ reported' = {}
  /\ UNCHANGED <<paper, durable, faults>>

\* After the last file its successes are observed; another module's are not.
Ours == {s \in Sheet : terminal[s] = "success" /\ paper[s] = "answer"}
Pages(S) == {Page(s) : s \in S}

\* Mutant: the step past the last file.
NextFileOnly == at' = "retain" /\ file' = file + 1 /\ todo' = {}

NextFile == IF file + 1 \in File THEN at' = "retain" /\ file' = file + 1 /\ todo' = {}
                                 ELSE at' = "observe" /\ todo' = Pages(Ours) /\ UNCHANGED file

\* Preflight and retention: a file that is not retained is only reported.
Retain ==
  /\ at = "retain"
  /\ \/ /\ retained' = retained \cup {<<run, file>>} /\ at' = "read"
        /\ UNCHANGED <<file, todo, source, faults>>
     \/ Fault /\ source' = [source EXCEPT ![file] = "unretained"] /\ NextFile /\ UNCHANGED retained
  /\ UNCHANGED <<paper, records, observed, submitted, occurrences, run, terminal, failing, reported>>

\* What a file leaves for review: itself, or its sheets that did not succeed.
Left(f, outcome) == Pages({s \in Of(f) : outcome[s] # "success"})

\* The pages cannot be counted, or dispatching breaks off as a whole.
SourceFails ==
  /\ at = "read" /\ Fault
  /\ source' = [source EXCEPT ![file] = "failed"] /\ at' = "preserve" /\ todo' = {Whole(file)}
  /\ terminal' = [s \in Sheet |-> IF s \in Of(file) THEN "unread" ELSE terminal[s]]
  /\ UNCHANGED <<paper, durable, run, file, failing, reported>>

ToRead == {s \in Of(file) : terminal[s] = "unread"}

\* What loading, QR detection and strict parsing make of one sheet.
ReadAs(s) == CASE paper[s] = "blank" -> "payload_missing"
               [] paper[s] \in {"garbled", "misnamed"} -> "payload_parsing"
               [] OTHER -> "planned"

ReadPage ==
  /\ at = "read" /\ ToRead # {}
  /\ LET s == Min(ToRead) IN
       \/ terminal' = [terminal EXCEPT ![s] = ReadAs(s)] /\ UNCHANGED faults
       \/ Fault /\ \E t \in {"source_page_loading", "payload_unreadable"} :
                     terminal' = [terminal EXCEPT ![s] = t]
  /\ UNCHANGED <<paper, durable, run, at, file, todo, source, failing, reported>>

Planned == {s \in Of(file) : terminal[s] = "planned"}
Outcome(s) == IF paper[s] \in {"answer", "foreign"} THEN "success" ELSE "core_failure"

\* Core dispatches the planned sheets as one batch.  It may raise or answer
\* out of line, which fails every plan; one outcome may contradict its plan.
Dispatch ==
  /\ at = "read" /\ ToRead = {}
  /\ \E broken \in SUBSET Planned :
       /\ \/ broken = {} /\ UNCHANGED faults
          \/ broken # {} /\ (broken = Planned \/ Cardinality(broken) = 1) /\ Fault
       /\ terminal' = [s \in Sheet |-> CASE s \in broken -> "integration_failure"
                                         [] s \in Planned \ broken -> Outcome(s)
                                         [] OTHER -> terminal[s]]
  /\ source' = [source EXCEPT ![file] = "read"] /\ at' = "preserve" /\ todo' = Left(file, terminal')
  /\ UNCHANGED <<paper, durable, run, file, failing, reported>>

-----------------------------------------------------------------------------
(* Failure records *)

\* Strict parsing failures are told apart by their cause.
Category(item) ==
  IF item[1] = "file" THEN "source_unreadable"
  ELSE LET s == item[2] IN
       CASE terminal[s] = "payload_parsing" ->
              IF paper[s] = "misnamed" THEN "identifier_invalid" ELSE "payload_invalid"
         [] terminal[s] \in {"integration_failure", "core_failure"} -> "processing_error"
         [] terminal[s] = "source_page_loading" -> "source_unreadable"
         [] OTHER -> terminal[s]

\* A record of a dispatched sheet carries its locator, which names the module.
Module(item) ==
  IF item[1] = "sheet" /\ terminal[item[2]] \in {"integration_failure", "core_failure"}
  THEN IF paper[item[2]] = "foreign" THEN "other" ELSE "quillan"
  ELSE "none"
Record(item) == [run |-> run, item |-> item, category |-> Category(item), module |-> Module(item)]

\* One record is written and read back; an error before or after the file is
\* there is part of the result.
Preserve(item) ==
  \/ records' = records \cup {Record(item)} /\ UNCHANGED <<reported, faults>>
  \/ /\ Fault /\ reported' = reported \cup {item}
     /\ records' \in {records, records \cup {Record(item)}}

PreserveFailures ==
  /\ at = "preserve"
  /\ IF todo = {} THEN NextFile /\ UNCHANGED <<records, reported, faults>>
     ELSE \E item \in todo : Preserve(item) /\ todo' = todo \ {item} /\ UNCHANGED <<at, file>>
  /\ UNCHANGED <<paper, retained, observed, submitted, occurrences, run, source, terminal, failing>>

\* The failure records scan review lists: exact markers, or a Quillan route.
Markers == {"source_unreadable", "payload_missing", "payload_unreadable", "payload_invalid"}
Listed ==
  {r \in records : r.module = "quillan" \/ (r.module = "none" /\ r.category \in Markers)}

-----------------------------------------------------------------------------
(* The batch: observe, assemble, keep what failed *)

\* Who has an observation of this run that was persisted.
Persisted == {StudentOf[s] : s \in {t \in Ours : Page(t) \notin failing}}

\* An error may leave the observation behind.
Observe ==
  /\ at = "observe"
  /\ IF todo = {} THEN at' = "assemble" /\ todo' = {Submission(a) : a \in Persisted} /\ UNCHANGED <<observed, failing, faults>>
     ELSE \E s \in {p[2] : p \in todo} :
            /\ todo' = todo \ {Page(s)} /\ UNCHANGED at
            /\ \/ observed' = observed \cup {<<run, s>>} /\ UNCHANGED <<failing, faults>>
               \/ /\ Fault /\ failing' = failing \cup {Page(s)}
                  /\ observed' \in {observed, observed \cup {<<run, s>>}}
  /\ UNCHANGED <<paper, retained, records, submitted, occurrences, run, file, source, terminal, reported>>

\* Mutant: only this run's observations are assembled.
StoredThisRun(a) == {o \in observed : StudentOf[o[2]] = a /\ o[1] = run}

\* A student's submission takes every stored observation, of any run.
Stored(a) == {o \in observed : StudentOf[o[2]] = a}

Assemble ==
  /\ at = "assemble"
  /\ IF todo = {} THEN /\ at' = "occurrences" /\ todo' = failing
                       /\ UNCHANGED <<submitted, failing, faults>>
     ELSE \E a \in {x[2] : x \in todo} :
            /\ todo' = todo \ {Submission(a)} /\ UNCHANGED at
            /\ \/ submitted' = submitted \cup Stored(a) /\ UNCHANGED <<failing, faults>>
               \/ /\ Fault /\ failing' = failing \cup {Submission(a)}
                  /\ submitted' \in {submitted, submitted \cup Stored(a)}
  /\ UNCHANGED <<paper, retained, records, observed, occurrences, run, file, source, terminal, reported>>

KeepOccurrences ==
  /\ at = "occurrences"
  /\ IF todo = {} THEN at' = "done" /\ UNCHANGED <<todo, occurrences, reported, faults>>
     ELSE \E x \in todo :
            /\ todo' = todo \ {x} /\ UNCHANGED at
            /\ \/ occurrences' = occurrences \cup {<<run, x>>} /\ UNCHANGED <<reported, faults>>
               \/ /\ Fault /\ reported' = reported \cup {x}
                  /\ occurrences' \in {occurrences, occurrences \cup {<<run, x>>}}
  /\ UNCHANGED <<paper, retained, records, observed, submitted, run, file, source, terminal, failing>>

\* The process dies; what is durable stays.
Die ==
  /\ at \notin {"idle", "done", "dead"} /\ Fault
  /\ at' = "dead"
  /\ UNCHANGED <<paper, durable, run, file, memory>>

Next == \/ Begin \/ Retain \/ SourceFails \/ ReadPage \/ Dispatch \/ PreserveFailures
        \/ Observe \/ Assemble \/ KeepOccurrences \/ Die

Spec == Init /\ [][Next]_vars

-----------------------------------------------------------------------------
(* The result *)

\* complete_success of the whole workflow.
Complete == /\ \A s \in Sheet : terminal[s] = "success"
            /\ failing = {} /\ reported = {}

\* overall_status: a batch in which nothing was dispatched failed completely.
Status == IF Complete THEN "complete_success"
          ELSE IF \E s \in Sheet : terminal[s] = "success" THEN "partial_failure"
          ELSE "complete_failure"

-----------------------------------------------------------------------------
(* Properties *)

\* Type invariant.
TypeOK ==
  /\ paper \in [Sheet -> Kinds] /\ run \in 0 .. MaxRuns /\ file \in File /\ faults \in 0 .. MaxFaults
  /\ at \in {"idle", "retain", "read", "preserve", "observe", "assemble", "occurrences", "done", "dead"}
  /\ retained \subseteq (1 .. MaxRuns) \X File
  /\ observed \subseteq (1 .. MaxRuns) \X Sheet /\ submitted \subseteq observed
  /\ \A f \in File : source[f] \in {"waiting", "unretained", "failed", "read"}

Handed(s) == paper[s] = "foreign" /\ terminal[s] = "success"
InSubmission(s) == <<run, s>> \in submitted
Kept(x) == \/ x \in reported
           \/ <<run, x>> \in occurrences
           \/ \E r \in records : r.run = run /\ r.item = x

\* When an intake ends, every sheet that was retained is in its student's
\* submission, was handed to another module, or its failure (or its file's,
\* or its student's) is on record or named by the result.
EverySheetAccounted ==
  at = "done" =>
    \A s \in Sheet :
      \/ source[FileOf[s]] = "unretained"
      \/ Handed(s) \/ InSubmission(s)
      \/ Kept(Page(s)) \/ Kept(Whole(FileOf[s])) \/ Kept(Submission(StudentOf[s]))

\* The overall status tells the truth: complete success means every sheet is
\* where it belongs, and after a complete failure no sheet of this run is in
\* a submission.
StatusIsTrue ==
  at = "done" =>
    /\ Status = "complete_success" => \A s \in Sheet : Handed(s) \/ InSubmission(s)
    /\ Status = "complete_failure" => \A s \in Sheet : ~ InSubmission(s)

\* Observations that a dead intake left behind are assembled with the first
\* later intake that assembles their student.
StrandedPagesJoin ==
  at = "done" =>
    \A o \in observed : /\ StudentOf[o[2]] \in Persisted
                     /\ Submission(StudentOf[o[2]]) \notin failing => o \in submitted

\* No sheet is on both ways: one with a routing failure record is never
\* observed in the same run, whatever failed in its batch.
FailedOrObserved ==
  \A r \in records : r.item[1] = "sheet" => <<r.run, r.item[2]>> \notin observed

\* docs/cli_contract.md: "`quillan list-scan-review` lists valid unresolved
\* and deferred Quillan routing review records": every failure record of a
\* sheet that names no other module is listed.
EveryFailureIsListed == \A r \in records : r.module # "other" => r \in Listed

=============================================================================
