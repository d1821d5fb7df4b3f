-------------------------------- MODULE Reports --------------------------------
(***************************************************************************)
(* The five reports of an assignment: exported one by one, or together as  *)
(* a packet made from one snapshot (quillan/assignment_reporting_          *)
(* packet.py and _snapshot.py, the *_export.py modules).  The snapshot     *)
(* loads one student after another while reviews change; the files are     *)
(* replaced one after another, and what was written stays when a later one *)
(* fails.  One Focus Standard stands for all.                              *)
(***************************************************************************)
EXTENDS Naturals, Sequences, FiniteSets, ReviewState

CONSTANTS
  Reporter,  \* processes that export reports
  Roll,      \* the students, in the order they are discovered
  Record,    \* what a student's records may be: see Records
  MaxExports,\* bound on the exports begun
  MaxEdits   \* bound on the changes of a student's records

VARIABLES
  enrolled,  \* the rostered students
  available, \* whether the roster can be read
  record,    \* student -> the records
  edits,     \* changes made so far
  file,      \* report -> the export that wrote it, 0 if there is none
  exports,   \* exports begun so far
  stage, job,\* Reporter -> the next step of its export, and the export
  told,      \* history: export -> its answer and the paths it names
  replaced   \* history: <<report, export>> replaced by one that may overwrite

vars == <<enrolled, available, record, edits, file, exports, stage, job, told, replaced>>

Student == {Roll[i] : i \in DOMAIN Roll}
Export == 1 .. MaxExports

\* A submission and a review, each as load_student_record finds it; the state, the
\* outcome and the rating of a valid review.
Records ==
  [submission : {"none", "orphan", "invalid", "mismatch", "valid"},
   review : {"none", "invalid"} \cup State, returned : BOOLEAN, rated : BOOLEAN]

-----------------------------------------------------------------------------
(* The snapshot: what is said of one student *)

ReviewValid(r) == r.submission = "valid" /\ r.review \in State
IsReturned(r) == ReviewValid(r) /\ r.returned

\* load_student_record
Warnings(r) ==
  (IF r.submission \in {"none", "orphan"} THEN {"missing_submission"} ELSE {})
  \cup (IF r.submission = "orphan" THEN {"invalid_review", "orphan_review"} ELSE {})
  \cup (IF r.submission = "invalid" THEN {"invalid_submission"} ELSE {})
  \cup (IF r.submission = "mismatch" THEN {"identity_mismatch"} ELSE {})
  \cup (IF r.submission = "valid" /\ r.review = "invalid" THEN {"invalid_review"} ELSE {})
  \cup (IF r.submission = "valid" /\ r.review = "none" THEN {"missing_review"} ELSE {})

\* _requires_attention
Attention(r) ==
  Warnings(r) \cap {"invalid_submission", "invalid_review", "identity_mismatch", "orphan_review"} # {}

\* _reporting_student: ratings are those of a valid review.
Rating(r) == ReviewValid(r) /\ r.rated

IsReviewed(r) == ReviewValid(r) /\ ~r.returned /\ r.review \in RatedStates
IsInProgress(r) ==
  ReviewValid(r) /\ ~r.returned /\ r.review \notin RatedStates \cup {"not_started"}
IsNotReviewed(r) ==
  ~Attention(r) /\ ~IsReturned(r) /\ (~ReviewValid(r) \/ r.review = "not_started")

Count(snapshot, P(_)) == Cardinality({s \in DOMAIN snapshot : P(snapshot[s])})

\* _assignment_summary
AssignmentSummary(n) ==
  [expected |-> Cardinality(DOMAIN n), reviewed |-> Count(n, IsReviewed),
   in_progress |-> Count(n, IsInProgress), not_reviewed |-> Count(n, IsNotReviewed),
   returned |-> Count(n, IsReturned), attention |-> Count(n, Attention)]

\* Mutant: a returned student's rating counts.
StandardSummaryRatedFirst(n) ==
  [rated |-> Count(n, Rating), returned |-> Count(n, IsReturned),
   excluded |-> Count(n, Attention),
   unrated |-> Count(n, LAMBDA r : ~IsReturned(r) /\ ~Attention(r) /\ ~Rating(r))]

\* _standard_summary
StandardSummary(n) ==
  [rated |-> Count(n, LAMBDA r : ~IsReturned(r) /\ ~Attention(r) /\ Rating(r)),
   returned |-> Count(n, IsReturned),
   excluded |-> Count(n, LAMBDA r : ~IsReturned(r) /\ Attention(r)),
   unrated |-> Count(n, LAMBDA r : ~IsReturned(r) /\ ~Attention(r) /\ ~Rating(r))]

-----------------------------------------------------------------------------
(* What the reports show *)

\* student_performance_summary_export._review_status
PerformanceStatus(r) ==
  IF r.submission = "mismatch" THEN "Needs attention"
  ELSE IF r.submission = "invalid" THEN "Invalid submission"
  ELSE IF r.submission \in {"none", "orphan"} THEN "Not submitted"
  ELSE IF r.review = "invalid" THEN "Invalid review"
  ELSE IF IsReturned(r) THEN "Returned"
  ELSE IF r.review = "ready_for_export" THEN "Reviewed"
  ELSE "Not reviewed"

\* _student_row: a returned student has no rating.
PerformanceRated(r) == Rating(r) /\ ~r.returned

\* standards_summary_export._build_row
StandardsRow(n) ==
  [rated |-> Count(n, LAMBDA r : ReviewValid(r) /\ ~r.returned /\ r.rated),
   returned |-> Count(n, LAMBDA r : ReviewValid(r) /\ r.returned),
   missing |-> Count(n, LAMBDA r : ReviewValid(r) /\ ~r.returned /\ ~r.rated)]

\* class_summary_export._build_student_row
ClassRated(r) == Rating(r)

\* assignment_results_manifest_export._student_payload
ManifestRated(r) == Rating(r)

\* assignment_review_report_export._review_status: the state Returned alone is
\* shown as any other state is.
ReportStatus(r) ==
  IF Attention(r) THEN "Needs attention"
  ELSE IF IsReturned(r) THEN "Returned"
  ELSE IF ~ReviewValid(r) THEN "not_started"
  ELSE r.review

\* _student_ratings
ReportRated(r) == ~IsReturned(r) /\ Rating(r)

\* The order of a packet: the inventory of the manifest sees the others.
Reports == <<"performance", "class", "standards", "report", "manifest">>

-----------------------------------------------------------------------------
(* Exports *)

NoJob == [export |-> 0, reports |-> <<>>, overwrite |-> FALSE, loaded |-> <<>>,
          students |-> {}, done |-> 0, inventory |-> {}]
NotTold == [answer |-> "none", reports |-> <<>>, done |-> 0, inventory |-> {}]

ReportIn == {Reports[i] : i \in DOMAIN Reports}

Init ==
  /\ enrolled = Student /\ available = TRUE
  /\ record \in [Student -> Record] /\ edits = 0
  /\ file = [r \in ReportIn |-> 0] /\ exports = 0
  /\ stage = [e \in Reporter |-> "idle"] /\ job = [e \in Reporter |-> NoJob]
  /\ told = [x \in Export |-> NotTold] /\ replaced = {}

records == <<enrolled, available, record, edits>>
Go(e, to) == stage' = [stage EXCEPT ![e] = to]

Answer(e, answer) ==
  /\ Go(e, "idle") /\ job' = [job EXCEPT ![e] = NoJob]
  /\ told' = [told EXCEPT ![job[e].export] =
                [answer |-> answer, reports |-> job[e].reports, done |-> job[e].done,
                 inventory |-> job[e].inventory]]

\* discover_students: the rostered students, and those with submissions.
Discovered ==
  LET present == {s \in Student : record[s].submission # "none"} IN
  IF available THEN enrolled \cup present ELSE present

Begin(e, reports) ==
  /\ stage[e] = "idle" /\ exports < MaxExports
  /\ exports' = exports + 1 /\ Go(e, "load")
  /\ \E o \in BOOLEAN :
       job' = [job EXCEPT ![e] = [NoJob EXCEPT !.export = exports + 1, !.reports = reports,
                                               !.overwrite = o, !.students = Discovered]]
  /\ UNCHANGED <<records, file, told, replaced>>

ExportPacket(e) == Begin(e, Reports)
ExportPerformanceSummary(e) == Begin(e, <<"performance">>)
ExportClassSummary(e) == Begin(e, <<"class">>)
ExportStandardsSummary(e) == Begin(e, <<"standards">>)
ExportReviewReport(e) == Begin(e, <<"report">>)
ExportResultsManifest(e) == Begin(e, <<"manifest">>)

\* build_assignment_reporting_snapshot loads the next student.
LoadStudent(e, i) ==
  /\ stage[e] = "load" /\ Roll[i] \in job[e].students \ DOMAIN job[e].loaded
  /\ \A j \in 1 .. i - 1 : Roll[j] \in job[e].students => Roll[j] \in DOMAIN job[e].loaded
  /\ job' = [job EXCEPT ![e].loaded =
               [s \in DOMAIN @ \cup {Roll[i]} |-> IF s = Roll[i] THEN record[s] ELSE @[s]]]
  /\ UNCHANGED <<records, file, exports, stage, told, replaced>>

Targets(e) == {job[e].reports[i] : i \in DOMAIN job[e].reports}

\* The snapshot is complete; create-only, none of the files may be there.
CheckTargets(e) ==
  /\ stage[e] = "load" /\ job[e].students = DOMAIN job[e].loaded
  /\ job[e].overwrite \/ \A r \in Targets(e) : file[r] = 0
  /\ Go(e, "write")
  /\ UNCHANGED <<records, file, exports, job, told, replaced>>

\* Nothing could be read, or a file is there.
Refuse(e) ==
  /\ stage[e] = "load"
  /\ Answer(e, "refused")
  /\ UNCHANGED <<records, file, exports, replaced>>

Remaining(e) == job[e].done < Len(job[e].reports)
Target(e) == job[e].reports[job[e].done + 1]

\* Mutant: a file that came in since the targets were checked is replaced.
MayInstallAnyhow(e) == TRUE

\* _write_csv, _write_pdf, _write_json: replaced, or linked where there is none.
MayInstall(e) == job[e].overwrite \/ file[Target(e)] = 0

Install(e) ==
  /\ stage[e] = "write" /\ Remaining(e) /\ MayInstall(e)
  /\ file' = [file EXCEPT ![Target(e)] = job[e].export]
  /\ replaced' = IF job[e].overwrite THEN replaced \cup {<<Target(e), file[Target(e)]>>} ELSE replaced

\* The manifest lists the reports that are there, and itself.
Inventory(e) ==
  IF Target(e) = "manifest" THEN {r \in ReportIn : file[r] # 0} \cup {"manifest"}
  ELSE job[e].inventory

WriteReport(e) ==
  /\ Install(e)
  /\ job' = [job EXCEPT ![e].done = @ + 1, ![e].inventory = Inventory(e)]
  /\ UNCHANGED <<records, exports, stage, told>>

\* An error before the file is installed, or after: the temporary link stays.
WriteFails(e) ==
  /\ stage[e] = "write" /\ Remaining(e)
  /\ Install(e) \/ UNCHANGED <<file, replaced>>
  /\ Answer(e, "failed")
  /\ UNCHANGED <<records, exports>>

Exported(e) ==
  /\ stage[e] = "write" /\ ~Remaining(e)
  /\ Answer(e, "ok")
  /\ UNCHANGED <<records, file, exports, replaced>>

Die(e) ==
  /\ stage[e] # "idle" /\ Go(e, "idle") /\ job' = [job EXCEPT ![e] = NoJob]
  /\ UNCHANGED <<records, file, exports, told, replaced>>

-----------------------------------------------------------------------------
(* Other sessions *)

ChangeRecord(s) ==
  /\ edits < MaxEdits /\ edits' = edits + 1
  /\ \E r \in Record : record' = [record EXCEPT ![s] = r]
  /\ UNCHANGED <<enrolled, available, file, exports, stage, job, told, replaced>>

ChangeRoster ==
  /\ edits < MaxEdits /\ edits' = edits + 1
  /\ enrolled' \in SUBSET Student /\ available' \in BOOLEAN
  /\ UNCHANGED <<record, file, exports, stage, job, told, replaced>>

Next ==
  \/ ChangeRoster \/ \E s \in Student : ChangeRecord(s)
  \/ \E e \in Reporter :
       \/ ExportPacket(e) \/ ExportPerformanceSummary(e) \/ ExportClassSummary(e)
       \/ ExportStandardsSummary(e) \/ ExportReviewReport(e) \/ ExportResultsManifest(e)
       \/ \E i \in DOMAIN Roll : LoadStudent(e, i)
       \/ CheckTargets(e) \/ Refuse(e) \/ WriteReport(e) \/ WriteFails(e) \/ Exported(e)
       \/ Die(e)

Spec == Init /\ [][Next]_vars

-----------------------------------------------------------------------------
(* Properties *)

\* Type invariant.
TypeOK ==
  /\ enrolled \subseteq Student /\ available \in BOOLEAN
  /\ record \in [Student -> Records] /\ edits \in 0 .. MaxEdits
  /\ file \in [ReportIn -> 0 .. MaxExports] /\ exports \in 0 .. MaxExports
  /\ stage \in [Reporter -> {"idle", "load", "write"}]
  /\ \A e \in Reporter : DOMAIN job[e].loaded \subseteq job[e].students
  /\ \A x \in Export : told[x].answer \in {"none", "refused", "failed", "ok"}
  /\ replaced \subseteq ReportIn \X (0 .. MaxExports)

Snapshots == {job[e].loaded : e \in {f \in Reporter : stage[f] = "write"}}

\* However the records changed while they were read: in every snapshot each student
\* is counted once, by progress and for the standard, and the reports that show
\* ratings, one by one or as a count, show the same ones.
ReportsAgree ==
  \A n \in Snapshots :
    LET all == AssignmentSummary(n)
        one == StandardSummary(n)
        row == StandardsRow(n)
    IN /\ all.expected = all.reviewed + all.in_progress + all.not_reviewed + all.returned + all.attention
       /\ all.expected = one.rated + one.unrated + one.returned + one.excluded
       /\ one.rated = row.rated /\ one.returned = row.returned /\ row.missing <= one.unrated
       /\ one.rated = Count(n, PerformanceRated)
       /\ \A s \in DOMAIN n : /\ PerformanceRated(n[s]) = ReportRated(n[s])
                              /\ PerformanceRated(n[s]) => ClassRated(n[s])
                              /\ ClassRated(n[s]) = ManifestRated(n[s])
                              /\ (ReportStatus(n[s]) = "Returned") = (PerformanceStatus(n[s]) = "Returned")

\* The reports an export says it completed stay until one that may overwrite
\* replaces them, and where it failed no other report is its own but, at most, the
\* one at which it stopped.
CompletedStand ==
  \A x \in Export, i \in 1 .. Len(Reports) :
    LET t == told[x] IN
    /\ i <= t.done => file[t.reports[i]] = x \/ <<t.reports[i], x>> \in replaced
    /\ i \in DOMAIN t.reports /\ i > t.done + 1 => file[t.reports[i]] # x

\* The manifest of a complete packet lists the packet's reports as present.
PacketInventory ==
  \A x \in Export :
    told[x].answer = "ok" /\ told[x].reports = Reports => told[x].inventory = ReportIn
=============================================================================
