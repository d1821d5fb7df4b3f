----------------------------- MODULE ScanProofs -----------------------------
(***************************************************************************)
(* Theorems about the four components of MCScan, for any number of         *)
(* sessions, routes, decisions, occurrences, students, runs and faults: no *)
(* sheet is lost, what was recorded stands, and nothing overrides what was *)
(* decided or written by someone else.                                     *)
(***************************************************************************)
EXTENDS MCScan, SequenceTheorems, FiniteSetTheorems, TLAPS

(***************************************************************************)
(* The intake.                                                             *)
(***************************************************************************)
LEMMA IntakeAssumption ==
  /\ MaxRuns \in Nat /\ MaxFaults \in Nat
  /\ \E n \in Nat \ {0} : I!File = 1 .. n
  /\ \A s \in I!Sheet : FileOf[s] \in I!File
  /\ \A S \in SUBSET I!Sheet : S # {} => I!Min(S) \in S
<1>1. /\ I!Sheet = {1, 2, 3} /\ FileOf[1] = 1 /\ FileOf[2] = 1 /\ FileOf[3] = 2
  BY DEF I!Sheet, FileOf
<1>2. I!File = 1 .. 2
  <2>1. {FileOf[s] : s \in I!Sheet} = {1, 2}
    BY <1>1
  <2>2. I!Max({1, 2}) = 2
    <3>1. 2 \in {1, 2} /\ \A y \in {1, 2} : 2 >= y
      OBVIOUS
    <3>2. \A x \in {1, 2} : (\A y \in {1, 2} : x >= y) => x = 2
      OBVIOUS
    <3> QED
      BY <3>1, <3>2 DEF I!Max
  <2> QED
    BY <2>1, <2>2 DEF I!File
<1>3. ASSUME NEW S \in SUBSET I!Sheet, S # {} PROVE I!Min(S) \in S
  <2>1. \E x \in S : \A y \in S : x =< y
    <3>1. CASE 1 \in S
      BY <1>1, <3>1
    <3>2. CASE 1 \notin S /\ 2 \in S
      <4>1. \A y \in S : y = 2 \/ y = 3
        BY <1>1, <3>2
      <4>2. \A y \in S : 2 =< y
        BY <4>1
      <4> QED
        BY <3>2, <4>2
    <3>3. CASE 1 \notin S /\ 2 \notin S
      <4>1. S = {3}
        BY <1>1, <1>3, <3>3
      <4> QED
        BY <4>1
    <3> QED
      BY <3>1, <3>2, <3>3
  <2> QED
    BY <2>1 DEF I!Min
<1>4. 2 \in Nat \ {0} /\ 1 \in 1 .. 2 /\ 2 \in 1 .. 2
  OBVIOUS
<1> QED
  BY <1>1, <1>2, <1>3, <1>4, MCScanAssumption

Reading == {"retain", "read", "preserve"}
Batch == {"observe", "assemble", "occurrences", "done"}

Typed ==
  /\ I!TypeOK
  /\ DOMAIN terminal = I!Sheet /\ DOMAIN source = I!File
  /\ at # "idle" => run \in 1 .. MaxRuns
  /\ observed \subseteq (1 .. run) \X I!Sheet

\* What a step has still to do is about its file, its pages or its students.
Todo ==
  /\ at \in {"retain", "read"} => todo = {}
  /\ at = "preserve" => todo \subseteq {I!Whole(file)} \cup I!Left(file, terminal)
  /\ at = "observe" => todo \subseteq I!Pages(I!Ours)
  /\ at = "assemble" => todo \subseteq {I!Submission(a) : a \in I!Persisted}
  /\ at = "occurrences" => todo \subseteq failing

\* Only answers and other modules' pages are dispatched successfully.
Successes == \A s \in I!Sheet : terminal[s] = "success" => paper[s] \in {"answer", "foreign"}

\* This run has observed only what it read and dispatched before.
Observed ==
  /\ at \in Reading => failing = {}
  /\ \A s \in I!Sheet : <<run, s>> \in observed => at \notin Reading /\ s \in I!Ours

\* A record about a sheet speaks of one that was not dispatched successfully.
Recorded(r) ==
  /\ r.run \in 1 .. run
  /\ r.item[1] = "sheet" =>
       /\ r.item[2] \in I!Sheet /\ <<r.run, r.item[2]>> \notin observed
       /\ r.run = run =>
            /\ terminal[r.item[2]] # "success"
            /\ at \in {"retain", "read"} => FileOf[r.item[2]] < file
            /\ at = "preserve" => FileOf[r.item[2]] <= file

\* A sheet of a file that is done with went well, or is known not to have.
Settled(s) ==
  \/ source[FileOf[s]] = "unretained" \/ terminal[s] = "success"
  \/ I!Kept(I!Page(s)) \/ I!Kept(I!Whole(FileOf[s]))

Accounted(s) ==
  /\ at \in Reading /\ FileOf[s] < file => Settled(s)
  /\ at = "preserve" /\ FileOf[s] = file => Settled(s) \/ I!Page(s) \in todo \/ I!Whole(file) \in todo
  /\ at \in Batch => Settled(s)

\* The batch observes all its pages, assembles all their students and keeps all
\* that failed.
Staged ==
  /\ at = "observe" =>
       \A s \in I!Ours : I!Page(s) \in todo \cup failing \/ <<run, s>> \in observed
  /\ at \in {"assemble", "occurrences", "done"} =>
       \A s \in I!Ours : I!Page(s) \in failing \/ <<run, s>> \in observed
  /\ at = "assemble" =>
       \A a \in I!Persisted : I!Submission(a) \in todo \cup failing \/ I!Stored(a) \subseteq submitted
  /\ at \in {"occurrences", "done"} =>
       \A a \in I!Persisted : I!Submission(a) \in failing \/ I!Stored(a) \subseteq submitted
  /\ at = "occurrences" => \A x \in failing : x \in todo \/ I!Kept(x)
  /\ at = "done" => \A x \in failing : I!Kept(x)

IntakeInv ==
  /\ Typed /\ Todo /\ Successes /\ Observed
  /\ \A r \in records : Recorded(r)
  /\ \A s \in I!Sheet : Accounted(s)
  /\ Staged

LEMMA Files ==
  /\ 1 \in I!File /\ I!File \subseteq Nat \ {0}
  /\ \A s \in I!Sheet : FileOf[s] \in I!File
  /\ \A f, g \in I!File : g <= f \/ (g > f /\ f + 1 \in I!File)
<1>1. PICK n \in Nat \ {0} : I!File = 1 .. n
  BY IntakeAssumption
<1> QED
  BY <1>1, IntakeAssumption

LEMMA IntakeStart ==
  ASSUME I!Init
  PROVE  IntakeInv
<1>1. I!TypeOK /\ Typed
  BY Files, IntakeAssumption DEF I!Init, I!TypeOK, Typed, I!Waiting, I!Unread
<1>2. Successes
  BY DEF I!Init, Successes, I!Unread
<1> QED
  BY <1>1, <1>2 DEF I!Init, IntakeInv, Todo, Observed, Accounted, Staged, Reading, Batch

(* Pages, files and students are told apart.                               *)
LEMMA Apart ==
  /\ \A s, t, f, a : /\ I!Page(s) # I!Whole(f) /\ I!Page(s) # I!Submission(a) /\ I!Whole(f) # I!Submission(a)
                     /\ I!Page(s) = I!Page(t) => s = t
  /\ \A s : I!Page(s)[1] = "sheet" /\ I!Page(s)[2] = s
  /\ \A f : I!Whole(f)[1] = "file" /\ \A a : I!Submission(a)[1] = "student" /\ I!Submission(a)[2] = a
  /\ \A a, b : I!Submission(a) = I!Submission(b) => a = b
BY DEF I!Page, I!Whole, I!Submission

(* A new intake of the folder.                                             *)
LEMMA BeginKeeps ==
  ASSUME IntakeInv, I!Begin
  PROVE  IntakeInv'
<1>1. /\ run' = run + 1 /\ at' = "retain" /\ file' = 1 /\ run \in 0 .. MaxRuns /\ run < MaxRuns
      /\ todo' = {} /\ source' = I!Waiting /\ terminal' = I!Unread /\ failing' = {} /\ reported' = {}
      /\ UNCHANGED <<paper, retained, records, observed, submitted, occurrences, faults>>
  BY DEF I!Begin, I!durable, IntakeInv, Typed, I!TypeOK
<1>2. run \in Nat /\ run' \in 1 .. MaxRuns /\ 1 .. run \subseteq 1 .. run'
  BY <1>1, IntakeAssumption
<1>3. Typed'
  <2>1. I!TypeOK'
    BY <1>1, <1>2, Files DEF IntakeInv, Typed, I!TypeOK, I!Waiting
  <2> QED
    BY <1>1, <1>2, <2>1 DEF IntakeInv, Typed, I!Waiting, I!Unread
<1>4. \A s : <<run', s>> \notin observed
  BY <1>1, <1>2 DEF IntakeInv, Typed
<1>5. Observed'
  BY <1>1, <1>4 DEF Observed
<1>6. ASSUME NEW r \in records PROVE Recorded(r)'
  <2>1. Recorded(r)
    BY DEF IntakeInv
  <2>2. r.run \in 1 .. run' /\ r.run # run'
    BY <1>1, <1>2, <2>1 DEF Recorded
  <2> QED
    BY <1>1, <2>1, <2>2 DEF Recorded
<1>7. ASSUME NEW s \in I!Sheet PROVE Accounted(s)'
  <2>1. FileOf[s] \in Nat \ {0}
    BY Files
  <2>2. ~ (FileOf[s] < file') /\ at' = "retain"
    BY <1>1, <2>1
  <2> QED
    BY <2>2 DEF Accounted, Batch
<1>8. Successes' /\ Staged' /\ Todo'
  BY <1>1 DEF Successes, I!Unread, Staged, Todo
<1> QED
  BY <1>1, <1>3, <1>5, <1>6, <1>7, <1>8 DEF IntakeInv

(* What is known of a sheet stays known in its run.                        *)
LEMMA KeptStays ==
  ASSUME run' = run, reported \subseteq reported', records \subseteq records',
         occurrences \subseteq occurrences', NEW x, I!Kept(x)
  PROVE  I!Kept(x)'
BY DEF I!Kept

(* Going on to the next file, or to the batch.                             *)
LEMMA NextFileKeeps ==
  ASSUME IntakeInv, I!NextFile, at \in Reading,
         UNCHANGED <<paper, I!durable, run, terminal, failing, reported>>,
         faults' \in 0 .. MaxFaults,
         DOMAIN source' = I!File,
         \A f \in I!File : source'[f] \in {"waiting", "unretained", "failed", "read"},
         \A f \in I!File : f # file => source'[f] = source[f],
         \A s \in I!Sheet : FileOf[s] = file => Settled(s)'
  PROVE  IntakeInv'
<1>1. /\ file \in I!File /\ file' \in I!File /\ file \in Nat /\ file' \in Nat
      /\ UNCHANGED <<retained, records, observed, submitted, occurrences>>
      /\ \/ at' = "retain" /\ file' = file + 1 /\ todo' = {}
         \/ at' = "observe" /\ todo' = I!Pages(I!Ours) /\ file' = file /\ \A f \in I!File : f <= file
  BY Files DEF I!NextFile, IntakeInv, Typed, I!TypeOK, I!durable
<1>2. I!Ours' = I!Ours /\ I!Pages(I!Ours)' = I!Pages(I!Ours)
  BY DEF I!Ours, I!Pages
<1>3. ASSUME NEW s \in I!Sheet, FileOf[s] <= file PROVE Settled(s)'
  <2>1. FileOf[s] \in I!File /\ FileOf[s] \in Nat
    BY Files
  <2>2. CASE FileOf[s] = file
    BY <2>2
  <2>3. CASE FileOf[s] < file
    <3>1. Settled(s)
      BY <2>3 DEF IntakeInv, Accounted
    <3>2. \A x : I!Kept(x) => I!Kept(x)'
      BY <1>1 DEF I!Kept
    <3> QED
      BY <2>1, <2>3, <3>1, <3>2, <1>1 DEF Settled
  <2> QED
    BY <1>1, <1>3, <2>1, <2>2, <2>3
<1>4. Typed'
  BY <1>1, <1>2 DEF IntakeInv, Typed, I!TypeOK, Reading
<1>5. Todo' /\ Successes'
  BY <1>1, <1>2 DEF IntakeInv, Todo, Successes
<1>6. Observed' /\ failing = {}
  BY <1>1, <1>2 DEF IntakeInv, Observed
<1>7. ASSUME NEW r \in records PROVE Recorded(r)'
  <2>1. Recorded(r)
    BY DEF IntakeInv
  <2>2. ASSUME r.item[1] = "sheet", r.run = run
        PROVE  FileOf[r.item[2]] <= file /\ FileOf[r.item[2]] \in Nat
    <3>1. r.item[2] \in I!Sheet
      BY <2>1, <2>2 DEF Recorded
    <3>2. FileOf[r.item[2]] \in Nat
      BY <3>1, Files
    <3>3. FileOf[r.item[2]] < file \/ (at = "preserve" /\ FileOf[r.item[2]] <= file)
      BY <2>1, <2>2 DEF Recorded, Reading
    <3> QED
      BY <1>1, <3>2, <3>3
  <2> QED
    BY <1>1, <2>1, <2>2 DEF Recorded
<1>8. ASSUME NEW s \in I!Sheet PROVE Accounted(s)'
  <2>1. FileOf[s] \in I!File /\ FileOf[s] \in Nat
    BY Files
  <2> QED
    BY <1>1, <1>3, <2>1 DEF Accounted, Reading, Batch
<1>9. Staged'
  BY <1>1, <1>2, <1>6 DEF Staged, I!Pages
<1> QED
  BY <1>1, <1>4, <1>5, <1>6, <1>7, <1>8, <1>9 DEF IntakeInv

(* A file is retained, or reported as not retained.                        *)
LEMMA RetainKeeps ==
  ASSUME IntakeInv, I!Retain
  PROVE  IntakeInv'
<1>1. /\ at = "retain"
      /\ UNCHANGED <<paper, records, observed, submitted, occurrences, run, terminal, failing, reported>>
  BY DEF I!Retain
<1>2. CASE /\ retained' = retained \cup {<<run, file>>} /\ at' = "read"
           /\ UNCHANGED <<file, todo, source, faults>>
  <2>1. I!Ours' = I!Ours /\ run \in 1 .. MaxRuns /\ file \in I!File
    BY <1>1 DEF I!Ours, IntakeInv, Typed, I!TypeOK
  <2>2. Typed'
    BY <1>1, <1>2, <2>1 DEF IntakeInv, Typed, I!TypeOK
  <2>3. Todo' /\ Successes' /\ Observed' /\ Staged'
    BY <1>1, <1>2, <2>1 DEF IntakeInv, Todo, Successes, Observed, Staged, Reading
  <2>4. ASSUME NEW r \in records PROVE Recorded(r)'
    BY <1>1, <1>2 DEF IntakeInv, Recorded
  <2>5. ASSUME NEW s \in I!Sheet PROVE Accounted(s)'
    <3>1. Settled(s) => Settled(s)'
      BY <1>1, <1>2 DEF Settled, I!Kept
    <3> QED
      BY <1>1, <1>2, <3>1 DEF IntakeInv, Accounted, Reading, Batch
  <2> QED
    BY <1>1, <2>2, <2>3, <2>4, <2>5 DEF IntakeInv
<1>3. CASE I!Fault /\ source' = [source EXCEPT ![file] = "unretained"] /\ I!NextFile /\ UNCHANGED retained
  <2>1. faults' \in 0 .. MaxFaults
    BY <1>3, IntakeAssumption DEF I!Fault, IntakeInv, Typed, I!TypeOK
  <2>2. /\ DOMAIN source' = I!File
        /\ \A f \in I!File : source'[f] \in {"waiting", "unretained", "failed", "read"}
        /\ \A f \in I!File : f # file => source'[f] = source[f]
        /\ source'[file] = "unretained"
    BY <1>3 DEF IntakeInv, Typed, I!TypeOK
  <2>3. \A s \in I!Sheet : FileOf[s] = file => Settled(s)'
    BY <2>2 DEF Settled
  <2> QED
    BY <1>1, <1>3, <2>1, <2>2, <2>3, NextFileKeeps DEF I!durable, Reading
<1> QED
  BY <1>2, <1>3 DEF I!Retain

(* What a step does to one file's sheets while it is read.                 *)
LEMMA ReadKeeps ==
  ASSUME IntakeInv, at = "read", at' \in {"read", "preserve"},
         UNCHANGED <<paper, I!durable, run, file, failing, reported>>,
         faults' \in 0 .. MaxFaults,
         DOMAIN source' = I!File,
         \A f \in I!File : source'[f] \in {"waiting", "unretained", "failed", "read"},
         \A f \in I!File : f # file => source'[f] = source[f],
         DOMAIN terminal' = I!Sheet,
         \A s \in I!Sheet : FileOf[s] # file => terminal'[s] = terminal[s],
         \A s \in I!Sheet : terminal'[s] = "success" => paper[s] \in {"answer", "foreign"},
         at' = "read" => todo' = {},
         at' = "preserve" =>
           todo' \in {{I!Whole(file)}, I!Left(file, terminal')}
  PROVE  IntakeInv'
<1>1. /\ file \in I!File /\ file \in Nat /\ run \in 1 .. MaxRuns
      /\ UNCHANGED <<retained, records, observed, submitted, occurrences>>
  BY Files DEF IntakeInv, Typed, I!TypeOK, I!durable
<1>2. Typed'
  BY <1>1 DEF IntakeInv, Typed, I!TypeOK
<1>3. Todo' /\ Successes'
  <2>1. I!Left(file, terminal)' = I!Left(file, terminal') /\ I!Whole(file)' = I!Whole(file)
    BY DEF I!Left, I!Pages, I!Whole
  <2> QED
    BY <2>1 DEF Todo, Successes
<1>4. Observed' /\ Staged'
  BY <1>1 DEF IntakeInv, Observed, Staged, Reading
<1>5. ASSUME NEW r \in records PROVE Recorded(r)'
  <2>1. Recorded(r)
    BY DEF IntakeInv
  <2>2. ASSUME r.item[1] = "sheet", r.run = run
        PROVE  FileOf[r.item[2]] # file /\ FileOf[r.item[2]] \in Nat /\ FileOf[r.item[2]] <= file
    <3>1. r.item[2] \in I!Sheet
      BY <2>1, <2>2 DEF Recorded
    <3>2. FileOf[r.item[2]] \in Nat
      BY <3>1, Files
    <3>3. FileOf[r.item[2]] < file \/ (at = "preserve" /\ FileOf[r.item[2]] <= file)
      BY <2>1, <2>2 DEF Recorded, Reading
    <3> QED
      BY <1>1, <3>2, <3>3
  <2> QED
    BY <1>1, <2>1, <2>2 DEF Recorded
<1>6. ASSUME NEW s \in I!Sheet PROVE Accounted(s)'
  <2>1. FileOf[s] \in I!File /\ FileOf[s] \in Nat
    BY Files
  <2>2. CASE FileOf[s] < file
    <3>1. Settled(s) /\ FileOf[s] # file
      BY <1>1, <2>1, <2>2 DEF IntakeInv, Accounted, Reading
    <3>2. \A x : I!Kept(x) => I!Kept(x)'
      BY <1>1 DEF I!Kept
    <3>3. Settled(s)'
      BY <2>1, <3>1, <3>2 DEF Settled
    <3> QED
      BY <3>3 DEF Accounted
  <2>3. CASE FileOf[s] = file
    <3>1. s \in I!Of(file) /\ (s \in I!Of(file) /\ terminal'[s] # "success" => I!Page(s) \in I!Left(file, terminal'))
      BY <2>3 DEF I!Of, I!Left, I!Pages
    <3>2. at' = "preserve" => Settled(s)' \/ I!Page(s) \in todo' \/ I!Whole(file) \in todo'
      BY <3>1 DEF Settled
    <3> QED
      BY <1>1, <2>1, <2>3, <3>2 DEF Accounted, Reading, Batch
  <2>4. CASE FileOf[s] > file
    BY <1>1, <2>1, <2>4 DEF Accounted, Batch
  <2> QED
    BY <1>1, <2>1, <2>2, <2>3, <2>4
<1> QED
  BY <1>1, <1>2, <1>3, <1>4, <1>5, <1>6 DEF IntakeInv

LEMMA ReadingKeeps ==
  ASSUME IntakeInv, I!SourceFails \/ I!ReadPage \/ I!Dispatch
  PROVE  IntakeInv'
<1>1. /\ file \in I!File /\ DOMAIN terminal = I!Sheet /\ DOMAIN source = I!File /\ at = "read"
      /\ \A f \in I!File : source[f] \in {"waiting", "unretained", "failed", "read"}
      /\ \A s \in I!Sheet : terminal[s] = "success" => paper[s] \in {"answer", "foreign"}
      /\ todo = {}
  BY DEF IntakeInv, Typed, I!TypeOK, Successes, Todo, I!SourceFails, I!ReadPage, I!Dispatch
<1>2. faults' \in 0 .. MaxFaults
  BY IntakeAssumption DEF I!SourceFails, I!ReadPage, I!Dispatch, I!Fault, IntakeInv, Typed, I!TypeOK
<1>3. CASE I!SourceFails
  BY <1>1, <1>2, <1>3, ReadKeeps DEF I!SourceFails, I!Of
<1>4. CASE I!ReadPage
  <2> DEFINE s == I!Min(I!ToRead)
  <2>1. s \in I!Sheet /\ FileOf[s] = file
    <3>1. I!ToRead \subseteq I!Sheet /\ I!ToRead # {}
      BY <1>4 DEF I!ReadPage, I!ToRead, I!Of
    <3>2. s \in I!ToRead
      BY <3>1, IntakeAssumption
    <3> QED
      BY <3>2 DEF I!ToRead, I!Of
  <2> HIDE DEF s
  <2>2. PICK t : t # "success" /\ terminal' = [terminal EXCEPT ![s] = t]
    BY <1>4 DEF I!ReadPage, I!ReadAs, s
  <2>3. /\ DOMAIN terminal' = I!Sheet
        /\ \A q \in I!Sheet : FileOf[q] # file => terminal'[q] = terminal[q]
        /\ \A q \in I!Sheet : terminal'[q] = "success" => paper[q] \in {"answer", "foreign"}
    BY <1>1, <2>1, <2>2
  <2> QED
    BY <1>1, <1>2, <1>4, <2>3, ReadKeeps DEF I!ReadPage
<1>5. CASE I!Dispatch
  <2>1. PICK failed \in SUBSET I!Planned :
          terminal' = [s \in I!Sheet |-> CASE s \in failed -> "integration_failure"
                                         [] s \in I!Planned \ failed -> I!Outcome(s)
                                         [] OTHER -> terminal[s]]
    BY <1>5 DEF I!Dispatch
  <2>2. /\ DOMAIN terminal' = I!Sheet
        /\ \A s \in I!Sheet : FileOf[s] # file => terminal'[s] = terminal[s]
        /\ \A s \in I!Sheet : terminal'[s] = "success" => paper[s] \in {"answer", "foreign"}
    BY <1>1, <2>1 DEF I!Planned, I!Of, I!Outcome
  <2> QED
    BY <1>1, <1>2, <1>5, <2>2, ReadKeeps DEF I!Dispatch
<1> QED
  BY <1>3, <1>4, <1>5

(* A failure record is written, or the result names what was not preserved. *)
LEMMA PreserveKeeps ==
  ASSUME IntakeInv, I!PreserveFailures
  PROVE  IntakeInv'
<1>1. /\ at = "preserve"
      /\ UNCHANGED <<paper, retained, observed, submitted, occurrences, run, source, terminal, failing>>
  BY DEF I!PreserveFailures
<1>2. CASE todo = {} /\ I!NextFile /\ UNCHANGED <<records, reported, faults>>
  <2>1. \A s \in I!Sheet : FileOf[s] = file => Settled(s)
    BY <1>1, <1>2 DEF IntakeInv, Accounted
  <2>2. \A s \in I!Sheet : Settled(s) => Settled(s)'
    BY <1>1, <1>2 DEF Settled, I!Kept
  <2> QED
    BY <1>1, <1>2, <2>1, <2>2, NextFileKeeps DEF I!durable, Reading, IntakeInv, Typed, I!TypeOK
<1>3. ASSUME NEW item \in todo, I!Preserve(item), todo' = todo \ {item}, UNCHANGED <<at, file>>
      PROVE  IntakeInv'
  <2>1. /\ records \subseteq records' /\ reported \subseteq reported'
        /\ \A r \in records' : r \in records \/ (r.run = run /\ r.item = item)
        /\ item \in reported' \/ \E r \in records' : r.run = run /\ r.item = item
        /\ faults' \in 0 .. MaxFaults
    <3>1. I!Record(item).run = run /\ I!Record(item).item = item
      BY DEF I!Record
    <3>2. faults \in 0 .. MaxFaults /\ faults' \in 0 .. MaxFaults
      BY <1>3, IntakeAssumption DEF I!Preserve, I!Fault, IntakeInv, Typed, I!TypeOK
    <3>3. \/ records' = records \cup {I!Record(item)} /\ reported' = reported
          \/ /\ reported' = reported \cup {item}
             /\ records' = records \/ records' = records \cup {I!Record(item)}
      BY <1>3 DEF I!Preserve
    <3> HIDE DEF I!Record
    <3> QED
      BY <3>1, <3>2, <3>3
  <2>2. /\ item = I!Whole(file) \/ \E s \in I!Sheet : FileOf[s] = file /\ terminal[s] # "success" /\ item = I!Page(s)
        /\ file \in Nat /\ run \in 1 .. MaxRuns /\ run \in 1 .. run
    BY <1>1, <1>3, Files DEF IntakeInv, Todo, I!Left, I!Pages, I!Of, Typed, I!TypeOK
  <2>3. Typed'
    BY <1>1, <1>3, <2>1 DEF IntakeInv, Typed, I!TypeOK
  <2>4. Todo' /\ Successes'
    <3>1. I!Left(file, terminal)' = I!Left(file, terminal) /\ I!Whole(file)' = I!Whole(file)
      BY <1>1, <1>3 DEF I!Left, I!Pages, I!Whole
    <3> QED
      BY <1>1, <1>3, <3>1 DEF IntakeInv, Todo, Successes
  <2>5. Observed' /\ Staged'
    BY <1>1, <1>3 DEF IntakeInv, Observed, Staged, Reading
  <2>6. ASSUME NEW r \in records' PROVE Recorded(r)'
    <3>1. CASE r \in records
      BY <1>1, <1>3, <3>1 DEF IntakeInv, Recorded
    <3>2. CASE r.run = run /\ r.item = item
      <4>1. CASE item = I!Whole(file)
        BY <1>1, <1>3, <2>2, <3>2, <4>1, Apart DEF Recorded
      <4>2. ASSUME NEW s \in I!Sheet, FileOf[s] = file, terminal[s] # "success", item = I!Page(s)
            PROVE  Recorded(r)'
        <5>1. <<run, s>> \notin observed
          BY <1>1, <4>2 DEF IntakeInv, Observed, Reading
        <5>2. r.item[2] = s /\ FileOf[s] <= file
          BY <2>2, <3>2, <4>2, Apart
        <5> QED
          BY <1>1, <1>3, <2>2, <3>2, <4>2, <5>1, <5>2 DEF Recorded
      <4> QED
        BY <2>2, <4>1, <4>2
    <3> QED
      BY <2>1, <3>1, <3>2
  <2>7. ASSUME NEW s \in I!Sheet PROVE Accounted(s)'
    <3>1. \A x : I!Kept(x) \/ x = item => I!Kept(x)'
      BY <1>1, <2>1 DEF I!Kept
    <3>2. Settled(s) => Settled(s)'
      BY <1>1, <3>1 DEF Settled
    <3>3. Accounted(s) /\ (I!Page(s) \in todo => I!Page(s) \in todo' \/ I!Kept(I!Page(s))')
          /\ (I!Whole(file) \in todo => I!Whole(file) \in todo' \/ I!Kept(I!Whole(file))')
      BY <1>3, <3>1 DEF IntakeInv
    <3>4. I!Kept(I!Page(s))' => Settled(s)'
      BY DEF Settled, I!Page
    <3>5. FileOf[s] = file /\ I!Kept(I!Whole(file))' => Settled(s)'
      BY <1>3 DEF Settled, I!Whole
    <3> QED
      BY <1>1, <1>3, <3>2, <3>3, <3>4, <3>5 DEF Accounted, Reading, Batch, I!Whole, I!Page
  <2> QED
    BY <2>3, <2>4, <2>5, <2>6, <2>7 DEF IntakeInv
<1> QED
  BY <1>2, <1>3 DEF I!PreserveFailures

(* The steps of the batch leave what was read and recorded alone.          *)
LEMMA BatchKeeps ==
  ASSUME IntakeInv, at \in Batch, at' \in Batch,
         UNCHANGED <<paper, retained, records, run, file, source, terminal>>,
         faults' \in 0 .. MaxFaults,
         observed \subseteq observed', submitted \subseteq submitted',
         occurrences \subseteq occurrences', reported \subseteq reported',
         \A o \in observed' : o \in observed \/ \E s \in I!Ours : o = <<run, s>>,
         submitted' \subseteq observed',
         Todo', Staged'
  PROVE  IntakeInv'
<1>1. /\ I!Ours' = I!Ours /\ run \in 1 .. MaxRuns /\ run \in 1 .. run
      /\ \A s : s \in I!Ours <=> s \in I!Sheet /\ terminal[s] = "success" /\ paper[s] = "answer"
  BY DEF I!Ours, Batch, IntakeInv, Typed, I!TypeOK
<1>2. Typed'
  <2>1. observed' \subseteq (1 .. run) \X I!Sheet /\ observed' \subseteq (1 .. MaxRuns) \X I!Sheet
    BY <1>1 DEF IntakeInv, Typed, I!TypeOK
  <2> QED
    BY <1>1, <2>1 DEF IntakeInv, Typed, I!TypeOK, Batch
<1>3. Successes' /\ Observed'
  <2>1. at \notin Reading /\ at' \notin Reading
    BY DEF Batch, Reading
  <2> QED
    BY <1>1, <2>1 DEF IntakeInv, Successes, Observed
<1>4. ASSUME NEW r \in records PROVE Recorded(r)'
  <2>1. Recorded(r)
    BY DEF IntakeInv
  <2>2. ASSUME r.item[1] = "sheet", <<r.run, r.item[2]>> \in observed' PROVE FALSE
    <3>1. PICK s \in I!Ours : <<r.run, r.item[2]>> = <<run, s>>
      BY <2>1, <2>2 DEF Recorded
    <3>2. r.run = run /\ r.item[2] = s
      BY <3>1
    <3> QED
      BY <1>1, <2>1, <2>2, <3>2 DEF Recorded
  <2> QED
    BY <2>1, <2>2 DEF Recorded, Batch
<1>5. ASSUME NEW s \in I!Sheet PROVE Accounted(s)'
  <2>1. Settled(s)
    BY DEF IntakeInv, Accounted
  <2>2. \A x : I!Kept(x) => I!Kept(x)'
    BY DEF I!Kept
  <2>3. Settled(s)'
    BY <2>1, <2>2 DEF Settled
  <2> QED
    BY <2>3 DEF Accounted
<1> QED
  BY <1>2, <1>3, <1>4, <1>5 DEF IntakeInv

(* What was observed, unless it failed, and whose students are assembled.  *)
LEMMA ObserveKeeps ==
  ASSUME IntakeInv, I!Observe
  PROVE  IntakeInv'
<1>1. /\ at = "observe" /\ at \in Batch
      /\ UNCHANGED <<paper, retained, records, submitted, occurrences, run, file, source, terminal, reported>>
      /\ submitted \subseteq observed
  BY DEF I!Observe, Batch, IntakeInv, Typed, I!TypeOK
<1>2. I!Ours' = I!Ours
  BY <1>1 DEF I!Ours
<1>3. CASE /\ todo = {} /\ at' = "assemble" /\ todo' = {I!Submission(a) : a \in I!Persisted}
           /\ UNCHANGED <<observed, failing, faults>>
  <2>1. I!Persisted' = I!Persisted /\ {I!Submission(a) : a \in I!Persisted}' = {I!Submission(a) : a \in I!Persisted}
    BY <1>1, <1>2, <1>3 DEF I!Persisted, I!Page, I!Submission
  <2>2. Todo'
    BY <1>3, <2>1 DEF Todo
  <2>3. \A s \in I!Ours : I!Page(s) \in failing \/ <<run, s>> \in observed
    BY <1>1, <1>3 DEF IntakeInv, Staged
  <2>4. \A a \in I!Persisted' : I!Submission(a)' \in todo'
    BY <1>3, <2>1
  <2>5. Staged'
    BY <1>1, <1>2, <1>3, <2>1, <2>3, <2>4 DEF Staged, I!Page, I!Submission
  <2> QED
    BY <1>1, <1>3, <2>2, <2>5, BatchKeeps DEF Batch, IntakeInv, Typed, I!TypeOK
<1>4. ASSUME NEW p \in todo, UNCHANGED at, todo' = todo \ {I!Page(p[2])},
             \/ observed' = observed \cup {<<run, p[2]>>} /\ UNCHANGED <<failing, faults>>
             \/ /\ I!Fault /\ failing' = failing \cup {I!Page(p[2])}
                /\ observed' \in {observed, observed \cup {<<run, p[2]>>}}
      PROVE  IntakeInv'
  <2>1. PICK s \in I!Ours : p = I!Page(s)
    BY <1>1, <1>4 DEF IntakeInv, Todo, I!Pages
  <2>2. p[2] = s
    BY <2>1, Apart
  <2>3. faults' \in 0 .. MaxFaults
    BY <1>4, IntakeAssumption DEF I!Fault, IntakeInv, Typed, I!TypeOK
  <2>4. Todo'
    <3>1. I!Pages(I!Ours)' = I!Pages(I!Ours)
      BY <1>2 DEF I!Pages, I!Page
    <3> QED
      BY <1>1, <1>4, <3>1 DEF IntakeInv, Todo
  <2>5. Staged'
    <3>1. \A t \in I!Ours : I!Page(t) \in todo' \cup failing' \/ <<run, t>> \in observed'
      BY <1>1, <1>4, <2>2, Apart DEF IntakeInv, Staged
    <3> QED
      BY <1>1, <1>2, <1>4, <3>1 DEF Staged, I!Page
  <2> QED
    BY <1>1, <1>4, <2>1, <2>2, <2>3, <2>4, <2>5, BatchKeeps
<1>5. ASSUME NEW s \in {p[2] : p \in todo} PROVE \E p \in todo : s = p[2]
  OBVIOUS
<1> QED
  BY <1>3, <1>4, <1>5 DEF I!Observe

(* What was assembled, unless it failed.                                   *)
LEMMA AssembleKeeps ==
  ASSUME IntakeInv, I!Assemble
  PROVE  IntakeInv'
<1>1. /\ at = "assemble" /\ at \in Batch
      /\ UNCHANGED <<paper, retained, records, observed, occurrences, run, file, source, terminal, reported>>
      /\ submitted \subseteq observed /\ \A a : I!Stored(a) \subseteq observed
  BY DEF I!Assemble, Batch, IntakeInv, Typed, I!TypeOK, I!Stored
<1>2. /\ I!Ours' = I!Ours /\ \A a : I!Stored(a)' = I!Stored(a)
  BY <1>1 DEF I!Ours, I!Stored
<1>3. CASE at' = "occurrences" /\ todo' = failing /\ todo = {} /\ UNCHANGED <<submitted, failing, faults>>
  <2>1. I!Persisted' = I!Persisted
    BY <1>1, <1>2, <1>3 DEF I!Persisted, I!Page
  <2>2. Todo'
    BY <1>3 DEF Todo
  <2>3. \A a \in I!Persisted : I!Submission(a) \in failing \/ I!Stored(a) \subseteq submitted
    BY <1>1, <1>3 DEF IntakeInv, Staged
  <2>4. \A s \in I!Ours : I!Page(s) \in failing \/ <<run, s>> \in observed
    BY <1>1 DEF IntakeInv, Staged
  <2>5. Staged'
    BY <1>1, <1>2, <1>3, <2>1, <2>3, <2>4 DEF Staged, I!Page, I!Submission
  <2> QED
    BY <1>1, <1>3, <2>2, <2>5, BatchKeeps DEF Batch, IntakeInv, Typed, I!TypeOK
<1>4. ASSUME NEW x \in todo, UNCHANGED at, todo' = todo \ {I!Submission(x[2])},
             \/ submitted' = submitted \cup I!Stored(x[2]) /\ UNCHANGED <<failing, faults>>
             \/ /\ I!Fault /\ failing' = failing \cup {I!Submission(x[2])}
                /\ submitted' \in {submitted, submitted \cup I!Stored(x[2])}
      PROVE  IntakeInv'
  <2>1. PICK a \in I!Persisted : x = I!Submission(a)
    BY <1>1, <1>4 DEF IntakeInv, Todo
  <2>2. x[2] = a
    BY <2>1, Apart
  <2>3. faults' \in 0 .. MaxFaults
    BY <1>4, IntakeAssumption DEF I!Fault, IntakeInv, Typed, I!TypeOK
  <2>4. \A s : I!Page(s) \in failing' <=> I!Page(s) \in failing
    BY <1>4, <2>2, Apart
  <2>5. I!Persisted' = I!Persisted
    BY <1>1, <1>2, <2>4 DEF I!Persisted, I!Page
  <2>6. Todo'
    <3>1. {I!Submission(b) : b \in I!Persisted}' = {I!Submission(b) : b \in I!Persisted}
      BY <2>5 DEF I!Submission
    <3> QED
      BY <1>1, <1>4, <3>1 DEF IntakeInv, Todo
  <2>7. Staged'
    <3>1. \A s \in I!Ours : I!Page(s) \in failing' \/ <<run, s>> \in observed
      BY <1>1, <2>4 DEF IntakeInv, Staged
    <3>2. \A b \in I!Persisted : I!Submission(b) \in todo' \cup failing' \/ I!Stored(b) \subseteq submitted'
      BY <1>1, <1>4, <2>2, Apart DEF IntakeInv, Staged
    <3> QED
      BY <1>1, <1>2, <1>4, <2>5, <3>1, <3>2 DEF Staged, I!Page, I!Submission
  <2> QED
    BY <1>1, <1>4, <2>2, <2>3, <2>6, <2>7, BatchKeeps
<1>5. ASSUME NEW a \in {x[2] : x \in todo} PROVE \E x \in todo : a = x[2]
  OBVIOUS
<1> QED
  BY <1>3, <1>4, <1>5 DEF I!Assemble

(* What failed after dispatch is kept, or the result names it.             *)
LEMMA OccurrencesKeep ==
  ASSUME IntakeInv, I!KeepOccurrences
  PROVE  IntakeInv'
<1>1. /\ at = "occurrences" /\ at \in Batch
      /\ UNCHANGED <<paper, retained, records, observed, submitted, run, file, source, terminal, failing>>
      /\ submitted \subseteq observed
  BY DEF I!KeepOccurrences, Batch, IntakeInv, Typed, I!TypeOK
<1>2. /\ I!Ours' = I!Ours /\ I!Persisted' = I!Persisted /\ \A a : I!Stored(a)' = I!Stored(a)
  BY <1>1 DEF I!Ours, I!Persisted, I!Stored, I!Page
<1>3. /\ \A s \in I!Ours : I!Page(s) \in failing \/ <<run, s>> \in observed
      /\ \A a \in I!Persisted : I!Submission(a) \in failing \/ I!Stored(a) \subseteq submitted
      /\ \A x \in failing : x \in todo \/ I!Kept(x)
  BY <1>1 DEF IntakeInv, Staged
<1>4. CASE todo = {} /\ at' = "done" /\ UNCHANGED <<todo, occurrences, reported, faults>>
  <2>1. \A x : I!Kept(x) => I!Kept(x)'
    BY <1>1, <1>4 DEF I!Kept
  <2>2. Staged'
    BY <1>1, <1>2, <1>3, <1>4, <2>1 DEF Staged, I!Page, I!Submission
  <2>3. Todo'
    BY <1>4 DEF Todo
  <2> QED
    BY <1>1, <1>4, <2>2, <2>3, BatchKeeps DEF Batch, IntakeInv, Typed, I!TypeOK
<1>5. ASSUME NEW x \in todo, todo' = todo \ {x}, UNCHANGED at,
             \/ occurrences' = occurrences \cup {<<run, x>>} /\ UNCHANGED <<reported, faults>>
             \/ /\ I!Fault /\ reported' = reported \cup {x}
                /\ occurrences' \in {occurrences, occurrences \cup {<<run, x>>}}
      PROVE  IntakeInv'
  <2>1. faults' \in 0 .. MaxFaults
    BY <1>5, IntakeAssumption DEF I!Fault, IntakeInv, Typed, I!TypeOK
  <2>2. \A y : I!Kept(y) \/ y = x => I!Kept(y)'
    BY <1>1, <1>5 DEF I!Kept
  <2>3. Staged'
    BY <1>1, <1>2, <1>3, <1>5, <2>2 DEF Staged, I!Page, I!Submission
  <2>4. Todo'
    BY <1>1, <1>5 DEF IntakeInv, Todo
  <2> QED
    BY <1>1, <1>5, <2>1, <2>3, <2>4, BatchKeeps
<1> QED
  BY <1>4, <1>5 DEF I!KeepOccurrences

(* What a dead intake leaves is as it was.                                 *)
LEMMA DieKeeps ==
  ASSUME IntakeInv, I!Die
  PROVE  IntakeInv'
<1>1. /\ at \notin {"idle", "done", "dead"} /\ at' = "dead" /\ I!Fault
      /\ UNCHANGED <<paper, retained, records, observed, submitted, occurrences, run, file, todo,
                     source, terminal, failing, reported>>
  BY DEF I!Die, I!durable, I!memory
<1>2. Typed'
  BY <1>1, IntakeAssumption DEF IntakeInv, Typed, I!TypeOK, I!Fault
<1>3. I!Ours' = I!Ours
  BY <1>1 DEF I!Ours
<1>4. Todo' /\ Successes' /\ Observed' /\ Staged'
  BY <1>1, <1>3 DEF IntakeInv, Todo, Successes, Observed, Staged, Reading
<1>5. \A r \in records : Recorded(r)'
  BY <1>1 DEF IntakeInv, Recorded
<1>6. \A s \in I!Sheet : Accounted(s)'
  BY <1>1 DEF Accounted, Reading, Batch
<1> QED
  BY <1>1, <1>2, <1>4, <1>5, <1>6 DEF IntakeInv

LEMMA IntakeStep ==
  ASSUME IntakeInv, [I!Next]_(I!vars)
  PROVE  IntakeInv'
<1>1. CASE UNCHANGED I!vars
  <2>1. UNCHANGED <<paper, retained, records, observed, submitted, occurrences, run, at, file, todo,
                    source, terminal, failing, reported, faults>>
    BY <1>1 DEF I!vars, I!durable, I!memory
  <2>2. I!Ours' = I!Ours /\ I!Persisted' = I!Persisted /\ I!Left(file, terminal)' = I!Left(file, terminal)
        /\ \A a : I!Stored(a)' = I!Stored(a)
    BY <2>1 DEF I!Ours, I!Persisted, I!Left, I!Pages, I!Page, I!Stored
  <2>3. Typed' /\ Todo' /\ Successes' /\ Observed'
    BY <2>1, <2>2 DEF IntakeInv, Typed, I!TypeOK, Todo, Successes, Observed, I!Pages, I!Page,
         I!Whole, I!Submission
  <2>4. \A x : I!Kept(x)' <=> I!Kept(x)
    BY <2>1 DEF I!Kept
  <2>5. Staged'
    BY <2>1, <2>2, <2>4 DEF IntakeInv, Staged, I!Page, I!Submission
  <2>6. \A r \in records : Recorded(r)'
    BY <2>1 DEF IntakeInv, Recorded
  <2>7. \A s \in I!Sheet : Accounted(s)'
    BY <2>1, <2>4 DEF IntakeInv, Accounted, Settled, I!Page, I!Whole
  <2> QED
    BY <2>1, <2>3, <2>5, <2>6, <2>7 DEF IntakeInv
<1> QED
  BY <1>1, BeginKeeps, RetainKeeps, ReadingKeeps, PreserveKeeps, ObserveKeeps, AssembleKeeps,
     OccurrencesKeep, DieKeeps DEF I!Next

(* Nothing that was retained is lost, and the status tells the truth.      *)
LEMMA IntakeTold ==
  ASSUME IntakeInv
  PROVE  I!EverySheetAccounted /\ I!StatusIsTrue /\ I!FailedOrObserved /\ I!StrandedPagesJoin
<1>1. I!FailedOrObserved
  BY DEF IntakeInv, Recorded, I!FailedOrObserved
<1>2. ASSUME at = "done"
      PROVE  /\ \A s \in I!Sheet : Settled(s)
             /\ \A x \in failing : I!Kept(x)
             /\ \A a \in I!Persisted : I!Submission(a) \in failing \/ I!Stored(a) \subseteq submitted
             /\ \A s \in I!Ours : \/ I!Page(s) \in failing \/ I!InSubmission(s)
                                  \/ I!Submission(StudentOf[s]) \in failing
             /\ \A s \in I!Sheet : terminal[s] = "success" => s \in I!Ours \/ I!Handed(s)
  <2>1. /\ \A s \in I!Sheet : Settled(s)
        /\ \A x \in failing : I!Kept(x)
        /\ \A a \in I!Persisted : I!Submission(a) \in failing \/ I!Stored(a) \subseteq submitted
        /\ \A s \in I!Ours : I!Page(s) \in failing \/ <<run, s>> \in observed
    BY <1>2 DEF IntakeInv, Accounted, Batch, Staged
  <2>2. ASSUME NEW s \in I!Ours, I!Page(s) \notin failing, I!Submission(StudentOf[s]) \notin failing
        PROVE  I!InSubmission(s)
    <3>1. StudentOf[s] \in I!Persisted
      BY <2>2 DEF I!Persisted
    <3>2. <<run, s>> \in I!Stored(StudentOf[s])
      BY <2>1, <2>2 DEF I!Stored
    <3> QED
      BY <2>1, <2>2, <3>1, <3>2 DEF I!InSubmission
  <2>3. \A s \in I!Sheet : terminal[s] = "success" => s \in I!Ours \/ I!Handed(s)
    BY DEF IntakeInv, Successes, I!Ours, I!Handed
  <2> QED
    BY <2>1, <2>2, <2>3
<1>3. I!EverySheetAccounted
  BY <1>2 DEF I!EverySheetAccounted, Settled
<1>4. ASSUME at = "done", I!Status = "complete_success", NEW s \in I!Sheet
      PROVE  I!Handed(s) \/ I!InSubmission(s)
  <2>1. I!Complete
    BY <1>4 DEF I!Status
  <2> QED
    BY <1>2, <1>4, <2>1 DEF I!Complete
<1>5. ASSUME at = "done", I!Status = "complete_failure", NEW s \in I!Sheet, I!InSubmission(s)
      PROVE  FALSE
  <2>1. terminal[s] # "success"
    BY <1>5 DEF I!Status
  <2>2. <<run, s>> \in observed
    BY <1>5 DEF I!InSubmission, IntakeInv, Typed, I!TypeOK
  <2> QED
    BY <2>1, <2>2 DEF IntakeInv, Observed, I!Ours
<1>6. I!StrandedPagesJoin
  <2> SUFFICES ASSUME at = "done", NEW o \in observed, StudentOf[o[2]] \in I!Persisted,
                      I!Submission(StudentOf[o[2]]) \notin failing
               PROVE  o \in submitted
    BY DEF I!StrandedPagesJoin
  <2>1. o \in I!Stored(StudentOf[o[2]])
    BY DEF I!Stored
  <2> QED
    BY <1>2, <2>1
<1> QED
  BY <1>1, <1>3, <1>4, <1>5, <1>6 DEF I!StatusIsTrue

-----------------------------------------------------------------------------
(***************************************************************************)
(* The recovery.                                                           *)
(***************************************************************************)
Decision == [time : Nat, action : {"none", "deferred", "dismissed", "route_selected"}, route : Route \cup {"none"}]
Job == [route : Route \cup {"none"}, basis : Decision]

\* Sessions that took a time stamp and have not written their decision yet.
Deciding == {s \in Session : pc[s] = "decide"}

\* Every decision that is written or being written took a time stamp.
Stamped ==
  /\ decisions \in Seq(Decision)
  /\ IsFiniteSet(Deciding) /\ Len(decisions) + Cardinality(Deciding) <= clock

\* One of the written decisions is the latest.
HasLatest ==
  decisions # <<>> =>
    \E i \in DOMAIN decisions : \A k \in DOMAIN decisions : decisions[k].time <= decisions[i].time

\* Whoever recovers a page has a registered route for it.
Routed(s) == pc[s] \notin {"idle", "decide"} => job[s].route \in Route

RecoveryInv ==
  /\ R!TypeOK /\ Stamped /\ HasLatest
  /\ job \in [Session -> Job] /\ \A s \in Session : Routed(s)
  /\ \A r \in receipts : place[r] \in R!Placed

LEMMA RecoveryStart ==
  ASSUME MaxDecisions \in Nat, R!Init
  PROVE  RecoveryInv
<1>1. R!NoJob \in Job
  BY DEF R!NoJob, Job, R!Undecided, Decision
<1>2. Deciding = {} /\ IsFiniteSet({}) /\ Cardinality({}) = 0
  BY FS_EmptySet DEF R!Init, Deciding
<1>3. Stamped
  BY <1>2 DEF R!Init, Stamped
<1>4. R!TypeOK
  <2>1. clock \in 0 .. MaxDecisions /\ Len(decisions) <= clock
    BY DEF R!Init
  <2>2. /\ issued \subseteq Route /\ receipts \subseteq Route
        /\ page \in [Route -> {"empty", "filled", "needs_rescan", "excluded"}]
        /\ place \in [Route -> R!Placed \cup {"none", "observed"}]
        /\ pc \in [Session -> DOMAIN R!After \cup {"idle", "decide", "write", "rewrite", "merge", "verify"}]
    BY DEF R!Init
  <2> QED
    BY <2>1, <2>2 DEF R!TypeOK
<1> QED
  BY <1>1, <1>3, <1>4 DEF R!Init, RecoveryInv, HasLatest, Routed

(* The decision that counts is one of those that were written, and the latest. *)
LEMMA LatestCounts ==
  ASSUME NEW ds \in Seq(Decision),
         ds # <<>> => \E i \in DOMAIN ds : \A k \in DOMAIN ds : ds[k].time <= ds[i].time
  PROVE  /\ R!Latest(ds) \in Decision
         /\ \A k \in DOMAIN ds : ds[k].time <= R!Latest(ds).time
<1>1. CASE ds = <<>>
  BY <1>1 DEF R!Latest, R!Undecided, Decision
<1>2. CASE ds # <<>>
  <2> DEFINE best == CHOOSE i \in DOMAIN ds : \A k \in DOMAIN ds : ds[k].time <= ds[i].time
  <2>1. best \in DOMAIN ds /\ \A k \in DOMAIN ds : ds[k].time <= ds[best].time
    BY <1>2
  <2>2. R!Latest(ds) = ds[best]
    BY <1>2 DEF R!Latest
  <2>3. \A i \in DOMAIN ds : ds[i] \in Decision
    BY ElementOfSeq, LenProperties
  <2> QED
    BY <2>1, <2>2, <2>3
<1> QED
  BY <1>1, <1>2

(* Appending a decision keeps one that is the latest, and never makes an   *)
(* earlier one count.                                                      *)
LEMMA AppendCounts ==
  ASSUME NEW ds \in Seq(Decision), NEW d \in Decision,
         ds # <<>> => \E i \in DOMAIN ds : \A k \in DOMAIN ds : ds[k].time <= ds[i].time
  PROVE  /\ \E i \in DOMAIN Append(ds, d) : \A k \in DOMAIN Append(ds, d) :
              Append(ds, d)[k].time <= Append(ds, d)[i].time
         /\ R!Latest(Append(ds, d)).time >= R!Latest(ds).time
<1> DEFINE es == Append(ds, d)
<1>1. /\ es \in Seq(Decision) /\ Len(es) = Len(ds) + 1 /\ es[Len(ds) + 1] = d /\ Len(ds) \in Nat
      /\ \A i \in 1 .. Len(ds) : es[i] = ds[i]
      /\ DOMAIN ds = 1 .. Len(ds) /\ DOMAIN es = 1 .. Len(ds) + 1
  BY AppendProperties, LenProperties
<1> HIDE DEF es
<1>2. \A i \in DOMAIN es : es[i] \in Decision
  BY <1>1, ElementOfSeq
<1>3. \A i \in DOMAIN es : es[i].time \in Nat
  BY <1>2 DEF Decision
<1>4. d.time \in Nat
  BY DEF Decision
<1>5. \E i \in DOMAIN es : \A k \in DOMAIN es : es[k].time <= es[i].time
  <2>1. CASE ds = <<>>
    <3>1. DOMAIN es = {1} /\ es[1] = d
      BY <1>1, <2>1
    <3> QED
      BY <1>4, <3>1
  <2>2. CASE ds # <<>>
    <3>1. PICK i \in 1 .. Len(ds) : \A k \in 1 .. Len(ds) : es[k].time <= es[i].time
      BY <1>1, <2>2
    <3>2. CASE d.time <= es[i].time
      <4>1. es[Len(ds) + 1].time <= es[i].time
        BY <1>1, <3>2
      <4>2. \A k \in 1 .. Len(ds) + 1 : k \in 1 .. Len(ds) \/ k = Len(ds) + 1
        BY <1>1
      <4>3. \A k \in 1 .. Len(ds) + 1 : es[k].time <= es[i].time
        BY <3>1, <4>1, <4>2
      <4>4. i \in 1 .. Len(ds) + 1
        BY <1>1
      <4> QED
        BY <1>1, <4>3, <4>4
    <3>3. CASE ~ (d.time <= es[i].time)
      <4>1. es[i].time \in Nat /\ \A k \in 1 .. Len(ds) : es[k].time \in Nat
        BY <1>1, <1>3
      <4>2. \A k \in 1 .. Len(ds) : es[k].time <= d.time
        BY <1>4, <3>1, <3>3, <4>1
      <4>3. \A k \in 1 .. Len(ds) + 1 : k \in 1 .. Len(ds) \/ k = Len(ds) + 1
        BY <1>1
      <4>4. es[Len(ds) + 1].time <= es[Len(ds) + 1].time /\ es[Len(ds) + 1].time = d.time
        BY <1>1, <1>4
      <4>5. \A k \in 1 .. Len(ds) + 1 : es[k].time <= es[Len(ds) + 1].time
        BY <4>2, <4>3, <4>4
      <4>6. Len(ds) + 1 \in 1 .. Len(ds) + 1
        BY <1>1
      <4> QED
        BY <1>1, <4>5, <4>6
    <3> QED
      BY <3>2, <3>3
  <2> QED
    BY <2>1, <2>2
<1>6. R!Latest(es) \in Decision /\ \A k \in DOMAIN es : es[k].time <= R!Latest(es).time
  BY <1>1, <1>5, LatestCounts
<1>7. R!Latest(es).time >= R!Latest(ds).time
  <2>1. CASE ds = <<>>
    BY <1>6, <2>1 DEF R!Latest, R!Undecided, Decision
  <2>2. CASE ds # <<>>
    <3>1. PICK i \in 1 .. Len(ds) : R!Latest(ds) = ds[i]
      <4> DEFINE best == CHOOSE i \in DOMAIN ds : \A k \in DOMAIN ds : ds[k].time <= ds[i].time
      <4>1. best \in DOMAIN ds
        BY <2>2
      <4>2. R!Latest(ds) = ds[best]
        BY <2>2 DEF R!Latest
      <4> QED
        BY <1>1, <4>1, <4>2
    <3>2. es[i].time <= R!Latest(es).time /\ es[i] = ds[i]
      BY <1>1, <1>6
    <3>3. R!Latest(es).time \in Nat /\ es[i].time \in Nat
      BY <1>1, <1>3, <1>6 DEF Decision
    <3> QED
      BY <3>1, <3>2, <3>3
  <2> QED
    BY <2>1, <2>2
<1> QED
  BY <1>5, <1>7 DEF es

\* What a session does.
Recovers(s) ==
  \/ \E a \in {"deferred", "dismissed"} : R!Decide(s, a, "none")
  \/ \E r \in Route : R!Decide(s, "route_selected", r)
  \/ R!WriteDecision(s) \/ R!Prepare(s) \/ R!Dispatch(s) \/ R!Persist(s) \/ R!Merge(s) \/ R!Verify(s)
  \/ R!Abandon(s)

Labels == DOMAIN R!After \cup {"idle", "decide", "write", "rewrite", "merge", "verify"}

(* A session moves itself only, and has a route wherever it recovers.      *)
LEMMA SessionMoves ==
  ASSUME RecoveryInv, NEW s \in Session, Recovers(s)
  PROVE  \E label \in Labels, j \in Job :
           /\ R!Go(s, label, j)
           /\ label \notin {"idle", "decide"} => j.route \in Route
           /\ label = "decide" => pc[s] = "idle"
<1>1. /\ R!NoJob \in Job /\ job[s] \in Job /\ Routed(s) /\ pc[s] \in Labels
  BY DEF R!NoJob, Job, R!Undecided, Decision, RecoveryInv, R!TypeOK, Labels
<1>2. CASE \E a \in {"deferred", "dismissed"} : R!Decide(s, a, "none")
  <2>1. PICK a \in {"deferred", "dismissed"} : R!Decide(s, a, "none")
    BY <1>2
  <2> DEFINE j == [R!NoJob EXCEPT !.basis = [time |-> clock + 1, action |-> a, route |-> "none"]]
  <2>2. j \in Job
    BY DEF R!NoJob, Job, Decision, RecoveryInv, R!TypeOK
  <2>3. R!Go(s, "decide", j) /\ pc[s] = "idle"
    BY <2>1 DEF R!Decide
  <2> QED
    BY <2>2, <2>3 DEF Labels
<1>3. CASE \E r \in Route : R!Decide(s, "route_selected", r)
  <2>1. PICK r \in Route : R!Decide(s, "route_selected", r)
    BY <1>3
  <2> DEFINE j == [R!NoJob EXCEPT !.basis = [time |-> clock + 1, action |-> "route_selected", route |-> r]]
  <2>2. j \in Job
    BY DEF R!NoJob, Job, Decision, RecoveryInv, R!TypeOK
  <2>3. R!Go(s, "decide", j) /\ pc[s] = "idle"
    BY <2>1 DEF R!Decide
  <2> QED
    BY <2>2, <2>3 DEF Labels
<1>4. CASE R!Prepare(s)
  <2>1. CASE \E r \in issued : R!Go(s, "dispatch", [R!NoJob EXCEPT !.route = r])
    <3>1. PICK r \in issued : R!Go(s, "dispatch", [R!NoJob EXCEPT !.route = r])
      BY <2>1
    <3>2. r \in Route
      BY DEF RecoveryInv, R!TypeOK
    <3>3. [R!NoJob EXCEPT !.route = r] \in Job /\ [R!NoJob EXCEPT !.route = r].route = r
      BY <3>2 DEF R!NoJob, Job, R!Undecided, Decision
    <3>4. "dispatch" \in Labels /\ "dispatch" # "decide"
      BY DEF Labels, R!After
    <3> QED
      BY <3>1, <3>2, <3>3, <3>4
  <2>2. CASE R!Go(s, "dispatch", [route |-> R!Recorded.route, basis |-> R!Recorded]) /\ R!Recorded.route \in issued
    <3>1. R!Recorded.route \in Route
      BY <2>2 DEF RecoveryInv, R!TypeOK
    <3>2. R!Recorded \in Decision
      BY LatestCounts DEF RecoveryInv, Stamped, HasLatest, R!Recorded
    <3>3. [route |-> R!Recorded.route, basis |-> R!Recorded] \in Job
      BY <3>1, <3>2 DEF Job
    <3>4. "dispatch" \in Labels /\ "dispatch" # "decide"
      BY DEF Labels, R!After
    <3>5. [route |-> R!Recorded.route, basis |-> R!Recorded].route \in Route
      BY <3>1
    <3> QED
      BY <2>2, <3>3, <3>4, <3>5
  <2> QED
    BY <1>4, <2>1, <2>2 DEF R!Prepare
<1>5. CASE R!Dispatch(s)
  <2>1. job[s].route \in Route
    BY <1>1, <1>5 DEF R!Dispatch, Routed, R!After
  <2>2. R!After[pc[s]] \in Labels \ {"decide"}
    BY <1>5 DEF R!Dispatch, Labels, R!After
  <2>3. R!Go(s, R!After[pc[s]], job[s]) \/ R!Go(s, "idle", R!NoJob)
    BY <1>5 DEF R!Dispatch
  <2>4. CASE R!Go(s, R!After[pc[s]], job[s])
    BY <1>1, <2>1, <2>2, <2>4
  <2>5. CASE R!Go(s, "idle", R!NoJob)
    BY <1>1, <2>5 DEF Labels
  <2> QED
    BY <2>3, <2>4, <2>5
<1>6. CASE R!Persist(s) \/ R!Merge(s) \/ R!Verify(s)
  <2>1. job[s].route \in Route
    BY <1>1, <1>6 DEF R!Persist, R!Merge, R!Verify, Routed
  <2>2. \/ R!Go(s, "assemble", job[s]) \/ R!Go(s, "merge", job[s])
        \/ R!Go(s, "verify", job[s]) \/ R!Go(s, "idle", R!NoJob)
    BY <1>6 DEF R!Persist, R!Merge, R!Verify
  <2>3. {"assemble", "merge", "verify", "idle"} \subseteq Labels \ {"decide"}
    BY DEF Labels, R!After
  <2> QED
    BY <1>1, <2>1, <2>2, <2>3
<1>7. CASE R!WriteDecision(s) \/ R!Abandon(s)
  BY <1>1, <1>7 DEF R!WriteDecision, R!Abandon, Labels
<1> QED
  BY <1>2, <1>3, <1>4, <1>5, <1>6, <1>7 DEF Recovers

(* Who moves keeps the types of the sessions and their routes.             *)
LEMMA MovesKeep ==
  ASSUME RecoveryInv, [R!Next]_(R!vars)
  PROVE  /\ pc' \in [Session -> Labels] /\ job' \in [Session -> Job]
         /\ \A s \in Session : Routed(s)'
<1>1. CASE UNCHANGED <<pc, job>>
  BY <1>1 DEF RecoveryInv, R!TypeOK, Labels, Routed
<1>2. ASSUME NEW s \in Session, Recovers(s)
      PROVE  /\ pc' \in [Session -> Labels] /\ job' \in [Session -> Job]
             /\ \A t \in Session : Routed(t)'
  <2>1. PICK label \in Labels, j \in Job :
          R!Go(s, label, j) /\ (label \notin {"idle", "decide"} => j.route \in Route)
    BY <1>2, SessionMoves
  <2>2. /\ pc \in [Session -> Labels] /\ job \in [Session -> Job]
        /\ \A t \in Session : Routed(t)
    BY DEF RecoveryInv, R!TypeOK, Labels
  <2> QED
    BY <2>1, <2>2 DEF R!Go, Routed
<1> QED
  BY <1>1, <1>2 DEF R!Next, Recovers, R!Surroundings, R!vars

(* Decisions take their time stamps one after the other and are written in *)
(* any order; the latest never gives way to an earlier one.                *)
LEMMA DecisionsKeep ==
  ASSUME MaxDecisions \in Nat, RecoveryInv, [R!Next]_(R!vars)
  PROVE  /\ Stamped' /\ HasLatest' /\ R!InOrder
         /\ clock' \in 0 .. MaxDecisions /\ Len(decisions') <= clock'
<1>1. /\ decisions \in Seq(Decision) /\ Len(decisions) \in Nat
      /\ clock \in Nat /\ clock \in 0 .. MaxDecisions /\ Len(decisions) <= clock
      /\ IsFiniteSet(Deciding) /\ Cardinality(Deciding) \in Nat
      /\ Len(decisions) + Cardinality(Deciding) <= clock
  BY FS_CardinalityType, LenProperties DEF RecoveryInv, R!TypeOK, Stamped
<1>2. /\ R!Latest(decisions) \in Decision /\ R!Latest(decisions).time \in Nat
      /\ R!Latest(decisions).time >= R!Latest(decisions).time
  <2>1. R!Latest(decisions) \in Decision
    BY <1>1, LatestCounts DEF RecoveryInv, HasLatest
  <2> QED
    BY <2>1 DEF Decision
<1>3. ASSUME UNCHANGED <<decisions, clock>>, Deciding' \subseteq Deciding
      PROVE  /\ Stamped' /\ HasLatest' /\ R!InOrder
             /\ clock' \in 0 .. MaxDecisions /\ Len(decisions') <= clock'
  <2>1. IsFiniteSet(Deciding') /\ Cardinality(Deciding') <= Cardinality(Deciding)
    BY <1>1, <1>3, FS_Subset
  <2>2. Cardinality(Deciding') \in Nat
    BY <2>1, FS_CardinalityType
  <2>3. Len(decisions) + Cardinality(Deciding') <= clock
    BY <1>1, <2>1, <2>2
  <2> QED
    BY <1>1, <1>2, <1>3, <2>1, <2>3 DEF Stamped, RecoveryInv, HasLatest, R!InOrder
<1>4. ASSUME NEW s \in Session, NEW a, NEW r, R!Decide(s, a, r)
      PROVE  /\ Stamped' /\ HasLatest' /\ R!InOrder
             /\ clock' \in 0 .. MaxDecisions /\ Len(decisions') <= clock'
  <2>1. decisions' = decisions /\ clock' = clock + 1 /\ clock < MaxDecisions
    BY <1>4 DEF R!Decide
  <2>2. Deciding' = Deciding \cup {s} /\ s \notin Deciding
    BY <1>4 DEF R!Decide, R!Go, Deciding, RecoveryInv, R!TypeOK
  <2>3. IsFiniteSet(Deciding') /\ Cardinality(Deciding') = Cardinality(Deciding) + 1
    BY <1>1, <2>2, FS_AddElement
  <2>4. Len(decisions) + (Cardinality(Deciding) + 1) <= clock + 1 /\ Len(decisions) <= clock + 1
        /\ clock + 1 \in 0 .. MaxDecisions
    BY <1>1, <2>1
  <2> QED
    BY <1>1, <1>2, <2>1, <2>3, <2>4 DEF Stamped, RecoveryInv, HasLatest, R!InOrder
<1>5. ASSUME NEW s \in Session, R!WriteDecision(s)
      PROVE  /\ Stamped' /\ HasLatest' /\ R!InOrder
             /\ clock' \in 0 .. MaxDecisions /\ Len(decisions') <= clock'
  <2>1. decisions' = Append(decisions, job[s].basis) /\ clock' = clock
    BY <1>5 DEF R!WriteDecision
  <2>2. job[s].basis \in Decision
    BY DEF RecoveryInv, Job
  <2>3. Deciding' = Deciding \ {s} /\ s \in Deciding
    BY <1>5 DEF R!WriteDecision, R!Go, Deciding, RecoveryInv, R!TypeOK
  <2>4. IsFiniteSet(Deciding') /\ Cardinality(Deciding') = Cardinality(Deciding) - 1
    BY <1>1, <2>3, FS_RemoveElement
  <2>5. decisions' \in Seq(Decision) /\ Len(decisions') = Len(decisions) + 1
    BY <1>1, <2>1, <2>2, AppendProperties
  <2>6. HasLatest' /\ R!InOrder
    BY <1>1, <2>1, <2>2, AppendCounts DEF RecoveryInv, HasLatest, R!InOrder
  <2>7. Len(decisions) + 1 + (Cardinality(Deciding) - 1) <= clock /\ Len(decisions) + 1 <= clock
    <3>1. Deciding # {}
      BY <2>3
    <3>2. Cardinality(Deciding) # 0
      BY <1>1, <3>1, FS_EmptySet
    <3> QED
      BY <1>1, <3>2
  <2> QED
    BY <1>1, <2>1, <2>4, <2>5, <2>6, <2>7 DEF Stamped
<1>6. ASSUME NEW s \in Session,
             R!Prepare(s) \/ R!Dispatch(s) \/ R!Persist(s) \/ R!Merge(s) \/ R!Verify(s) \/ R!Abandon(s)
      PROVE  UNCHANGED <<decisions, clock>> /\ Deciding' \subseteq Deciding
  <2>1. UNCHANGED <<decisions, clock>>
    BY <1>6 DEF R!Prepare, R!Dispatch, R!Persist, R!Merge, R!Verify, R!Abandon
  <2>2. PICK label, j : R!Go(s, label, j) /\ (label = "decide" => pc[s] = "decide")
    <3>1. CASE R!Prepare(s)
      <4>1. \E j : R!Go(s, "dispatch", j)
        BY <3>1 DEF R!Prepare
      <4> QED
        BY <4>1
    <3>2. CASE R!Dispatch(s)
      <4>1. R!After[pc[s]] # "decide"
        BY <3>2 DEF R!Dispatch, R!After
      <4>2. R!Go(s, R!After[pc[s]], job[s]) \/ R!Go(s, "idle", R!NoJob)
        BY <3>2 DEF R!Dispatch
      <4> QED
        BY <4>1, <4>2
    <3>3. CASE R!Persist(s) \/ R!Merge(s) \/ R!Verify(s) \/ R!Abandon(s)
      BY <3>3 DEF R!Persist, R!Merge, R!Verify, R!Abandon
    <3> QED
      BY <1>6, <3>1, <3>2, <3>3
  <2>3. pc \in [Session -> Labels]
    BY DEF RecoveryInv, R!TypeOK, Labels
  <2> QED
    BY <2>1, <2>2, <2>3 DEF R!Go, Deciding
<1>7. CASE R!Surroundings \/ UNCHANGED R!vars
  <2>1. UNCHANGED <<decisions, clock, pc>>
    BY <1>7 DEF R!Surroundings, R!vars
  <2>2. Deciding' = Deciding
    BY <2>1 DEF Deciding
  <2> QED
    BY <1>3, <2>1, <2>2
<1> QED
  BY <1>3, <1>4, <1>5, <1>6, <1>7 DEF R!Next

\* What may become of a page and of the recovered evidence for it: what is in
\* the submission stays, and what a teacher did is not undone.
PageKeeps(r, newPage, newPlace) ==
  /\ newPage \in {"empty", "filled", "needs_rescan", "excluded"}
  /\ newPlace \in R!Placed \cup {"none", "observed"}
  /\ place[r] \in R!Placed => newPlace \in R!Placed
  /\ place[r] = "observed" /\ newPlace = "selected" => page[r] = "empty"
  /\ place[r] \in {"dismissed", "rescan", "out"} => newPlace \notin {"candidate", "selected"}

\* One route changes at most.
OneChanges(r) ==
  \E newPage, newPlace :
    R!Set(r, newPage, newPlace) /\ (r \in Route => PageKeeps(r, newPage, newPlace))

LEMMA AssemblyKeeps ==
  ASSUME RecoveryInv, NEW r \in Route
  PROVE  PageKeeps(r, R!Merged(r).page, R!Merged(r).place) /\ PageKeeps(r, page[r], place[r])
BY DEF RecoveryInv, R!TypeOK, R!Merged, PageKeeps, R!Placed

(* What teachers, other scans and recoveries do to a page keeps it.        *)
LEMMA PagesKeep ==
  ASSUME RecoveryInv, [R!Next]_(R!vars)
  PROVE  UNCHANGED R!materialized \/ \E r \in Route : OneChanges(r)
<1>1. ASSUME NEW s \in Session, R!Persist(s) PROVE \E r \in Route : OneChanges(r)
  <2> DEFINE r == job[s].route
  <2>1. r \in Route
    BY <1>1 DEF R!Persist, RecoveryInv, Routed
  <2>2. page' = [page EXCEPT ![r] = page[r]]
    BY <1>1 DEF R!Persist, RecoveryInv, R!TypeOK
  <2>3. R!Set(r, page[r], IF place[r] = "none" THEN "observed" ELSE place[r])
    BY <1>1, <2>2 DEF R!Persist, R!Set
  <2>4. PageKeeps(r, page[r], IF place[r] = "none" THEN "observed" ELSE place[r])
    BY <2>1, AssemblyKeeps DEF PageKeeps, R!Placed
  <2> QED
    BY <2>1, <2>3, <2>4 DEF OneChanges
<1>2. ASSUME NEW r \in Route, R!Assemble(r) PROVE OneChanges(r)
  BY <1>2, AssemblyKeeps DEF R!Assemble, OneChanges, R!Set
<1>3. ASSUME NEW s \in Session, R!Merge(s) PROVE \E r \in Route : OneChanges(r)
  BY <1>2, <1>3 DEF R!Merge, RecoveryInv, Routed
<1>4. ASSUME NEW r \in Route, R!Teacher(r) PROVE OneChanges(r)
  <2>1. /\ page[r] \in {"empty", "filled", "needs_rescan", "excluded"}
        /\ place[r] \in R!Placed \cup {"none", "observed"}
    BY DEF RecoveryInv, R!TypeOK
  <2>2. CASE R!AnotherScan(r)
    BY <1>2, <2>1, <2>2 DEF R!AnotherScan, OneChanges, PageKeeps, R!Placed
  <2>3. CASE ~ R!AnotherScan(r)
    BY <1>4, <2>1, <2>3 DEF R!Teacher, OneChanges, PageKeeps, R!Placed
  <2> QED
    BY <2>2, <2>3
<1>5. CASE R!Surroundings
  BY <1>4, <1>5 DEF R!Surroundings
<1>6. CASE UNCHANGED R!materialized
  BY <1>6
<1> QED
  BY <1>1, <1>3, <1>5, <1>6
  DEF R!Next, R!Decide, R!WriteDecision, R!Prepare, R!Dispatch, R!Verify, R!Abandon, R!vars,
       R!materialized

LEMMA ReceiptsKeep ==
  ASSUME RecoveryInv, [R!Next]_(R!vars)
  PROVE  /\ page' \in [Route -> {"empty", "filled", "needs_rescan", "excluded"}]
         /\ place' \in [Route -> R!Placed \cup {"none", "observed"}]
         /\ issued' \subseteq Route /\ receipts' \subseteq Route
         /\ \A r \in receipts' : place'[r] \in R!Placed
         /\ R!Defers
<1>1. /\ page \in [Route -> {"empty", "filled", "needs_rescan", "excluded"}]
      /\ place \in [Route -> R!Placed \cup {"none", "observed"}]
  BY DEF RecoveryInv, R!TypeOK
<1>2. /\ page' \in [Route -> {"empty", "filled", "needs_rescan", "excluded"}]
      /\ place' \in [Route -> R!Placed \cup {"none", "observed"}]
      /\ \A r \in Route : place[r] \in R!Placed => place'[r] \in R!Placed
      /\ R!Defers
  <2>1. CASE UNCHANGED R!materialized
    BY <1>1, <2>1 DEF R!materialized, R!Defers, R!Placed
  <2>2. ASSUME NEW r \in Route, OneChanges(r)
        PROVE  /\ page' \in [Route -> {"empty", "filled", "needs_rescan", "excluded"}]
               /\ place' \in [Route -> R!Placed \cup {"none", "observed"}]
               /\ \A q \in Route : place[q] \in R!Placed => place'[q] \in R!Placed
               /\ R!Defers
    <3>1. PICK newPage, newPlace : R!Set(r, newPage, newPlace) /\ PageKeeps(r, newPage, newPlace)
      BY <2>2 DEF OneChanges
    <3>2. \A q \in Route : place'[q] = IF q = r THEN newPlace ELSE place[q]
      BY <1>1, <3>1 DEF R!Set
    <3>3. R!Defers
      BY <3>1, <3>2 DEF PageKeeps, R!Defers
    <3> QED
      BY <1>1, <3>1, <3>2, <3>3 DEF R!Set, PageKeeps
  <2> QED
    BY <2>1, <2>2, PagesKeep
<1>3. CASE receipts' = receipts
  <2>1. issued' \subseteq issued
    BY DEF R!Next, R!Decide, R!WriteDecision, R!Prepare, R!Dispatch, R!Persist, R!Merge, R!Verify,
         R!Abandon,
       R!Surroundings, R!vars
  <2> QED
    BY <1>2, <1>3, <2>1 DEF RecoveryInv, R!TypeOK
<1>4. ASSUME NEW s \in Session, R!Verify(s), receipts' # receipts
      PROVE  /\ issued' \subseteq Route /\ receipts' \subseteq Route
             /\ \A r \in receipts' : place'[r] \in R!Placed
  <2>1. /\ receipts' = receipts \cup {job[s].route} /\ place[job[s].route] \in R!Allowed(job[s].route)
        /\ UNCHANGED <<issued, place>>
    BY <1>4 DEF R!Verify, R!materialized
  <2>2. job[s].route \in Route
    BY <1>4 DEF R!Verify, RecoveryInv, Routed
  <2>3. \A r \in Route : R!Allowed(r) \subseteq R!Placed
    BY DEF R!Allowed, R!Placed
  <2> QED
    BY <2>1, <2>2, <2>3 DEF RecoveryInv, R!TypeOK
<1> QED
  BY <1>2, <1>3, <1>4
  DEF R!Next, R!Decide, R!WriteDecision, R!Prepare, R!Dispatch, R!Persist, R!Merge, R!Abandon,
       R!Surroundings, R!vars

LEMMA RecoveryStep ==
  ASSUME MaxDecisions \in Nat, RecoveryInv, [R!Next]_(R!vars)
  PROVE  RecoveryInv' /\ R!InOrder /\ R!Defers
BY MovesKeep, DecisionsKeep, ReceiptsKeep DEF RecoveryInv, R!TypeOK, Labels

(* A completed recovery's page is in the submission, and the replay of     *)
(* recorded routes never asks to execute it again.                         *)
LEMMA RecoveryTold ==
  ASSUME RecoveryInv
  PROVE  R!ReceiptsStand
<1>1. \A r \in receipts : place[r] # "none" /\ place[r] # "observed"
  BY DEF RecoveryInv, R!Placed
<1> QED
  BY <1>1 DEF RecoveryInv, R!ReceiptsStand, R!Historical

-----------------------------------------------------------------------------
(***************************************************************************)
(* The occurrences.                                                        *)
(***************************************************************************)
LEMMA PostAssumption == MaxTime \in Nat /\ D!All \notin Student /\ D!Nobody \notin Student
BY MCScanAssumption DEF D!All, D!Nobody

Action == {"deferred", "other", "retry", "resolved_after_retry"}

\* What a menu holds: an occurrence, what is to be done, and what a retry found.
Jobs ==
  [occ : Occurrence \cup {D!None}, action : Action \cup {D!None},
   result : [assembled : SUBSET Student, failed : SUBSET Student, revision : [Student -> Nat],
             began : Nat, at : Nat]]

\* What a session's retry found, and when.
Outcome(result, now) ==
  /\ result.assembled \subseteq Student /\ result.began \in 0 .. now /\ result.at \in 0 .. now
  /\ result.revision \in [Student -> 0 .. now]

\* A menu handles a recorded occurrence; its retry began after the failure was
\* recorded, and before a resolution of it is written the retry has proved the
\* repair.
Handles(s) ==
  /\ Outcome(job[s].result, clock)
  /\ pc[s] # "idle" => job[s].occ \in D!Recorded
  /\ pc[s] \in {"prove", "confirm"} => created[job[s].occ] <= job[s].result.began
  /\ pc[s] # "record" => job[s].action # "resolved_after_retry"
  /\ pc[s] = "record" /\ job[s].action = "resolved_after_retry" =>
       /\ created[job[s].occ] <= job[s].result.began
       /\ D!Proves(job[s].occ, job[s].result) # {}

\* Each resolution is later than its failure, and one of them is the latest.
Resolved(o) ==
  /\ \A r \in D!Of(o) : r.at > created[o]
  /\ D!Of(o) # {} => \E r \in D!Of(o) : \A q \in D!Of(o) : q.at <= r.at

PostInv ==
  /\ D!TypeOK /\ about \in [Occurrence -> Student \cup {D!All, D!Nobody}]
  /\ job \in [Session -> Jobs] /\ \A s \in Session : Handles(s)
  /\ \A o \in Occurrence : Resolved(o)
  /\ D!RetryRepaired

LEMMA PostStart ==
  ASSUME D!Init
  PROVE  PostInv
<1>0. D!NoJob \in Jobs
  BY DEF D!NoJob, Jobs, D!NoResult, D!None
<1>1. D!TypeOK
  BY PostAssumption DEF D!Init, D!TypeOK
<1>2. \A s \in Session : Handles(s)
  BY DEF D!Init, Handles, D!NoJob, D!NoResult, Outcome, D!None
<1> QED
  BY <1>0, <1>1, <1>2 DEF D!Init, PostInv, Resolved, D!Of, D!RetryRepaired, D!Retried

(* Whom a result proves repaired is a student, and the one it is about.    *)
LEMMA ProvesOne ==
  ASSUME PostInv, NEW o \in Occurrence, NEW result, result.assembled \subseteq Student
  PROVE  /\ D!Proves(o, result) \subseteq Student
         /\ D!Proves(o, result) # {} => about[o] # D!Nobody
         /\ about[o] \in Student => D!Proves(o, result) \subseteq {about[o]}
<1>1. about[o] \in Student \cup {D!All, D!Nobody} /\ D!All # D!Nobody
  BY DEF PostInv, D!All, D!Nobody
<1>2. CASE about[o] = D!Nobody
  BY <1>2, PostAssumption DEF D!Proves
<1>3. CASE about[o] \in Student
  BY <1>3, PostAssumption DEF D!Proves
<1>4. CASE about[o] = D!All
  BY <1>1, <1>4, PostAssumption DEF D!Proves
<1> QED
  BY <1>1, <1>2, <1>3, <1>4

(* The clock only advances; what is dated stays dated.                     *)
LEMMA Later ==
  ASSUME PostInv, NEW result, Outcome(result, clock), clock' \in Nat, clock' >= clock
  PROVE  Outcome(result, clock')
BY DEF Outcome, PostInv, D!TypeOK

\* What a session does.
Decides(s) ==
  \/ \E o \in Occurrence, action \in {"deferred", "other", "retry"} : D!Pick(s, o, action)
  \/ D!Retry(s) \/ D!Prove(s) \/ D!Confirm(s) \/ D!Record(s) \/ D!Leave(s)

Typing ==
  /\ clock \in Nat /\ clock \in 0 .. MaxTime /\ created \in [Occurrence -> 0 .. clock]
  /\ broken \subseteq Student /\ revision \in [Student -> 0 .. clock]
  /\ pc \in [Session -> {"idle", "retry", "prove", "confirm", "record"}]
  /\ job \in [Session -> Jobs]
  /\ \A r \in resolutions : r.occ \in D!Recorded /\ r.at \in 1 .. clock

LEMMA Types == ASSUME PostInv PROVE Typing /\ \A o \in Occurrence : created[o] \in Nat
BY DEF PostInv, D!TypeOK, Typing

(* The surroundings create occurrences, and repair and assemble students.  *)
LEMMA SurroundingsKeep ==
  ASSUME PostInv, \/ \E o \in Occurrence : D!Create(o)
                  \/ \E a \in Student : D!Change(a) \/ D!Assembled(a)
  PROVE  PostInv'
<1>1. /\ clock' = clock + 1 /\ clock + 1 \in 0 .. MaxTime /\ clock' \in Nat /\ clock' >= clock
      /\ UNCHANGED <<about, resolutions, pc, job>>
  <2>1. clock < MaxTime /\ clock' = clock + 1 /\ UNCHANGED <<about, resolutions, pc, job>>
    BY DEF D!Create, D!Change, D!Assembled, D!Tick
  <2> QED
    BY <2>1, Types, PostAssumption DEF Typing
<1>2. /\ created' \in [Occurrence -> 0 .. clock'] /\ D!Recorded \subseteq D!Recorded'
      /\ \A o \in D!Recorded : created'[o] = created[o]
      /\ broken' \subseteq Student /\ revision' \in [Student -> 0 .. clock']
  <2>1. CASE \E o \in Occurrence : D!Create(o)
    BY <1>1, <2>1, Types DEF D!Create, Typing, D!Recorded
  <2>2. CASE \E a \in Student : D!Change(a)
    BY <1>1, <2>2, Types DEF D!Change, Typing, D!Recorded
  <2>3. CASE \E a \in Student : D!Assembled(a)
    BY <1>1, <2>3, Types DEF D!Assembled, Typing, D!Recorded
  <2> QED
    BY <2>1, <2>2, <2>3
<1>3. D!TypeOK'
  BY <1>1, <1>2, Types DEF Typing, D!TypeOK
<1>4. ASSUME NEW s \in Session PROVE Handles(s)'
  <2>1. Handles(s) /\ Outcome(job'[s].result, clock')
    BY <1>1, Later DEF PostInv, Handles
  <2>2. D!Proves(job[s].occ, job[s].result)' = D!Proves(job[s].occ, job[s].result)
    BY <1>1 DEF D!Proves
  <2> QED
    BY <1>1, <1>2, <2>1, <2>2 DEF Handles
<1>5. ASSUME NEW o \in Occurrence PROVE Resolved(o)'
  <2>1. D!Of(o)' = D!Of(o) /\ Resolved(o)
    BY <1>1 DEF D!Of, PostInv
  <2>2. D!Of(o) # {} => o \in D!Recorded
    BY Types DEF D!Of, Typing
  <2> QED
    BY <1>2, <2>1, <2>2 DEF Resolved
<1>6. D!RetryRepaired'
  BY <1>1, <1>2, Types DEF PostInv, D!RetryRepaired, D!Retried, Typing
<1> QED
  BY <1>1, <1>3, <1>4, <1>5, <1>6 DEF PostInv

(* One session goes on, and what is dated stays dated.                     *)
LEMMA SessionKeeps ==
  ASSUME PostInv, NEW s \in Session, NEW label \in {"idle", "retry", "prove", "confirm", "record"},
         NEW j \in Jobs, D!Go(s, label, j),
         UNCHANGED <<about, created, broken, revision, resolutions>>,
         clock' \in 0 .. MaxTime, clock' \in Nat, clock' >= clock,
         Outcome(j.result, clock'),
         label # "idle" => j.occ \in D!Recorded,
         label \in {"prove", "confirm"} => created[j.occ] <= j.result.began,
         label # "record" => j.action # "resolved_after_retry",
         label = "record" /\ j.action = "resolved_after_retry" =>
           created[j.occ] <= j.result.began /\ D!Proves(j.occ, j.result) # {}
  PROVE  PostInv'
<1>1. D!TypeOK' /\ D!Recorded' = D!Recorded
  <2>1. created' \in [Occurrence -> 0 .. clock'] /\ revision' \in [Student -> 0 .. clock']
    BY Types DEF Typing
  <2>2. pc' \in [Session -> {"idle", "retry", "prove", "confirm", "record"}]
    BY Types DEF Typing, D!Go
  <2>3. \A r \in resolutions : r.at \in 1 .. clock'
    BY Types DEF Typing
  <2> QED
    BY <2>1, <2>2, <2>3, Types DEF Typing, D!TypeOK, D!Recorded
<1>2. ASSUME NEW t \in Session PROVE Handles(t)'
  <2>1. CASE t = s
    <3>1. job'[s] = j /\ pc'[s] = label
      BY Types DEF Typing, D!Go
    <3>2. D!Proves(j.occ, j.result)' = D!Proves(j.occ, j.result)
      BY DEF D!Proves
    <3>3. D!Proves(job[s].occ, job[s].result)' = D!Proves(j.occ, j.result)
      BY <3>1, <3>2 DEF D!Proves
    <3>4. Outcome(job'[s].result, clock')
      BY <3>1 DEF Outcome
    <3> QED
      BY <1>1, <2>1, <3>1, <3>3, <3>4 DEF Handles
  <2>2. CASE t # s
    <3>1. job'[t] = job[t] /\ pc'[t] = pc[t]
      BY <2>2, Types DEF Typing, D!Go
    <3>2. Handles(t)
      BY DEF PostInv
    <3>3. Outcome(job'[t].result, clock')
      <4>1. Outcome(job[t].result, clock)
        BY <3>2 DEF Handles
      <4> QED
        BY <3>1, <4>1, Later
    <3>4. D!Proves(job[t].occ, job[t].result)' = D!Proves(job[t].occ, job[t].result)
      BY <3>1 DEF D!Proves
    <3> QED
      BY <1>1, <3>1, <3>2, <3>3, <3>4 DEF Handles
  <2> QED
    BY <2>1, <2>2
<1>3. ASSUME NEW o \in Occurrence PROVE Resolved(o)'
  BY DEF PostInv, Resolved, D!Of
<1>4. D!RetryRepaired' /\ job' \in [Session -> Jobs]
  BY Types DEF PostInv, D!RetryRepaired, D!Retried, Typing, D!Go
<1> QED
  BY <1>1, <1>2, <1>3, <1>4 DEF PostInv

LEMMA PickKeeps ==
  ASSUME PostInv, NEW s \in Session, NEW o \in Occurrence,
         NEW action \in {"deferred", "other", "retry"}, D!Pick(s, o, action)
  PROVE  PostInv'
<1> DEFINE j == [D!NoJob EXCEPT !.occ = o, !.action = action]
<1>1. j.occ = o /\ j.action = action /\ j.result = D!NoResult /\ j \in Jobs
  BY DEF D!NoJob, Jobs, D!NoResult, D!None, Action
<1>2. /\ D!Go(s, IF action = "retry" THEN "retry" ELSE "record", j)
      /\ UNCHANGED <<about, created, broken, revision, resolutions, clock>> /\ o \in D!Recorded
  BY DEF D!Pick, D!Open
<1>3. Outcome(D!NoResult, clock')
  BY <1>2, Types DEF Outcome, D!NoResult, Typing
<1>4. /\ clock' \in 0 .. MaxTime /\ clock' \in Nat /\ clock' >= clock
      /\ action # "resolved_after_retry"
  BY <1>2, Types DEF Typing
<1> HIDE DEF j
<1>5. CASE action = "retry"
  BY <1>1, <1>2, <1>3, <1>4, <1>5, SessionKeeps
<1>6. CASE action # "retry"
  BY <1>1, <1>2, <1>3, <1>4, <1>6, SessionKeeps
<1> QED
  BY <1>5, <1>6

LEMMA RetryKeeps ==
  ASSUME PostInv, NEW s \in Session, D!Retry(s)
  PROVE  PostInv'
<1> DEFINE found == [assembled |-> Student \ broken, failed |-> broken, revision |-> revision,
                     began |-> clock, at |-> clock + 1]
           j == [job[s] EXCEPT !.result = found]
<1>0. job[s] \in Jobs
  BY DEF PostInv
<1>1. j.occ = job[s].occ /\ j.action = job[s].action /\ j.result = found
  BY <1>0 DEF Jobs
<1>7. j \in Jobs
  <2>1. Student \ broken \in SUBSET Student /\ broken \in SUBSET Student /\ clock \in Nat /\ clock + 1 \in Nat
    BY Types DEF Typing
  <2>2. revision \in [Student -> Nat]
    BY Types DEF Typing
  <2>3. found \in [assembled : SUBSET Student, failed : SUBSET Student, revision : [Student -> Nat],
                   began : Nat, at : Nat]
    BY <2>1, <2>2
  <2> HIDE DEF found
  <2> QED
    BY <1>0, <2>3 DEF Jobs
<1>2. /\ D!Go(s, "prove", j) /\ clock' = clock + 1 /\ clock < MaxTime
      /\ UNCHANGED <<about, created, broken, revision, resolutions>> /\ pc[s] = "retry"
  BY DEF D!Retry, D!Tick
<1>3. clock' \in 0 .. MaxTime /\ clock' \in Nat /\ clock' >= clock
  BY <1>2, Types, PostAssumption DEF Typing
<1>4. Outcome(found, clock')
  BY <1>2, Types DEF Outcome, Typing
<1>5. /\ job[s].occ \in D!Recorded
      /\ job[s].action # "resolved_after_retry"
  BY <1>2 DEF PostInv, Handles
<1>6. created[job[s].occ] <= clock /\ found.began = clock
  BY <1>5, Types DEF D!Recorded, Typing
<1> HIDE DEF j, found
<1> QED
  BY <1>1, <1>2, <1>3, <1>4, <1>5, <1>6, <1>7, SessionKeeps

LEMMA IdleKeeps ==
  ASSUME PostInv, NEW s \in Session, D!Go(s, "idle", D!NoJob),
         UNCHANGED <<about, created, broken, revision, resolutions, clock>>
  PROVE  PostInv'
<1>1. D!NoJob \in Jobs /\ D!NoJob.action = D!None /\ D!NoJob.result = D!NoResult
  BY DEF D!NoJob, Jobs, D!NoResult, D!None
<1>2. clock' \in 0 .. MaxTime /\ clock' \in Nat /\ clock' >= clock
  BY Types DEF Typing
<1>3. Outcome(D!NoResult, clock')
  BY <1>2 DEF Outcome, D!NoResult
<1> QED
  BY <1>1, <1>2, <1>3, SessionKeeps DEF D!None

LEMMA ProofKeeps ==
  ASSUME PostInv, NEW s \in Session, D!Prove(s) \/ D!Confirm(s)
  PROVE  PostInv'
<1>1. /\ job[s] \in Jobs /\ Handles(s) /\ pc[s] \in {"prove", "confirm"}
      /\ UNCHANGED <<about, created, broken, revision, resolutions, clock>>
  BY DEF PostInv, D!Prove, D!Confirm
<1>2. /\ clock' \in 0 .. MaxTime /\ clock' \in Nat /\ clock' >= clock
      /\ Outcome(job[s].result, clock') /\ job[s].occ \in D!Recorded
      /\ created[job[s].occ] <= job[s].result.began /\ job[s].action # "resolved_after_retry"
  BY <1>1, Types DEF Typing, Handles
<1>3. CASE D!Go(s, "idle", D!NoJob)
  BY <1>1, <1>3, IdleKeeps
<1>4. CASE D!Go(s, "confirm", job[s])
  BY <1>1, <1>2, <1>4, SessionKeeps
<1>5. CASE /\ D!Confirm(s) /\ D!Proof(s) # {}
           /\ D!Go(s, "record", [job[s] EXCEPT !.action = "resolved_after_retry"])
  <2> DEFINE j == [job[s] EXCEPT !.action = "resolved_after_retry"]
  <2>1. /\ j \in Jobs /\ j.occ = job[s].occ /\ j.result = job[s].result
        /\ j.action = "resolved_after_retry"
    BY <1>1 DEF Jobs, Action
  <2>2. D!Proves(j.occ, j.result) # {}
    BY <1>5, <2>1 DEF D!Proof
  <2>3. D!Go(s, "record", j)
    BY <1>5
  <2> HIDE DEF j
  <2> QED
    BY <1>1, <1>2, <2>1, <2>2, <2>3, SessionKeeps
<1> QED
  BY <1>3, <1>4, <1>5 DEF D!Prove, D!Confirm

(* A resolution is later than every other record, and one that rests on a  *)
(* retry names the student the occurrence is about.                        *)
LEMMA RecordKeeps ==
  ASSUME PostInv, NEW s \in Session, D!Record(s)
  PROVE  PostInv'
<1> DEFINE j == job[s]
           proof == IF j.action = "resolved_after_retry"
                    THEN D!Token(j.result, CHOOSE a \in D!Proves(j.occ, j.result) : TRUE) ELSE D!NoProof
           new == [occ |-> j.occ, action |-> j.action, at |-> clock + 1, proof |-> proof]
<1>1. /\ job[s] \in Jobs /\ Handles(s) /\ pc[s] = "record" /\ clock' = clock + 1 /\ clock < MaxTime
      /\ resolutions' = resolutions \cup {new} /\ D!Go(s, "idle", D!NoJob)
      /\ UNCHANGED <<about, created, broken, revision>>
  BY DEF PostInv, D!Record, D!Tick
<1>2. /\ clock' \in 0 .. MaxTime /\ clock' \in Nat /\ clock' >= clock /\ clock \in Nat
      /\ j.occ \in D!Recorded /\ D!Recorded' = D!Recorded
  BY <1>1, Types, PostAssumption DEF Typing, Handles, D!Recorded
<1>3. D!TypeOK'
  <2>1. created' \in [Occurrence -> 0 .. clock'] /\ revision' \in [Student -> 0 .. clock']
    BY <1>1, <1>2, Types DEF Typing
  <2>2. pc' \in [Session -> {"idle", "retry", "prove", "confirm", "record"}]
    BY <1>1, Types DEF Typing, D!Go
  <2>3. \A r \in resolutions' : r.occ \in D!Recorded' /\ r.at \in 1 .. clock'
    BY <1>1, <1>2, Types DEF Typing
  <2> QED
    BY <1>1, <1>2, <2>1, <2>2, <2>3, Types DEF Typing, D!TypeOK
<1>4. job' \in [Session -> Jobs]
  <2>1. D!NoJob \in Jobs
    BY DEF D!NoJob, Jobs, D!NoResult, D!None
  <2> QED
    BY <1>1, <2>1 DEF D!Go, PostInv
<1>5. ASSUME NEW t \in Session PROVE Handles(t)'
  <2>1. CASE t = s
    <3>1. job'[s] = D!NoJob /\ pc'[s] = "idle"
      BY <1>1, Types DEF Typing, D!Go
    <3>2. Outcome(D!NoResult, clock') /\ D!NoJob.result = D!NoResult /\ D!NoJob.action = D!None
      BY <1>2 DEF Outcome, D!NoResult, D!NoJob
    <3> QED
      BY <2>1, <3>1, <3>2 DEF Handles, D!None
  <2>2. CASE t # s
    <3>1. job'[t] = job[t] /\ pc'[t] = pc[t]
      BY <1>1, <2>2, Types DEF Typing, D!Go
    <3>2. Handles(t)
      BY DEF PostInv
    <3>3. Outcome(job'[t].result, clock')
      BY <1>2, <3>1, <3>2, Later DEF Handles
    <3>4. D!Proves(job[t].occ, job[t].result)' = D!Proves(job[t].occ, job[t].result)
      BY <1>1, <3>1 DEF D!Proves
    <3> QED
      BY <1>1, <1>2, <3>1, <3>2, <3>3, <3>4 DEF Handles
  <2> QED
    BY <2>1, <2>2
<1>6. ASSUME NEW o \in Occurrence PROVE Resolved(o)'
  <2>1. Resolved(o) /\ created[o] \in 0 .. clock /\ \A r \in D!Of(o) : r.at \in 1 .. clock
    BY Types DEF PostInv, Typing, D!Of
  <2>2. new.occ = j.occ /\ new.at = clock + 1
    OBVIOUS
  <2>3. CASE o # j.occ
    <3>1. D!Of(o)' = D!Of(o)
      BY <1>1, <2>2, <2>3 DEF D!Of
    <3> QED
      BY <1>1, <2>1, <3>1 DEF Resolved
  <2>4. CASE o = j.occ
    <3>1. D!Of(o)' = D!Of(o) \cup {new}
      BY <1>1, <2>2, <2>4 DEF D!Of
    <3>2. \A r \in D!Of(o) \cup {new} : r.at > created[o] /\ r.at <= new.at
      <4>1. \A r \in D!Of(o) : r.at <= clock + 1
        BY <1>2, <2>1
      <4>2. clock + 1 > created[o] /\ clock + 1 <= clock + 1
        BY <1>2, <2>1
      <4> HIDE DEF new
      <4> QED
        BY <2>1, <2>2, <4>1, <4>2 DEF Resolved
    <3> HIDE DEF new
    <3> QED
      BY <1>1, <3>1, <3>2 DEF Resolved
  <2> QED
    BY <2>3, <2>4
<1>7. D!RetryRepaired'
  <2>1. new.action = "resolved_after_retry" =>
          /\ created[new.occ] <= new.proof.began /\ about[new.occ] # D!Nobody
          /\ about[new.occ] \in Student => new.proof.student = about[new.occ]
    <3> SUFFICES ASSUME j.action = "resolved_after_retry"
                 PROVE  /\ created[j.occ] <= proof.began /\ about[j.occ] # D!Nobody
                        /\ about[j.occ] \in Student => proof.student = about[j.occ]
      OBVIOUS
    <3> DEFINE a == CHOOSE a \in D!Proves(j.occ, j.result) : TRUE
    <3>1. created[j.occ] <= j.result.began /\ D!Proves(j.occ, j.result) # {}
      BY <1>1 DEF Handles
    <3>2. a \in D!Proves(j.occ, j.result)
      BY <3>1
    <3>3. j.occ \in Occurrence /\ j.result.assembled \subseteq Student
      BY <1>1, <1>2 DEF D!Recorded, Handles, Outcome
    <3>4. about[j.occ] # D!Nobody /\ (about[j.occ] \in Student => a = about[j.occ])
      BY <3>1, <3>2, <3>3, ProvesOne
    <3>5. proof.began = j.result.began /\ proof.student = a
      BY DEF D!Token
    <3> QED
      BY <3>1, <3>4, <3>5
  <2> HIDE DEF new
  <2> QED
    BY <1>1, <2>1 DEF PostInv, D!RetryRepaired, D!Retried
<1> QED
  BY <1>1, <1>3, <1>4, <1>5, <1>6, <1>7 DEF PostInv

LEMMA PostStep ==
  ASSUME PostInv, [D!Next]_(D!vars)
  PROVE  PostInv'
<1>1. ASSUME NEW s \in Session, D!Leave(s) PROVE PostInv'
  BY <1>1, IdleKeeps DEF D!Leave
<1>2. CASE UNCHANGED D!vars
  <2>1. UNCHANGED <<about, created, broken, revision, resolutions, clock, pc, job>>
    BY <1>2 DEF D!vars
  <2>2. D!Recorded' = D!Recorded /\ D!TypeOK' /\ D!RetryRepaired'
    BY <2>1 DEF D!Recorded, PostInv, D!TypeOK, D!RetryRepaired, D!Retried
  <2>3. ASSUME NEW o \in Occurrence PROVE Resolved(o)'
    BY <2>1 DEF PostInv, Resolved, D!Of
  <2>4. ASSUME NEW s \in Session PROVE Handles(s)'
    BY <2>1, <2>2 DEF PostInv, Handles, D!Proves
  <2> QED
    BY <2>1, <2>2, <2>3, <2>4 DEF PostInv
<1> QED
  BY <1>1, <1>2, SurroundingsKeep, PickKeeps, RetryKeeps, ProofKeeps, RecordKeeps DEF D!Next

(* A resolved occurrence was proved repaired, and one that is hidden was    *)
(* decided about after it was recorded.                                     *)
LEMMA PostTold ==
  ASSUME PostInv
  PROVE  D!RetryRepaired /\ D!LaterFailureStaysOpen
<1>1. ASSUME NEW o \in D!Recorded \ D!Open PROVE \E r \in D!Of(o) : r.at > created[o] /\ r.action # "deferred"
  <2>1. o \in Occurrence /\ D!Of(o) # {} /\ D!Latest(o).action # "deferred"
    BY <1>1 DEF D!Open, D!Recorded
  <2>2. Resolved(o)
    BY <2>1 DEF PostInv
  <2>3. D!Latest(o) \in D!Of(o)
    BY <2>1, <2>2 DEF Resolved, D!Latest
  <2> QED
    BY <2>1, <2>2, <2>3 DEF Resolved
<1> QED
  BY <1>1 DEF PostInv, D!LaterFailureStaysOpen

-----------------------------------------------------------------------------
(***************************************************************************)
(* The plain-paper pair.                                                   *)
(***************************************************************************)
\* The session installed a manifest and has not displaced it.
Owning == {"context", "review", "failed", "guard", "check_review", "check_manifest",
           "displace", "created"}
Owns(s) == pc[s] \in Owning

\* Where the session has not installed a manifest yet, or displaced its own.
Without == {"look_manifest", "look_review", "manifest", "compare", "unlink", "recheck"}

\* A session's manifest is there, or what someone wrote over it, and no other
\* session has one: a manifest is created only where none is.
OneOwner ==
  /\ \A s \in Creator : Owns(s) => manifest \in {s, P!Other}
  /\ \A s, t \in Creator : Owns(s) /\ Owns(t) => s = t

\* Only one session is under the guard.
Holding == {"check_review", "check_manifest", "displace", "compare", "unlink", "recheck", "release"}
HoldsGuard(s) == pc[s] \in Holding => guard = s

\* Where a session's own manifest, and what it displaced, may be.
Places(s) ==
  /\ displaced[s] \in {s, P!Other, P!Nobody}
  /\ pc[s] \notin {"compare", "unlink", "release", "refused", "dead"} => displaced[s] = P!Nobody
  /\ pc[s] = "unlink" => displaced[s] = s
  /\ pc[s] \in Without => manifest # s
  /\ pc[s] = "release" /\ manifest = s => "diagnostic" \in named[s]
  /\ pc[s] = "release" /\ displaced[s] = s => "diagnostic" \in named[s] /\ manifest # P!Nobody
  /\ pc[s] = "refused" /\ "manifest" \notin named[s] => manifest # s /\ displaced[s] # s
  /\ pc[s] = "created" => review = s

PlainParameters == MaxFaults \in Nat /\ P!Nobody \notin Creator /\ P!Other \notin Creator

PlainInv == P!TypeOK /\ OneOwner /\ \A s \in Creator : HoldsGuard(s) /\ Places(s)

-----------------------------------------------------------------------------
(* The types.                                                              *)

LEMMA PlainStart ==
  ASSUME PlainParameters, P!Init
  PROVE  PlainInv
<1>1. faults \in 0 .. MaxFaults
  BY DEF PlainParameters, P!Init
<1>2. P!TypeOK
  BY <1>1 DEF P!Init, P!TypeOK, P!Author, P!Label
<1> QED
  BY <1>2 DEF PlainParameters, P!Init, PlainInv, OneOwner, Owns, Owning, HoldsGuard, Holding,
       Places, Without,
     P!Nobody

\* What a session does.
Acts(s) == P!Create(s) \/ P!Compensate(s) \/ P!Die(s)

(* A session moves itself only.                                            *)
LEMMA OthersAreLeft ==
  ASSUME P!TypeOK, NEW s \in Creator, Acts(s), NEW t \in Creator \ {s}
  PROVE  pc'[t] = pc[t] /\ named'[t] = named[t] /\ displaced'[t] = displaced[t]
<1> USE DEF P!TypeOK, P!Go, P!Refuse, P!GiveUp, P!PutBack
<1>1. CASE P!Create(s)
  BY <1>1 DEF P!Create, P!LookManifest, P!LookReview, P!CreateManifest, P!LoadContext,
       P!CreateReview
<1>2. CASE P!Compensate(s)
  BY <1>2 DEF P!Compensate, P!DecideCompensation, P!TakeGuard, P!CheckReview, P!CheckManifest,
       P!Displace,
     P!Compare, P!Unlink, P!Recheck, P!Release
<1>3. CASE P!Die(s)
  BY <1>3 DEF P!Die
<1> QED
  BY <1>1, <1>2, <1>3 DEF Acts

(* What a refusal names are records.                                       *)
LEMMA RefuseTyped ==
  ASSUME P!TypeOK, NEW s \in Creator, NEW rs \in SUBSET {"manifest", "review", "diagnostic"},
         P!Refuse(s, rs)
  PROVE  /\ named' \in [Creator -> SUBSET {"manifest", "review", "diagnostic"}]
         /\ pc' \in [Creator -> P!Label]
<1>1. named[s] \cup rs \in SUBSET {"manifest", "review", "diagnostic"}
  BY DEF P!TypeOK
<1> QED
  BY <1>1 DEF P!Refuse, P!Go, P!TypeOK, P!Label

LEMMA NextTyped ==
  ASSUME PlainParameters, P!TypeOK, [P!Next]_(P!vars)
  PROVE  P!TypeOK'
<1>1. faults' \in 0 .. MaxFaults
  <2>1. faults \in 0 .. MaxFaults
    BY DEF P!TypeOK
  <2>2. P!Fault \/ UNCHANGED faults
    BY DEF P!Next, P!Create, P!LookManifest, P!LookReview, P!CreateManifest, P!LoadContext,
         P!CreateReview,
       P!Compensate, P!DecideCompensation, P!TakeGuard, P!CheckReview, P!CheckManifest,
       P!Displace, P!Compare,
       P!Unlink, P!Recheck, P!Release, P!Die, P!TeacherLoads, P!TeacherReviews, P!OtherWrites,
       P!vars
  <2> QED
    BY <2>1, <2>2 DEF P!Fault, PlainParameters
<1> DEFINE Rest ==
      /\ manifest \in P!Author /\ review \in P!Author /\ guard \in Creator \cup {P!Nobody}
      /\ displaced \in [Creator -> P!Author] /\ pc \in [Creator -> P!Label]
      /\ named \in [Creator -> SUBSET {"manifest", "review", "diagnostic"}]
      /\ teacher \in {"idle", "loaded", "done"}
<1>2. Rest'
  <2> USE DEF P!TypeOK, P!Author, P!Label, P!Go, P!Refuse, P!GiveUp, P!PutBack
  <2>1. ASSUME NEW s \in Creator, P!Create(s) PROVE Rest'
    <3>1. CASE P!LookManifest(s) \/ P!LookReview(s)
      BY <3>1 DEF P!LookManifest, P!LookReview
    <3>2. CASE P!CreateManifest(s)
      BY <3>2 DEF P!CreateManifest
    <3>3. CASE P!LoadContext(s) \/ P!CreateReview(s)
      BY <3>3 DEF P!LoadContext, P!CreateReview
    <3> QED
      BY <2>1, <3>1, <3>2, <3>3 DEF P!Create
  <2>2. ASSUME NEW s \in Creator, P!Compensate(s) PROVE Rest'
    <3>1. P!Remaining \in SUBSET {"manifest", "review", "diagnostic"}
      BY DEF P!Remaining
    <3>2. CASE P!DecideCompensation(s) \/ P!TakeGuard(s)
      <4>1. ASSUME NEW rs \in SUBSET {"manifest", "review", "diagnostic"}, P!Refuse(s, rs)
            PROVE  /\ named' \in [Creator -> SUBSET {"manifest", "review", "diagnostic"}]
                   /\ pc' \in [Creator -> P!Label]
        BY <4>1, RefuseTyped
      <4>2. named' \in [Creator -> SUBSET {"manifest", "review", "diagnostic"}]
            /\ pc' \in [Creator -> P!Label]
        BY <3>1, <3>2, <4>1 DEF P!DecideCompensation, P!TakeGuard
      <4> QED
        BY <3>2, <4>2 DEF P!DecideCompensation, P!TakeGuard
    <3>7. CASE P!CheckReview(s) \/ P!CheckManifest(s)
      BY <3>7 DEF P!CheckReview, P!CheckManifest
    <3>3. CASE P!Displace(s)
      BY <3>3 DEF P!Displace
    <3>4. CASE P!Compare(s)
      BY <3>4 DEF P!Compare
    <3>5. CASE P!Unlink(s) \/ P!Recheck(s)
      BY <3>5 DEF P!Unlink, P!Recheck
    <3>6. CASE P!Release(s)
      BY <3>1, <3>6 DEF P!Release
    <3> QED
      BY <2>2, <3>2, <3>3, <3>4, <3>5, <3>6, <3>7 DEF P!Compensate
  <2>3. ASSUME NEW s \in Creator, P!Die(s) PROVE Rest'
    BY <2>3 DEF P!Die
  <2>4. CASE P!TeacherLoads \/ P!TeacherReviews \/ P!OtherWrites
    BY <2>4 DEF P!TeacherLoads, P!TeacherReviews, P!OtherWrites
  <2>5. CASE UNCHANGED P!vars
    BY <2>5 DEF P!vars
  <2> QED
    BY <2>1, <2>2, <2>3, <2>4, <2>5 DEF P!Next
<1> QED
  BY <1>1, <1>2 DEF P!TypeOK

-----------------------------------------------------------------------------
(* What a session's step does to the shared records.                       *)

(* A manifest goes only when its owner displaces it, and appears only      *)
(* where none is; a review that is there stays.                            *)
LEMMA RecordSteps ==
  ASSUME PlainParameters, PlainInv, NEW s \in Creator, Acts(s)
  PROVE  /\ manifest' \in {manifest, s, P!Other, P!Nobody}
         /\ manifest' # manifest => manifest = P!Nobody \/ (pc[s] = "displace" /\ guard = s)
         /\ review # P!Nobody => review' = review
<1> USE DEF P!Go, P!Refuse, P!GiveUp
<1>1. displaced[s] \in {s, P!Other, P!Nobody} /\ HoldsGuard(s)
  BY DEF PlainInv, Places
<1>2. CASE P!Create(s)
  BY <1>2 DEF P!Create, P!LookManifest, P!LookReview, P!CreateManifest, P!LoadContext,
       P!CreateReview
<1>3. CASE P!Displace(s)
  BY <1>1, <1>3 DEF P!Displace, HoldsGuard, Holding
<1>4. CASE P!Compare(s)
  BY <1>1, <1>4 DEF P!Compare, P!PutBack
<1>5. CASE P!Compensate(s) /\ ~ (P!Displace(s) \/ P!Compare(s))
  BY <1>5 DEF P!Compensate, P!DecideCompensation, P!TakeGuard, P!CheckReview, P!CheckManifest,
       P!Unlink,
     P!Recheck, P!Release
<1>6. CASE P!Die(s)
  BY <1>6 DEF P!Die
<1> QED
  BY <1>2, <1>3, <1>4, <1>5, <1>6 DEF Acts, P!Compensate

(* The guard is taken when it is free and given back by its holder.        *)
LEMMA GuardSteps ==
  ASSUME PlainInv, NEW s \in Creator, Acts(s)
  PROVE  guard' # guard => guard = P!Nobody \/ guard = s
<1>1. CASE P!Create(s) \/ P!Die(s)
  BY <1>1 DEF P!Create, P!LookManifest, P!LookReview, P!CreateManifest, P!LoadContext,
       P!CreateReview, P!Die
<1>2. CASE P!TakeGuard(s)
  BY <1>2 DEF P!TakeGuard
<1>3. CASE P!Release(s)
  BY <1>3 DEF P!Release, PlainInv, HoldsGuard, Holding
<1>4. CASE P!Compensate(s) /\ ~ (P!TakeGuard(s) \/ P!Release(s))
  BY <1>4 DEF P!Compensate, P!DecideCompensation, P!CheckReview, P!CheckManifest, P!Displace,
       P!Compare,
     P!Unlink, P!Recheck
<1> QED
  BY <1>1, <1>2, <1>3, <1>4 DEF Acts

(* What holds of a session survives the steps of the others.               *)
LEMMA OthersKeep ==
  ASSUME PlainParameters, PlainInv, NEW s \in Creator, Acts(s), NEW t \in Creator \ {s}
  PROVE  /\ HoldsGuard(t)' /\ Places(t)'
         /\ Owns(t) => manifest' \in {t, P!Other} /\ manifest # P!Nobody
         /\ Owns(t)' = Owns(t)
<1>1. pc'[t] = pc[t] /\ named'[t] = named[t] /\ displaced'[t] = displaced[t]
  BY OthersAreLeft DEF PlainInv
<1>2. HoldsGuard(t)'
  BY <1>1, GuardSteps DEF PlainInv, HoldsGuard, PlainParameters
<1>3. Owns(t) => manifest' \in {t, P!Other} /\ manifest # P!Nobody
  <2> SUFFICES ASSUME Owns(t) PROVE manifest' \in {t, P!Other} /\ manifest # P!Nobody
    OBVIOUS
  <2>1. manifest \in {t, P!Other} /\ manifest # P!Nobody
    BY DEF PlainInv, OneOwner, PlainParameters, P!Other, P!Nobody
  <2>2. pc[s] # "displace"
    BY DEF PlainInv, OneOwner, Owns, Owning
  <2> QED
    BY <2>1, <2>2, RecordSteps
<1>4. manifest' = t => manifest = t
  BY RecordSteps DEF PlainParameters
<1>5. pc[t] = "release" /\ manifest # P!Nobody => manifest' # P!Nobody
  BY RecordSteps DEF PlainInv, HoldsGuard, Holding
<1>6. review = t => review' = t
  BY RecordSteps DEF PlainParameters
<1>7. Places(t)'
  BY <1>1, <1>4, <1>5, <1>6 DEF PlainInv, Places
<1> QED
  BY <1>1, <1>2, <1>3, <1>7 DEF Owns

(* What holds of a session survives its own steps; it becomes the owner of *)
(* a manifest only where none was.                                         *)
LEMMA OwnKeep ==
  ASSUME PlainParameters, PlainInv, NEW s \in Creator, Acts(s)
  PROVE  /\ HoldsGuard(s)' /\ Places(s)'
         /\ Owns(s)' => manifest' \in {s, P!Other} /\ (Owns(s) \/ manifest = P!Nobody)
<1> USE DEF PlainParameters, P!Go, HoldsGuard, Holding, Places, Owns, Owning, Without
<1>1. /\ HoldsGuard(s) /\ Places(s) /\ (Owns(s) => manifest \in {s, P!Other})
      /\ s # P!Nobody /\ s # P!Other
      /\ pc \in [Creator -> P!Label] /\ displaced \in [Creator -> P!Author]
      /\ named \in [Creator -> SUBSET {"manifest", "review", "diagnostic"}]
  BY DEF PlainInv, OneOwner, P!TypeOK
<1>2. P!Nobody # P!Other
  BY DEF P!Nobody, P!Other
<1>3. CASE P!LookManifest(s)
  BY <1>1, <1>2, <1>3 DEF P!LookManifest
<1>4. CASE P!LookReview(s)
  BY <1>1, <1>2, <1>4 DEF P!LookReview, P!Refuse
<1>5. CASE P!CreateManifest(s)
  BY <1>1, <1>2, <1>5 DEF P!CreateManifest, P!Refuse
<1>6. CASE P!LoadContext(s)
  BY <1>1, <1>2, <1>6 DEF P!LoadContext
<1>7. CASE P!CreateReview(s)
  BY <1>1, <1>2, <1>7 DEF P!CreateReview
<1>8. CASE P!DecideCompensation(s)
  BY <1>1, <1>2, <1>8 DEF P!DecideCompensation, P!Refuse
<1>9. CASE P!TakeGuard(s)
  BY <1>1, <1>2, <1>9 DEF P!TakeGuard, P!Refuse, P!Remaining
<1>10. CASE P!CheckReview(s)
  BY <1>1, <1>2, <1>10 DEF P!CheckReview, P!GiveUp
<1>11. CASE P!CheckManifest(s)
  BY <1>1, <1>2, <1>11 DEF P!CheckManifest, P!GiveUp
<1>12. CASE P!Displace(s)
  BY <1>1, <1>2, <1>12 DEF P!Displace, P!GiveUp
<1>13. CASE P!Compare(s)
  BY <1>1, <1>2, <1>13 DEF P!Compare, P!GiveUp, P!PutBack
<1>14. CASE P!Unlink(s)
  BY <1>1, <1>2, <1>14 DEF P!Unlink, P!GiveUp
<1>15. CASE P!Recheck(s)
  BY <1>1, <1>2, <1>15 DEF P!Recheck, P!GiveUp
<1>16. CASE P!Release(s)
  BY <1>1, <1>2, <1>16 DEF P!Release, P!Remaining
<1>17. CASE P!Die(s)
  BY <1>1, <1>2, <1>17 DEF P!Die
<1> QED
  BY <1>3, <1>4, <1>5, <1>6, <1>7, <1>8, <1>9, <1>10, <1>11, <1>12, <1>13, <1>14, <1>15, <1>16,
       <1>17 DEF Acts, P!Create, P!Compensate

-----------------------------------------------------------------------------
(* The invariant.                                                          *)

LEMMA SessionsKeep ==
  ASSUME PlainParameters, PlainInv, NEW s \in Creator, Acts(s), P!TypeOK'
  PROVE  PlainInv'
<1>1. \A t \in Creator : HoldsGuard(t)' /\ Places(t)'
  BY OwnKeep, OthersKeep
<1>2. ASSUME NEW t \in Creator, Owns(t)' PROVE manifest' \in {t, P!Other}
  BY <1>2, OwnKeep, OthersKeep
<1>3. ASSUME NEW t \in Creator, NEW u \in Creator, Owns(t)', Owns(u)' PROVE t = u
  <2>1. \A v \in {t, u} : v # s => Owns(v) /\ manifest # P!Nobody
    BY <1>3, OthersKeep
  <2>2. \A v \in {t, u} : v = s => Owns(v) \/ manifest = P!Nobody
    BY <1>3, OwnKeep
  <2> QED
    BY <2>1, <2>2 DEF PlainInv, OneOwner
<1> QED
  BY <1>1, <1>2, <1>3 DEF PlainInv, OneOwner

(* Teachers and scans change records only, and no record to a session's.   *)
LEMMA OutsideKeeps ==
  ASSUME PlainParameters, PlainInv, P!TeacherLoads \/ P!TeacherReviews \/ P!OtherWrites \/ UNCHANGED P!vars, P!TypeOK'
  PROVE  PlainInv'
<1>1. UNCHANGED <<guard, displaced, pc, named>>
  BY DEF P!TeacherLoads, P!TeacherReviews, P!OtherWrites, P!vars
<1>2. /\ manifest' \in {manifest, P!Other}
      /\ review # P!Nobody => review' = review
  BY DEF P!TeacherLoads, P!TeacherReviews, P!OtherWrites, P!vars
<1>3. OneOwner'
  BY <1>1, <1>2 DEF PlainInv, OneOwner, Owns
<1>4. ASSUME NEW s \in Creator PROVE HoldsGuard(s)' /\ Places(s)'
  <2>1. s # P!Nobody /\ s # P!Other /\ P!Nobody # P!Other
    BY DEF PlainParameters, P!Nobody, P!Other
  <2>2. HoldsGuard(s) /\ Places(s)
    BY DEF PlainInv
  <2> QED
    BY <1>1, <1>2, <2>1, <2>2 DEF HoldsGuard, Places
<1> QED
  BY <1>3, <1>4 DEF PlainInv

LEMMA PlainStep ==
  ASSUME PlainParameters, PlainInv, [P!Next]_(P!vars)
  PROVE  PlainInv'
<1>1. P!TypeOK'
  BY NextTyped DEF PlainInv
<1> QED
  BY <1>1, SessionsKeep, OutsideKeeps DEF P!Next, Acts

-----------------------------------------------------------------------------
(* What others wrote.                                                      *)

(* A step moves a foreign manifest at most, and leaves a review alone.     *)
LEMMA StepKeeps ==
  ASSUME PlainParameters, PlainInv, [P!Next]_(P!vars)
  PROVE  P!Keeps
<1> DEFINE Held == {manifest} \cup {displaced[s] : s \in Creator}
<1>1. ASSUME NEW s \in Creator, Acts(s) PROVE P!Keeps
  <2>1. review # P!Nobody => review' = review
    BY <1>1, RecordSteps
  <2>2. /\ displaced \in [Creator -> P!Author] /\ Places(s)
        /\ s # P!Nobody /\ s # P!Other /\ P!Nobody # P!Other
    BY DEF PlainInv, P!TypeOK, PlainParameters, P!Nobody, P!Other
  <2>3. ASSUME P!ForeignManifest PROVE P!Other \in Held'
    <3>1. CASE UNCHANGED <<manifest, displaced>>
      BY <2>3, <3>1 DEF P!ForeignManifest
    <3>2. CASE P!CreateManifest(s) /\ manifest = P!Nobody
      <4>1. PICK t \in Creator : displaced[t] = P!Other
        BY <2>2, <2>3, <3>2 DEF P!ForeignManifest
      <4> QED
        BY <3>2, <4>1 DEF P!CreateManifest
    <3>3. CASE P!Displace(s) /\ manifest # P!Nobody
      <4>1. displaced' = [displaced EXCEPT ![s] = manifest] /\ displaced[s] = P!Nobody
        BY <2>2, <3>3 DEF P!Displace, Places
      <4>2. CASE manifest = P!Other
        BY <2>2, <4>1, <4>2
      <4>3. CASE manifest # P!Other
        <5>1. PICK t \in Creator : displaced[t] = P!Other
          BY <2>3, <4>3 DEF P!ForeignManifest
        <5> QED
          BY <2>2, <4>1, <5>1
      <4> QED
        BY <4>2, <4>3
    <3>4. CASE P!Compare(s) /\ P!PutBack(s) /\ manifest = P!Nobody
      <4>1. manifest' = displaced[s] /\ displaced' = [displaced EXCEPT ![s] = P!Nobody]
        BY <3>4 DEF P!PutBack
      <4>2. PICK t \in Creator : displaced[t] = P!Other
        BY <2>2, <2>3, <3>4 DEF P!ForeignManifest
      <4> QED
        BY <2>2, <4>1, <4>2
    <3>5. CASE P!Unlink(s)
      <4>1. manifest' = manifest /\ displaced' = [displaced EXCEPT ![s] = P!Nobody] /\ displaced[s] = s
        BY <2>2, <3>5 DEF P!Unlink, Places
      <4>2. CASE manifest = P!Other
        BY <4>1, <4>2
      <4>3. CASE manifest # P!Other
        <5>1. PICK t \in Creator : displaced[t] = P!Other
          BY <2>3, <4>3 DEF P!ForeignManifest
        <5> QED
          BY <2>2, <4>1, <5>1
      <4> QED
        BY <4>2, <4>3
    <3>6. CASE P!Create(s) /\ ~ (P!CreateManifest(s) /\ manifest = P!Nobody)
      BY <3>1, <3>6 DEF P!Create, P!LookManifest, P!LookReview, P!CreateManifest, P!LoadContext,
           P!CreateReview
    <3>7. CASE P!Displace(s) /\ manifest = P!Nobody
      BY <3>1, <3>7 DEF P!Displace
    <3>8. CASE P!Compare(s) /\ ~ (P!PutBack(s) /\ manifest = P!Nobody)
      BY <3>1, <3>8 DEF P!Compare, P!PutBack
    <3>9. CASE P!Compensate(s) /\ ~ (P!Displace(s) \/ P!Compare(s) \/ P!Unlink(s))
      BY <3>1, <3>9 DEF P!Compensate, P!DecideCompensation, P!TakeGuard, P!CheckReview,
           P!CheckManifest,
         P!Recheck, P!Release
    <3>10. CASE P!Die(s)
      BY <3>1, <3>10 DEF P!Die
    <3> QED
      BY <1>1, <3>2, <3>3, <3>4, <3>5, <3>6, <3>7, <3>8, <3>9, <3>10 DEF Acts, P!Compensate
  <2> QED
    BY <2>1, <2>3 DEF P!Keeps
<1>2. CASE P!TeacherLoads \/ P!TeacherReviews \/ UNCHANGED P!vars
  BY <1>2 DEF P!TeacherLoads, P!TeacherReviews, P!vars, P!Keeps, P!ForeignManifest
<1>3. CASE P!OtherWrites
  BY <1>3 DEF P!OtherWrites, P!Keeps
<1> QED
  BY <1>1, <1>2, <1>3 DEF P!Next, Acts

(* A creation that failed and names no manifest has left none of its own,  *)
(* and a created pair has no other owner who could take it back.           *)
LEMMA PlainTold ==
  ASSUME PlainParameters, PlainInv
  PROVE  P!SilentMeansGone /\ P!CreatedStays
<1>1. P!SilentMeansGone
  BY DEF PlainInv, Places, P!SilentMeansGone
<1>2. P!CreatedStays
  BY DEF PlainInv, Places, OneOwner, Owns, Owning, P!CreatedStays, PlainParameters, P!Nobody,
       P!Other
<1> QED
  BY <1>1, <1>2

-----------------------------------------------------------------------------
(***************************************************************************)
(* All components.                                                         *)
(***************************************************************************)

MCInv ==
  /\ component \in {"intake", "recovery", "postdispatch", "plain"}
  /\ component = "intake" => IntakeInv
  /\ component = "recovery" => RecoveryInv
  /\ component = "postdispatch" => PostInv
  /\ component = "plain" => PlainInv

LEMMA Constants == MaxDecisions \in Nat /\ PlainParameters
BY MCScanAssumption DEF PlainParameters, P!Nobody, P!Other

LEMMA MCStart == Init => MCInv
<1> SUFFICES ASSUME Init PROVE MCInv
  OBVIOUS
<1>1. CASE component = "intake" /\ I!Init
  BY <1>1, IntakeStart DEF MCInv
<1>2. CASE component = "recovery" /\ R!Init
  BY <1>2, Constants, RecoveryStart DEF MCInv
<1>3. CASE component = "postdispatch" /\ D!Init
  BY <1>3, PostStart DEF MCInv
<1>4. CASE component = "plain" /\ P!Init
  BY <1>4, Constants, PlainStart DEF MCInv
<1> QED
  BY <1>1, <1>2, <1>3, <1>4 DEF Init

(* Each step is one of the component's own.                                *)
LEMMA OneComponent ==
  ASSUME [Next]_all
  PROVE  /\ component' = component
         /\ component = "intake" => [I!Next]_(I!vars)
         /\ component = "recovery" => [R!Next]_(R!vars)
         /\ component = "postdispatch" => [D!Next]_(D!vars)
         /\ component = "plain" => [P!Next]_(P!vars)
<1>1. CASE Next
  BY <1>1 DEF Next
<1>2. CASE UNCHANGED all
  BY <1>2 DEF all, intake, recovery, postdispatch, plain, I!vars, I!durable, I!memory, R!vars,
     D!vars, P!vars
<1> QED
  BY <1>1, <1>2

LEMMA MCStep == MCInv /\ [Next]_all => MCInv'
<1> SUFFICES ASSUME MCInv, [Next]_all PROVE MCInv'
  OBVIOUS
<1>1. component = "intake" => IntakeInv'
  BY OneComponent, IntakeStep DEF MCInv
<1>2. component = "recovery" => RecoveryInv'
  BY OneComponent, Constants, RecoveryStep DEF MCInv
<1>3. component = "postdispatch" => PostInv'
  BY OneComponent, PostStep DEF MCInv
<1>4. component = "plain" => PlainInv'
  BY OneComponent, Constants, PlainStep DEF MCInv
<1> QED
  BY <1>1, <1>2, <1>3, <1>4, OneComponent DEF MCInv

LEMMA MCAlways == Spec => []MCInv
BY MCStart, MCStep, PTL DEF Spec

(* The variables of all components keep their types.                       *)
THEOREM TypeCorrect == Spec => []TypeOK
<1>1. MCInv => TypeOK
  BY DEF MCInv, IntakeInv, Typed, RecoveryInv, PostInv, PlainInv, TypeOK
<1> QED
  BY <1>1, MCAlways, PTL

(* However its steps fail or die: when an intake of a folder ends, each    *)
(* sheet that was retained is in a submission, was handed over, or its     *)
(* failure is on record or named by the result (intake_scans,              *)
(* assemble_dispatched_pages).                                             *)
THEOREM NoSheetIsLost == Spec => []SheetsAccounted
<1>1. MCInv => SheetsAccounted
  BY IntakeTold DEF MCInv, SheetsAccounted
<1> QED
  BY <1>1, MCAlways, PTL

(* A completed recovery's page stays in a submission, a failure stays      *)
(* known until a retry repaired it, and a plain-paper pair is never taken  *)
(* apart (scan_recovery_completion, post_dispatch_review_resolution,       *)
(* plain_paper_submission).                                                *)
THEOREM RecordsStand == Spec => []WhatIsRecordedStands
<1>1. MCInv => WhatIsRecordedStands
  BY Constants, RecoveryTold, PostTold, PlainTold DEF MCInv, WhatIsRecordedStands
<1> QED
  BY <1>1, MCAlways, PTL

(* A later decision is never superseded by an earlier one written after    *)
(* it, no recovery overrides a teacher, and no compensation loses what     *)
(* someone else wrote.                                                     *)
THEOREM DecisionsStand == Spec => NothingIsOverridden
<1>1. MCInv /\ [Next]_all =>
        [/\ component = "recovery" => R!InOrder /\ R!Defers
         /\ component = "plain" => P!Keeps]_all
  <2> SUFFICES ASSUME MCInv, [Next]_all
               PROVE  /\ component = "recovery" => R!InOrder /\ R!Defers
                      /\ component = "plain" => P!Keeps
    OBVIOUS
  <2>1. component = "recovery" => R!InOrder /\ R!Defers
    BY OneComponent, Constants, RecoveryStep DEF MCInv
  <2>2. component = "plain" => P!Keeps
    BY OneComponent, Constants, StepKeeps DEF MCInv
  <2> QED
    BY <2>1, <2>2
<1> QED
  BY <1>1, MCAlways, PTL DEF Spec, NothingIsOverridden
=============================================================================
