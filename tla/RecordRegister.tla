--------------------------- MODULE RecordRegister ---------------------------
(***************************************************************************)
(* What quillan/atomic_record_io.py promises its callers about one         *)
(* canonical record: a compare-and-swap register.  A call is given the     *)
(* revision its caller loaded; at one moment, while that revision is       *)
(* current, it installs its bytes; and its answer tells the truth about    *)
(* what it did.  A process that dies, or cannot undo a displacement, may   *)
(* leave the record missing, but never without the displaced revision      *)
(* still being in the directory.                                           *)
(***************************************************************************)
CONSTANTS Writer,   \* the operating-system processes that call the module
          Content,  \* the byte strings a record may hold
          Absent    \* no such file

VARIABLES reg,      \* the current revision of the record
          aside,    \* revisions that left-over displaced files hold
          stage,    \* Writer -> "none", "open" (called) or "applied"
          seen,     \* Writer -> the revision its call was given
          new,      \* Writer -> the bytes its call wants to install
          reply     \* Writer -> the answer of its last call

regVars == <<reg, aside, stage, seen, new, reply>>

Success == {"created", "updated"}
Refusal == {"conflict", "failed"}
NoInstall == {"unchanged", "stale_lock"}
Reply == Success \cup Refusal \cup NoInstall \cup {"durable", "interrupted"}

Init ==
  /\ reg \in Content \cup {Absent}
  /\ aside = {}
  /\ stage = [w \in Writer |-> "none"]
  /\ seen = [w \in Writer |-> Absent]
  /\ new = [w \in Writer |-> Absent]
  /\ reply = [w \in Writer |-> "none"]

Call(w) ==
  /\ stage[w] = "none"
  /\ stage' = [stage EXCEPT ![w] = "open"]
  /\ seen' = [seen EXCEPT ![w] = reg]
  /\ \E c \in Content : new' = [new EXCEPT ![w] = c]
  /\ reply' = [reply EXCEPT ![w] = "none"]
  /\ UNCHANGED <<reg, aside>>

\* The one moment the call takes effect: the revision it saw is current.
Apply(w) ==
  /\ stage[w] = "open"
  /\ reg = seen[w]
  /\ reg' = new[w]
  /\ stage' = [stage EXCEPT ![w] = "applied"]
  /\ UNCHANGED <<aside, seen, new, reply>>

Hang(w) ==
  /\ stage' = [stage EXCEPT ![w] = "none"]
  /\ seen' = [seen EXCEPT ![w] = Absent]
  /\ new' = [new EXCEPT ![w] = Absent]

\* A success or "durable" says the call took effect, a refusal that it did not.
Answer(w) ==
  /\ stage[w] # "none"
  /\ \E r \in Reply :
       /\ r \in Success \cup {"durable"} => stage[w] = "applied"
       /\ r \in Refusal => stage[w] = "open"
       /\ r \in NoInstall => stage[w] = "open" /\ seen[w] = new[w]
       /\ reply' = [reply EXCEPT ![w] = r]
  /\ Hang(w)
  /\ UNCHANGED <<reg, aside>>

\* A displaced file is left behind; if it held the current revision, that
\* revision is now only there.
Leave ==
  /\ \E c \in Content : aside' = aside \cup {c}
  /\ reg' \in {reg, Absent}
  /\ reg' # reg => reg \in aside'

Abandon(w) == stage[w] # "none" /\ Leave /\ UNCHANGED <<stage, seen, new, reply>>

Die(w) ==
  /\ stage[w] # "none"
  /\ Leave \/ UNCHANGED <<reg, aside>>
  /\ Hang(w)
  /\ UNCHANGED reply

Next == \E w \in Writer : Call(w) \/ Apply(w) \/ Answer(w) \/ Abandon(w) \/ Die(w)

Spec == Init /\ [][Next]_regVars
=============================================================================
