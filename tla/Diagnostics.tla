----------------------------- MODULE Diagnostics -----------------------------
(***************************************************************************)
(* The workspace's log of diagnostic events (quillan/diagnostic_events.py):*)
(* one immutable file per event, created exclusively, and after each       *)
(* creation a pruning that removes the oldest valid events over the limit. *)
(* Every workflow may record an event at any time, so that prunings run at *)
(* once, each from its own listing of the directory; files are damaged by  *)
(* hand; a process dies anywhere.  Events are numbered in the order of     *)
(* their occurred_at, which is taken before the file is written.           *)
(***************************************************************************)
EXTENDS Naturals, FiniteSets

CONSTANTS
  Writer,    \* processes that record events
  Limit,     \* DEFAULT_EVENT_RETENTION_LIMIT
  MaxEvents  \* bound on the events built

VARIABLES
  log,      \* the events whose file is in the directory
  spoilt,   \* those of them that no longer load as an event
  written,  \* history: events ever installed
  outcomes, \* event -> what its writer was told
  pc, job   \* writer -> its next step, its event and its prune candidates

vars == <<log, spoilt, written, outcomes, pc, job>>

Event == 1 .. MaxEvents
Steps == {"idle", "create", "list", "read", "remove", "unlink"}
Outcomes == {"none", "open", "recorded", "degraded", "failed", "uncertain"}

NoJob == [event |-> 0, found |-> {}]

Init ==
  /\ log = {} /\ spoilt = {} /\ written = {}
  /\ outcomes = [e \in Event |-> "none"]
  /\ pc = [w \in Writer |-> "idle"] /\ job = [w \in Writer |-> NoJob]

Go(w, step) == pc' = [pc EXCEPT ![w] = step]

\* The attempt ends; whatever happened, the caller's own outcome stands.
Attempted(w, outcome) ==
  /\ Go(w, "idle") /\ job' = [job EXCEPT ![w] = NoJob]
  /\ outcomes' = [outcomes EXCEPT ![job[w].event] = outcome]

\* Events that load: list_diagnostic_events shows them, and only they are pruned.
Valid == log \ spoilt

\* The n oldest of a set, by occurred_at.
Oldest(S, n) == {e \in S : Cardinality({f \in S : f <= e}) <= n}

\* build_diagnostic_event takes the next time stamp.
Build(w) ==
  /\ pc[w] = "idle"
  /\ \E e \in Event :
       /\ \A f \in Event : f < e <=> outcomes[f] # "none"
       /\ outcomes' = [outcomes EXCEPT ![e] = "open"]
       /\ job' = [job EXCEPT ![w] = [NoJob EXCEPT !.event = e]]
  /\ Go(w, "create")
  /\ UNCHANGED <<log, spoilt, written>>

\* The event is installed.
Create(w) ==
  /\ pc[w] = "create"
  /\ log' = log \cup {job[w].event} /\ written' = written \cup {job[w].event}
  /\ Go(w, "list")
  /\ UNCHANGED <<spoilt, outcomes, job>>

\* It may be installed and the write cannot tell: nothing is pruned.
CreateUncertain(w) ==
  /\ pc[w] = "create"
  /\ log' = log \cup {job[w].event} /\ written' = written \cup {job[w].event}
  /\ Attempted(w, "uncertain")
  /\ UNCHANGED spoilt

CreateFails(w) ==
  /\ pc[w] = "create" /\ Attempted(w, "failed")
  /\ UNCHANGED <<log, spoilt, written>>

-----------------------------------------------------------------------------
(* _prune_retention *)

List(w) ==
  /\ pc[w] = "list" /\ Go(w, "read")
  /\ job' = [job EXCEPT ![w].found = log]
  /\ UNCHANGED <<log, spoilt, written, outcomes>>

\* Mutant: the overflow is counted over everything listed, and taken from it.
OverflowOfListed(w) ==
  Oldest(job[w].found \cap Valid, Cardinality(job[w].found) - Limit)

\* What was listed and still loads, less the newest Limit of it.
Overflow(w) ==
  LET candidates == job[w].found \cap Valid
  IN Oldest(candidates, Cardinality(candidates) - Limit)

Read(w) ==
  /\ pc[w] = "read" /\ Go(w, "remove")
  /\ job' = [job EXCEPT ![w].found = Overflow(w)]
  /\ UNCHANGED <<log, spoilt, written, outcomes>>

NextOldest(w) == CHOOSE e \in job[w].found : \A f \in job[w].found : e <= f

\* The next candidate still holds the bytes that were read.
Look(w) ==
  /\ pc[w] = "remove" /\ job[w].found # {} /\ NextOldest(w) \in Valid
  /\ Go(w, "unlink")
  /\ UNCHANGED <<log, spoilt, written, outcomes, job>>

Unlink(w) ==
  /\ pc[w] = "unlink" /\ NextOldest(w) \in log
  /\ log' = log \ {NextOldest(w)} /\ spoilt' = spoilt \ {NextOldest(w)}
  /\ job' = [job EXCEPT ![w].found = @ \ {NextOldest(w)}]
  /\ Go(w, "remove")
  /\ UNCHANGED <<written, outcomes>>

\* A candidate is gone or changed, or the file system refuses: the pruning
\* stops, and what is left to remove stays.
Degraded(w) ==
  /\ pc[w] \in {"list", "remove", "unlink"} /\ Attempted(w, "degraded")
  /\ UNCHANGED <<log, spoilt, written>>

Recorded(w) ==
  /\ pc[w] = "remove" /\ job[w].found = {} /\ Attempted(w, "recorded")
  /\ UNCHANGED <<log, spoilt, written>>

Die(w) ==
  /\ pc[w] # "idle" /\ Go(w, "idle") /\ job' = [job EXCEPT ![w] = NoJob]
  /\ UNCHANGED <<log, spoilt, written, outcomes>>

\* An event file is edited by hand.
Spoil(e) ==
  /\ e \in Valid /\ spoilt' = spoilt \cup {e}
  /\ UNCHANGED <<log, written, outcomes, pc, job>>

Next ==
  \/ \E e \in Event : Spoil(e)
  \/ \E w \in Writer :
       \/ Build(w) \/ Create(w) \/ CreateUncertain(w) \/ CreateFails(w) \/ List(w)
       \/ Read(w) \/ Look(w) \/ Unlink(w) \/ Degraded(w) \/ Recorded(w) \/ Die(w)

Spec == Init /\ [][Next]_vars

-----------------------------------------------------------------------------
(* Properties *)

\* Type invariant.
TypeOK ==
  /\ log \subseteq written /\ written \subseteq Event /\ spoilt \subseteq log
  /\ outcomes \in [Event -> Outcomes] /\ pc \in [Writer -> Steps]
  /\ \A w \in Writer : job[w].event \in {0} \cup Event /\ job[w].found \subseteq Event

\* However many prunings run at once, the newest Limit events ever installed are
\* all in the log: a pruning never takes more than is over the limit.
NewestAreKept ==
  \A e \in written :
    Cardinality({f \in written : f >= e}) <= Limit => e \in log

\* When nobody is recording, more valid events than the limit are there only if
\* some writer was told that its record or its pruning is uncertain, or died.
OverLimitIsTold ==
  (\A w \in Writer : pc[w] = "idle") /\ Cardinality(Valid) > Limit =>
    \E e \in Event : outcomes[e] \in {"degraded", "uncertain", "open"}
=============================================================================
