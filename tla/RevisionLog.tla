----------------------------- MODULE RevisionLog -----------------------------
(***************************************************************************)
(* What the producer's manifest history promises those who publish from    *)
(* it (docs/publication_revision_policy.md names it the producer history): *)
(* revisions are immutable, each new one stands above every present one,   *)
(* and unless it was asked for after a withdrawal it says something its    *)
(* predecessor does not.  Somebody with access to the directory may remove *)
(* a revision; nothing rewrites one.                                       *)
(***************************************************************************)
EXTENDS Integers

CONSTANTS Content,   \* what a revision may say
          Bound      \* bound on revision numbers

VARIABLES log,       \* revision -> content, of the revisions present
          reasons    \* revision -> why it was created

logVars == <<log, reasons>>

Revision == 1 .. Bound
IsHead(n) == n \in DOMAIN log /\ \A m \in DOMAIN log : m <= n

Init == log = <<>> /\ reasons = <<>>

\* The reason tells first, forced, repeated and new contents apart.
Explains(reason, c) ==
  /\ reason = "initial_publication" <=> DOMAIN log = {}
  /\ reason # "republication_after_withdrawal" =>
       /\ \A n \in DOMAIN log : IsHead(n) => log[n] # c
       /\ reason = "historical_reversion" <=> \E n \in DOMAIN log : log[n] = c

Reason == {"initial_publication", "native_source_changed", "publication_projection_changed",
           "historical_reversion", "republication_after_withdrawal"}

Add(n, c) ==
  /\ log' = [m \in DOMAIN log \cup {n} |-> IF m = n THEN c ELSE log[m]]
  /\ \E reason \in Reason :
       /\ Explains(reason, c)
       /\ reasons' = [m \in DOMAIN log \cup {n} |-> IF m = n THEN reason ELSE reasons[m]]

Remove(n) ==
  /\ log' = [m \in DOMAIN log \ {n} |-> log[m]]
  /\ reasons' = [m \in DOMAIN log \ {n} |-> reasons[m]]

Next ==
  \/ \E n \in Revision :
       /\ \A m \in DOMAIN log : m < n
       /\ \E c \in Content : Add(n, c)
  \/ \E n \in DOMAIN log : Remove(n)

Spec == Init /\ [][Next]_logVars
=============================================================================
