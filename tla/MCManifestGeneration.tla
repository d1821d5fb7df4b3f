------------------------ MODULE MCManifestGeneration ------------------------
(* A small instance of ManifestGeneration for TLC.                         *)
EXTENDS ManifestGeneration, FiniteSets, TLC

\* Sessions run the same code; only their identity distinguishes them.
Symmetry == Permutations(Session)

\* Only one session has generated so far.
Alone == Cardinality({s \in Session : pc[s] # "idle" \/ result[s] # "none"}) <= 1

\* Bound: three revisions, one of them removed by hand, while one session
\* generates; two revisions and no removal once two sessions did.
Revisions == Alone' \/ (consumed' \subseteq 1 .. 2 /\ removals' = 0)

\* The caller hears the truth about what was installed, and about what was left
\* in the directory.
NothingUnsaid == TruthfulResult /\ LeftoversReported
=============================================================================
