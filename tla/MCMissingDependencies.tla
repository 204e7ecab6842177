------------------------ MODULE MCMissingDependencies ------------------------
(* Instances of MissingDependencies for TLC.                               *)
EXTENDS MissingDependencies, TLC

CONSTANTS r1, r2, r3, r4, p2, p4, w1, w2

\* r2 and r4 are tests, which references name by their public ids.
PublicId == [r \in Resource |-> CASE r = r2 -> p2 [] r = r4 -> p4 [] OTHER -> r]

\* Graphs with a chain, cycles through r1 or r3, which are known by their keys,
\* and tests that refer to each other or, r2, to themselves.
AllGraphs == {g \in [Resource -> SUBSET Resource] :
                /\ g[r1] \subseteq {r2, r3}
                /\ g[r2] \in SUBSET {r2, r3} \cup SUBSET {r3, r4}
                /\ g[r3] \subseteq {r1, r2}
                /\ g[r4] \subseteq {r2}}
=============================================================================
