------------------------- MODULE MCCleanupResources -------------------------
(* Instances of CleanupResources for TLC.                                  *)
EXTENDS CleanupResources, TLC

CONSTANTS r1, r2, r3, w1, w2

MCType == {"serial", "free"}
MCTypeOf == (r1 :> "serial") @@ (r2 :> "free") @@ (r3 :> "serial")

\* A chain, a fork, a join, one reference, none, and a cycle.
MCGraphs ==
  {(r1 :> {}) @@ (r2 :> {r1}) @@ (r3 :> {r2}),
   (r1 :> {}) @@ (r2 :> {r1}) @@ (r3 :> {r1}),
   (r1 :> {}) @@ (r2 :> {}) @@ (r3 :> {r1, r2}),
   (r1 :> {}) @@ (r2 :> {r1}) @@ (r3 :> {}),
   (r1 :> {}) @@ (r2 :> {}) @@ (r3 :> {}),
   (r1 :> {r2}) @@ (r2 :> {r1}) @@ (r3 :> {})}

\* Ids that both orgs share.
SharedIds == [r \in Resource |-> r]
=============================================================================
