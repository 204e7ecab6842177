---------------------------- MODULE OrderedApply ----------------------------
(***************************************************************************)
(* What one sync pass promises, without the sorter, the queue and the      *)
(* workers: once a plan (a dependency graph) is fixed, each resource is    *)
(* begun at most once and only when its dependencies are settled, the      *)
(* destination gains only resources that are being applied, and the pass   *)
(* closes only when everything is settled.                                 *)
(***************************************************************************)
CONSTANT Resource

VARIABLES
  planned,   \* the plan is fixed
  nodes,     \* the resources of the plan
  deps,      \* their dependencies
  applying,  \* resources that are being applied
  settled,   \* resources whose outcome is known
  dest,      \* resources with a counterpart in the destination
  closed     \* the pass is over

vars == <<planned, nodes, deps, applying, settled, dest, closed>>

Init ==
  /\ planned = FALSE
  /\ nodes \subseteq Resource
  /\ deps \in [Resource -> SUBSET Resource]
  /\ applying = {} /\ settled = {}
  /\ dest \subseteq Resource
  /\ closed = FALSE

\* The plan and what is known of the destination are revised until the plan
\* is fixed; what is known to exist stays known.
Plan ==
  /\ ~planned
  /\ nodes' \subseteq Resource
  /\ deps' \in [Resource -> SUBSET Resource]
  /\ dest \subseteq dest' /\ dest' \subseteq Resource
  /\ planned' \in BOOLEAN
  /\ UNCHANGED <<applying, settled, closed>>

\* n may be begun.
Startable(n) == /\ n \in nodes \ (applying \cup settled)
                /\ deps[n] \subseteq settled

Begin(n) ==
  /\ planned /\ ~closed
  /\ Startable(n)
  /\ applying' = applying \cup {n}
  /\ UNCHANGED <<planned, nodes, deps, settled, dest, closed>>

\* Some resources are settled without being applied.
PassOver(S) ==
  /\ planned /\ ~closed
  /\ \A n \in S : Startable(n)
  /\ settled' = settled \cup S
  /\ UNCHANGED <<planned, nodes, deps, applying, dest, closed>>

Store(n) ==
  /\ n \in applying
  /\ dest' = dest \cup {n}
  /\ UNCHANGED <<planned, nodes, deps, applying, settled, closed>>

Settle(n) ==
  /\ n \in applying
  /\ applying' = applying \ {n}
  /\ settled' = settled \cup {n}
  /\ UNCHANGED <<planned, nodes, deps, dest, closed>>

Close ==
  /\ planned /\ applying = {} /\ nodes \subseteq settled
  /\ closed' = TRUE
  /\ UNCHANGED <<planned, nodes, deps, applying, settled, dest>>

Next ==
  \/ Plan
  \/ \E n \in Resource : Begin(n) \/ Store(n) \/ Settle(n)
  \/ \E S \in SUBSET Resource : PassOver(S)
  \/ Close

Spec == Init /\ [][Next]_vars
=============================================================================
