--------------------------- MODULE TopologicalSort ---------------------------
(***************************************************************************)
(* graphlib.TopologicalSorter, the standard-library object the handler     *)
(* builds with init_topological_sorter and shares between three readers:   *)
(* the feeder (run_sorter, run_cleanup_sorter), the worker callbacks and   *)
(* the cancel worker's thread.  It is modelled from the way                *)
(* utils/resources_handler.py calls it: prepare, get_ready, done and       *)
(* is_active.                                                              *)
(*                                                                         *)
(* A graph maps a node to the set of its predecessors; "deps" gives it as  *)
(* a function, "nodes" is the set of all nodes mentioned in it.  The three *)
(* counters of the sorter are kept as the sets they count:                 *)
(*   taken     nodes that left _ready_nodes in a get_ready                 *)
(*   counted   nodes included in _npassedout                               *)
(*   finished  nodes included in _nfinished                                *)
(* There is no recursion: a graph is cyclic when some non-empty set of     *)
(* nodes has no member without a predecessor in the set.                   *)
(***************************************************************************)

\* The nodes of a graph given by the dependencies of its keys: a dependency
\* that is not a key itself (a "phantom" node) is a node with no predecessor.
NodesOf(keys, deps) == keys \cup UNION {deps[k] : k \in keys}

\* prepare() raises CycleError.
IsCyclic(nodes, deps) ==
  \E S \in (SUBSET nodes) \ {{}} : \A n \in S : deps[n] \cap S # {}

\* The content of _ready_nodes: done() appends a node when its last
\* predecessor finishes, get_ready() empties the list.
ReadyNodes(nodes, deps, taken, finished) ==
  {n \in nodes \ taken : deps[n] \subseteq finished}

\* is_active(): _nfinished < _npassedout or bool(_ready_nodes).
IsActive(counted, finished, ready) ==
  \/ ~(counted \subseteq finished)
  \/ ready # {}
=============================================================================
