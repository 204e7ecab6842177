---------------------------- MODULE MCStateFiles -----------------------------
(* Instances of StateFiles for TLC.                                        *)
EXTENDS StateFiles, TLC

CONSTANTS i1, i2, i3, n1, n2

\* "foo:bar" and "foo.bar" share a name.
Colliding == (i1 :> n1) @@ (i2 :> n1) @@ (i3 :> n2)

\* No two ids do.
Distinct == (i1 :> n1) @@ (i2 :> n2) @@ (i3 :> n2)

\* One process runs every command.
OneProcess == (1 :> {"import", "import only", "sync", "prune"}) @@ (2 :> {})

\* A sync loads while another process imports or prunes.
Beside == (1 :> {"sync"}) @@ (2 :> {"import only", "prune"})

\* Local files in either layout under one process.
Exact ==
  [ids |-> {i1, i2, i3}, safe |-> Colliding, commands |-> OneProcess,
   layouts |-> {TRUE, FALSE}, switched |-> FALSE, local |-> TRUE,
   versions |-> 2]

\* A bucket that is written and pruned while it is loaded.
Steady ==
  [ids |-> {i1, i2}, safe |-> Distinct, commands |-> Beside,
   layouts |-> {TRUE, FALSE}, switched |-> FALSE, local |-> FALSE,
   versions |-> 1]

TwoModes == {Exact, Steady}
=============================================================================
