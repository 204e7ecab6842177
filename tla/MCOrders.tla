------------------------------ MODULE MCOrders ------------------------------
(* Instances of Orders for TLC.                                            *)
EXTENDS Orders, TLC

CONSTANTS a, b, x

AllKinds == Kind

\* Cleanup with missing items tolerated, and neither.
TwoOptions == {<<TRUE, TRUE>>, <<FALSE, FALSE>>}

\* A custom pipeline, and one of an integration or one that cannot be created.
TwoClasses == {(a :> "custom") @@ (b :> c) : c \in {"integration", "invalid"}}
=============================================================================
