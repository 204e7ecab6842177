-------------------------- MODULE MCApplyResources --------------------------
(* Instances of ApplyResources for TLC.                                    *)
EXTENDS ApplyResources, TLC

CONSTANTS r1, r2, r3, r4, w1, w2

\* References that name the state key of their target.
StateKeys == [r \in Resource |-> r]

\* Every connected graph on r1, r2 and r3 in which a resource refers to earlier
\* ones only, one with a resource apart, and a cycle.
Apart == [r \in Resource |-> {}]
Acyclic3 ==
  {(r2 :> {r1}) @@ (r3 :> b) @@ Apart : b \in {{r1}, {r2}, {r1, r2}}}
  \cup {(r3 :> b) @@ Apart : b \in {{r2}, {r1, r2}}}
Cyclic3 == {(r1 :> {r2}) @@ (r2 :> {r1}) @@ (r3 :> {r1}) @@ Apart}
Graphs == Acyclic3 \cup Cyclic3 \cup {Apart}

\* r1 and r3 are of a serial type, r2 and r4 of a type capped at one request.
MCType == {"serial", "capped"}
MCTypeOf == (r1 :> "serial") @@ (r3 :> "serial")
              @@ (r2 :> "capped") @@ (r4 :> "capped")
MCMaxConcurrent == ("serial" :> 0) @@ ("capped" :> 1)

\* Everything is loaded, the destination is read again late, and a thread switch
\* may fall inside a sorter call.
Full == [resourcesArg |-> MCType, minimizeReads |-> FALSE, skipFailed |-> FALSE,
         refresh |-> TRUE, gilYields |-> TRUE]

\* The type of r2 is out of scope, and only a part of the state is loaded.
Scoped == [resourcesArg |-> {"serial"}, minimizeReads |-> TRUE,
           skipFailed |-> TRUE, refresh |-> FALSE, gilYields |-> FALSE]

\* A plain pass.
Plain == [resourcesArg |-> MCType, minimizeReads |-> FALSE, skipFailed |-> FALSE,
          refresh |-> FALSE, gilYields |-> FALSE]

AllModes == {Full, Scoped, Plain}

\* In a plain pass four resources, none of which refers to another, contend for
\* the lock of the one type and for the slot of the other.  In the other modes r4
\* does not exist.
MCInit ==
  /\ Init
  /\ (mode = Plain) <=> (refs = Apart)
  /\ IF mode = Plain
       THEN srcFile = Resource /\ destFile = {} /\ filtered = {}
       ELSE r4 \notin srcFile \cup destFile

MCSpec == MCInit /\ [][Next]_vars /\ Fairness
=============================================================================
