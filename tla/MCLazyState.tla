----------------------------- MODULE MCLazyState -----------------------------
(* Instances of LazyState for TLC: a user and a role, a monitor that is    *)
(* restricted to both by one list, a composite monitor that is restricted  *)
(* to each by a list of its own, a dashboard on the monitor.               *)
EXTENDS LazyState, TLC

CONSTANTS user, role, monitor, dashboard, composite

Types4 == (user :> "users") @@ (role :> "roles") @@ (monitor :> "monitors")
          @@ (composite :> "monitors") @@ (dashboard :> "dashboards")

\* One process per type, as an orchestrator starts them.
PerType == (user :> 1) @@ (role :> 1) @@ (monitor :> 2) @@ (dashboard :> 3) @@ (composite :> 2)

\* One process over every type.
OneProc == [r \in {user, role, monitor, dashboard, composite} |-> 1]

References ==
  (user :> {}) @@ (role :> {}) @@ (monitor :> {user, role})
  @@ (dashboard :> {monitor}) @@ (composite :> {user, role, monitor})

AccessLists ==
  (user :> {}) @@ (role :> {}) @@ (monitor :> {{user, role}})
  @@ (dashboard :> {}) @@ (composite :> {{user}, {role}})

\* Processes that run one after the other.
InSequence ==
  [scope |-> PerType, principals |-> {}, drop |-> FALSE,
   skipFailed |-> FALSE, refuses |-> FALSE, refresh |-> FALSE, cleanup |-> FALSE,
   overlap |-> FALSE]

\* Processes that load while others run, and refresh.
Refreshed == [InSequence EXCEPT !.overlap = TRUE, !.refresh = TRUE]

\* One process that cleans up, and processes that resolve principals late, drop
\* them, and do not mind what fails.
CleanedUp == [InSequence EXCEPT !.scope = OneProc, !.cleanup = TRUE]
ResolvedLate == [InSequence EXCEPT !.principals = {user, role}]
Dropping == [ResolvedLate EXCEPT !.drop = TRUE, !.refuses = TRUE]
DroppingCleanup == [Dropping EXCEPT !.scope = OneProc, !.cleanup = TRUE]
DroppingRefreshed == [Dropping EXCEPT !.overlap = TRUE, !.refresh = TRUE]
Forgiving == [Dropping EXCEPT !.skipFailed = TRUE]

AllModes == {InSequence, Refreshed, CleanedUp, ResolvedLate, Dropping,
             DroppingCleanup, DroppingRefreshed, Forgiving}
=============================================================================
