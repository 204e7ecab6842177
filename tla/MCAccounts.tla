----------------------------- MODULE MCAccounts -----------------------------
(* Instances of Accounts, with Roles, for TLC.                             *)
EXTENDS Roles, TLC

CONSTANTS ann, bob

On(email, roles)  == [enabled |-> TRUE, email |-> email, roles |-> roles]
Off(email, roles) == [enabled |-> FALSE, email |-> email, roles |-> roles]
Pair(x, y) == [u \in User |-> IF u = ann THEN x ELSE y]
In(x, y)   == [s \in Seat |-> IF s.user = ann THEN x ELSE y]

Nothing == [edits |-> 0, passes |-> 0, faults |-> 0]

\* Nobody there yet; and an account and a seat that others made there, of a user
\* that is disabled in the source.
Strangers ==
  {[source |-> Pair(On("post", {"admin", "viewer"}), On(None, {"viewer"})), seats |-> In("lead", "member"),
    accounts |-> Absent, holds |-> Vacant, spent |-> Nothing],
   [source |-> Pair(On(None, {"admin"}), Off("post", {})), seats |-> In("member", "member"),
    accounts |-> Pair(On("post", {"viewer"}), None), holds |-> In("lead", None), spent |-> Nothing]}

\* One user, whose roles have more to bring.
OfRoles == [source |-> Pair(On(None, {"viewer"}), Off(None, {})), seats |-> Vacant,
            accounts |-> Absent, holds |-> Vacant, spent |-> [Nothing EXCEPT !.passes = 1, !.edits = 1]]

AllStarts == Strangers \cup {OfRoles}

Named(a, v, g) == [r \in Role |-> CASE r = "admin" -> a [] r = "viewer" -> v [] OTHER -> g]

\* The roles of the strangers agree; the others are to be created, or adopted and
\* changed, with permissions that the destination lacks, leaves out or takes for
\* invalid.
RolesOfStarts == [s \in AllStarts |->
  IF s \in Strangers
    THEN {[source |-> Named({"read"}, {"read"}, None), dest |-> Named({"read"}, {"read"}, None), edited |-> {}]}
    ELSE {[source |-> Named({"read", "audit"}, {"read", "beta"}, None),
           dest |-> Named({"write"}, None, None), edited |-> {"viewer"}],
          [source |-> Named({"read", "write"}, {"write"}, {"read"}),
           dest |-> Named({"read"}, {"read", "beta"}, {"read", "write"}), edited |-> {"viewer"}]}]

Bounds == [edits |-> 2, passes |-> 3, faults |-> 1]
=============================================================================
