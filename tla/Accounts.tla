------------------------------ MODULE Accounts ------------------------------
(***************************************************************************)
(* Users and the teams they sit in, copied by one migration after another: *)
(* model/users.py and model/team_memberships.py, with the parts of the     *)
(* import, the cleanup and the apply that call them.  Teams are mapped     *)
(* already and stand for their counterparts; so are roles, unless Roles is *)
(* composed with this.                                                     *)
(*                                                                         *)
(* A user has one handle for life, which is also its id here.  The         *)
(* destination gives a new account the email it is created with as its     *)
(* handle; deleting an account there disables it.  Unlike an account, a    *)
(* seat that is found in the destination is passed over, not adopted.      *)
(* What another handler does to the same account or seat is not            *)
(* interleaved with a handler: no two of them share one.                   *)
(***************************************************************************)
EXTENDS Naturals, FiniteSets

CONSTANTS
  None,    \* no account, no seat, no email other than the handle
  User, Team, Role, Level, Email,
  Starts,  \* what the two organizations may hold at first, and what is spent
  Limits   \* how many edits, passes and faults there are

Seat    == [user : User, team : Team]
Account == [enabled : BOOLEAN, email : Email \cup {None}, roles : SUBSET Role]
Seats   == [Seat -> Level \cup {None}]
Spent   == [{"edits", "passes", "faults"} -> Nat]
Start   == [source : [User -> Account], seats : Seats,
            accounts : [User -> Account \cup {None}], holds : Seats,
            spent : Spent]

ASSUME AccountsAssumption ==
  /\ None \notin Account \cup Level \cup Email
  /\ User \cap Seat = {} /\ "users" \notin Team
  /\ Starts \subseteq Start
  /\ Limits \in Spent

VARIABLES
  source, seats,     \* the source organization
  accounts, holds,   \* the destination organization
  records, tracked,  \* state.destination["users"], ["team_memberships"]
  saved,             \* the destination file, both types
  imported, rows,    \* state.source["users"], ["team_memberships"]
  known, seated,     \* Users and TeamMemberships._existing_resources_map
  pc,                \* "idle", "list", "clean", "map", "apply" or "dump"
  cleanup,           \* --cleanup
  todo,              \* what is left of the phase
  spent,             \* how much of Limits is used
  clean,             \* no fault in this pass
  whole,             \* every team was read to its end in this pass
  gone,              \* accounts and seats the source was without at some time
  made,              \* seats the tool gave
  byHand,            \* seats that someone gave or took in the destination
  unsure             \* accounts and seats whose entry may be behind

orgVars   == <<source, seats, accounts, holds>>
stateVars == <<records, tracked, saved>>
readVars  == <<imported, rows, known, seated>>
ghostVars == <<gone, made, byHand, unsure>>
vars == <<orgVars, stateVars, readVars, pc, cleanup, todo, spent, clean, whole,
          ghostVars>>

Vacant == [s \in Seat |-> None]
Absent == [u \in User |-> None]

Present(f) == {x \in DOMAIN f : f[x] # None}

Init ==
  /\ \E s \in Starts : /\ source = s.source /\ seats = s.seats
                       /\ accounts = s.accounts /\ holds = s.holds
                       /\ spent = s.spent
  /\ records = Absent /\ tracked = Vacant
  /\ saved = [users |-> Absent, seats |-> Vacant]
  /\ imported = Absent /\ rows = Vacant /\ known = Absent /\ seated = Vacant
  /\ pc = "idle" /\ cleanup = FALSE /\ todo = {}
  /\ clean = TRUE /\ whole = TRUE
  /\ gone = {u \in User : ~source[u].enabled} \cup (Seat \ Present(seats))
  /\ made = {} /\ byHand = {} /\ unsure = {}

Spend(what) == /\ spent[what] < Limits[what]
               /\ spent' = [spent EXCEPT ![what] = @ + 1]

\* A request is answered, refused, or carried out with its answer lost.
Answer == {"ok", "refused", "lost"}
Done(a) == a \in {"ok", "lost"}

\* A handler with a request that fails is a fault.
Charge(fails) == IF fails THEN Spend("faults") /\ clean' = FALSE
                          ELSE UNCHANGED <<spent, clean>>

-----------------------------------------------------------------------------
(* The organizations.  The source is edited while the tool still has to    *)
(* read it; what comes later is for the next pass.                         *)

\* The account is enabled or disabled, or has another email or one role changed.
Edits(a) == {b \in Account :
               \/ [b EXCEPT !.enabled = a.enabled] = a
               \/ [b EXCEPT !.email = a.email] = a
               \/ \E r \in Role : /\ [b EXCEPT !.roles = a.roles] = a
                                  /\ a.roles \ {r} = b.roles \ {r}}

EditUser(u, a) ==
  /\ pc = "idle" /\ a \in Edits(source[u]) \ {source[u]} /\ Spend("edits")
  /\ source' = [source EXCEPT ![u] = a]
  /\ gone' = IF a.enabled THEN gone ELSE gone \cup {u}
  /\ UNCHANGED <<seats, accounts, holds, stateVars, readVars, pc, cleanup, todo,
                 clean, whole, made, byHand, unsure>>

EditSeat(s, l) ==
  /\ pc \in {"idle", "list"} /\ l # seats[s] /\ Spend("edits")
  /\ seats' = [seats EXCEPT ![s] = l]
  /\ gone' = IF l # None THEN gone ELSE gone \cup {s}
  /\ UNCHANGED <<source, accounts, holds, stateVars, readVars, pc, cleanup,
                 todo, clean, whole, made, byHand, unsure>>

\* Someone gives, changes or takes a seat of an account in the destination.
EditByHand(s, l) ==
  /\ l # holds[s] /\ accounts[s.user] # None /\ Spend("edits")
  /\ holds' = [holds EXCEPT ![s] = l]
  /\ byHand' = byHand \cup {s}
  /\ UNCHANGED <<source, seats, accounts, stateVars, readVars, pc, cleanup,
                 todo, clean, whole, gone, made, unsure>>

-----------------------------------------------------------------------------
(* The import.                                                             *)

\* Users.import_resource skips the users that are disabled.
Listed == [u \in User |-> IF source[u].enabled THEN source[u] ELSE None]

Begin ==
  /\ pc = "idle" /\ Spend("passes")
  /\ cleanup' \in BOOLEAN
  /\ imported' = Listed
  /\ pc' = "list" /\ todo' = Team
  /\ UNCHANGED <<orgVars, stateVars, rows, known, seated, clean, whole, ghostVars>>

\* _fetch_memberships_for_team_paginated, read by get_resources: the rows of the
\* pages before an error are kept and the error is only logged.
Fetched(org, into, team, cut) ==
  [s \in Seat |-> IF s.team # team THEN into[s]
                  ELSE IF s \in cut THEN None ELSE org[s]]

Cuts(org, team) == SUBSET {s \in Present(org) : s.team = team}

ListTeam(t) ==
  /\ pc = "list" /\ t \in todo
  /\ \E cut \in Cuts(seats, t) :
       /\ rows' = Fetched(seats, rows, t, cut)
       /\ whole' = (whole /\ cut = {})
       /\ Charge(cut # {})
  /\ todo' = todo \ {t}
  /\ UNCHANGED <<orgVars, stateVars, imported, known, seated, pc, cleanup,
                 ghostVars>>

\* get_resources_to_cleanup.
Orphans == (Present(records) \ Present(imported))
           \cup (Present(tracked) \ Present(rows))

EndImport ==
  /\ pc = "list" /\ todo = {}
  /\ pc' = "clean"
  /\ todo' = IF cleanup THEN Orphans ELSE {}
  /\ UNCHANGED <<orgVars, stateVars, readVars, cleanup, spent, clean, whole,
                 ghostVars>>

-----------------------------------------------------------------------------
(* The cleanup.                                                            *)

DeleteUser(u) ==
  /\ pc = "clean" /\ u \in todo \cap User
  /\ \E a \in Answer :
       /\ Charge(a # "ok")
       /\ accounts' = IF Done(a) THEN [accounts EXCEPT ![u].enabled = FALSE]
                                 ELSE accounts
       /\ records' = IF a = "ok" THEN [records EXCEPT ![u] = None] ELSE records
       /\ unsure' = IF a = "lost" THEN unsure \cup {u} ELSE unsure
  /\ todo' = todo \ {u}
  /\ UNCHANGED <<source, seats, holds, tracked, saved, readVars, pc, cleanup,
                 whole, gone, made, byHand>>

\* A seat that is not there answers 404, which keeps the entry.
DeleteSeat(s) ==
  /\ pc = "clean" /\ s \in todo \cap Seat
  /\ \E a \in Answer :
       /\ holds[s] = None => a = "refused"
       /\ Charge(a # "ok" /\ holds[s] # None)
       /\ holds' = IF Done(a) THEN [holds EXCEPT ![s] = None] ELSE holds
       /\ tracked' = IF a = "ok" THEN [tracked EXCEPT ![s] = None] ELSE tracked
       /\ unsure' = IF a = "lost" THEN unsure \cup {s} ELSE unsure
  /\ todo' = todo \ {s}
  /\ UNCHANGED <<source, seats, accounts, records, saved, readVars, pc, cleanup,
                 whole, gone, made, byHand>>

EndCleanup ==
  /\ pc = "clean" /\ todo = {}
  /\ pc' = "map" /\ todo' = Team \cup {"users"}
  /\ UNCHANGED <<orgVars, stateVars, readVars, cleanup, spent, clean, whole,
                 ghostVars>>

-----------------------------------------------------------------------------
(* map_existing_resources, once, before anything is applied.               *)

\* A failure is logged and leaves the map empty.
MapUsers ==
  /\ pc = "map" /\ "users" \in todo
  /\ \/ known' = accounts /\ UNCHANGED <<spent, clean>>
     \/ known' = known /\ Charge(TRUE)
  /\ todo' = todo \ {"users"}
  /\ UNCHANGED <<orgVars, stateVars, imported, rows, seated, pc, cleanup, whole,
                 ghostVars>>

MapTeam(t) ==
  /\ pc = "map" /\ t \in todo
  /\ \E cut \in Cuts(holds, t) :
       /\ seated' = Fetched(holds, seated, t, cut)
       /\ Charge(cut # {})
  /\ todo' = todo \ {t}
  /\ UNCHANGED <<orgVars, stateVars, imported, rows, known, pc, cleanup, whole,
                 ghostVars>>

EndMap ==
  /\ pc = "map" /\ todo = {}
  /\ pc' = "apply" /\ todo' = Present(imported) \cup Present(rows)
  /\ UNCHANGED <<orgVars, stateVars, readVars, cleanup, spent, clean, whole,
                 ghostVars>>

-----------------------------------------------------------------------------
(* Users.                                                                  *)

\* The PATCH of a user has no relationships.
Patched(account, want) ==
  [account EXCEPT !.enabled = want.enabled, !.email = want.email]

WithRoles(account, roles) == [account EXCEPT !.roles = @ \cup roles]

\* (X_... is a faulty variant of X that a property below catches: here a role that
\* was refused is entered as well.)
Recorded_Wanted(base, given, want) == WithRoles(base, want.roles)

\* _assign_missing_roles: the entry has each role whose POST was answered.
Recorded(base, given, want) == WithRoles(base, given)

\* update_resource: each missing role is given, or not, or given with the answer
\* lost; then comes the PATCH, unless an error that is not an HTTP answer cut the
\* roles short.  Its answer tells the roles of the account, or none.
Update(u, base) ==
  LET want    == imported[u]
      missing == want.roles \ base.roles
  IN  \E taken \in SUBSET missing : \E given \in SUBSET taken :
      \E a \in Answer \cup {"unsent"} :
        /\ a = "unsent" => given # missing
        /\ Charge(a # "ok" \/ given # missing)
        /\ LET now    == WithRoles(accounts[u], taken)
               after  == IF Done(a) THEN Patched(now, want) ELSE now
               entry  == Recorded(base, given, want)
           IN  /\ accounts' = [accounts EXCEPT ![u] = after]
               /\ \E told \in {{}, after.roles} :
                    records' = [records EXCEPT ![u] =
                      IF a = "ok" THEN WithRoles(Patched(entry, want), told)
                                  ELSE entry]
        /\ unsure' = IF a = "lost" THEN unsure \cup {u} ELSE unsure

\* create_resource: the handle goes as the email, and the email in a second call;
\* the entry is kept when only that one fails.  An account with the handle, which
\* an empty map does not tell of, is a conflict.
Create(u) ==
  LET want  == imported[u]
      first == [want EXCEPT !.email = None]
  IN  \/ /\ accounts[u] # None
         /\ UNCHANGED <<accounts, records, spent, clean, unsure>>
      \/ /\ accounts[u] = None
         /\ \E a, b \in Answer :
              /\ a # "ok" \/ want.email = None => b = "ok"
              /\ Charge(a # "ok" \/ b # "ok")
              /\ accounts' = [accounts EXCEPT ![u] =
                   CASE a = "refused"         -> None
                     [] a = "lost" \/ ~Done(b) -> first
                     [] OTHER                  -> want]
              /\ records' = [records EXCEPT ![u] =
                   CASE a # "ok" -> None
                     [] b # "ok" -> first
                     [] OTHER    -> want]
              /\ unsure' = IF b = "lost" THEN unsure \cup {u} ELSE unsure

\* An account that is found is not compared with what it should be.
Adopt_AsIs(u) ==
  /\ records' = [records EXCEPT ![u] = known[u]]
  /\ UNCHANGED <<accounts, spent, clean, unsure>>

Same(u, base) ==
  /\ imported[u] = base
  /\ records' = [records EXCEPT ![u] = base]
  /\ UNCHANGED <<accounts, spent, clean, unsure>>

\* An account whose handle is in the map becomes the entry and is updated.
Adopt(u) == \/ Same(u, known[u])
            \/ imported[u] # known[u] /\ Update(u, known[u])

ApplyUser(u) ==
  /\ pc = "apply" /\ u \in todo \cap User
  /\ \/ records[u] # None /\ Same(u, records[u])
     \/ records[u] # None /\ imported[u] # records[u] /\ Update(u, records[u])
     \/ records[u] = None /\ known[u] # None /\ Adopt(u)
     \/ records[u] = None /\ known[u] = None /\ Create(u)
  /\ todo' = todo \ {u}
  /\ UNCHANGED <<source, seats, holds, tracked, saved, readVars, pc, cleanup,
                 whole, gone, made, byHand>>

-----------------------------------------------------------------------------
(* Team memberships.                                                       *)

SeatUnchanged == UNCHANGED <<holds, tracked, spent, clean, made, unsure>>

\* The request of a create or of an update.
Send(s, fits) ==
  IF ~fits THEN SeatUnchanged  \* 409 or 404
  ELSE \E a \in Answer :
         /\ Charge(a # "ok")
         /\ holds' = IF Done(a) THEN [holds EXCEPT ![s] = rows[s]] ELSE holds
         /\ tracked' = IF a = "ok" THEN [tracked EXCEPT ![s] = rows[s]]
                                   ELSE tracked
         /\ made' = IF Done(a) THEN made \cup {s} ELSE made
         /\ unsure' = IF a = "lost" /\ tracked[s] # None THEN unsure \cup {s}
                                                         ELSE unsure

\* A seat that is found becomes the entry.
PassOver_Tracked(s) ==
  /\ tracked' = [tracked EXCEPT ![s] = seated[s]]
  /\ UNCHANGED <<holds, spent, clean, made, unsure>>

\* SkipResource: the state is left as it is.
PassOver(s) == SeatUnchanged

CreateSeat(s) == \/ seated[s] # None /\ PassOver(s)
                 \/ seated[s] = None /\ Send(s, holds[s] = None)

\* update_resource: the entry is compared with the seat that was found, not with
\* the source's.
UpdateSeat(s) == \/ seated[s] = None /\ CreateSeat(s)
                 \/ seated[s] = tracked[s] /\ SeatUnchanged
                 \/ /\ seated[s] \notin {None, tracked[s]}
                    /\ Send(s, holds[s] # None)

ApplySeat(s) ==
  /\ pc = "apply" /\ s \in todo \cap Seat
  /\ s.user \notin todo
  /\ \/ records[s.user] = None /\ SeatUnchanged  \* ResourceConnectionError
     \/ records[s.user] # None /\ tracked[s] = rows[s] /\ SeatUnchanged
     \/ /\ records[s.user] # None /\ tracked[s] \notin {None, rows[s]}
        /\ UpdateSeat(s)
     \/ records[s.user] # None /\ tracked[s] = None /\ CreateSeat(s)
  /\ todo' = todo \ {s}
  /\ UNCHANGED <<source, seats, accounts, records, saved, readVars, pc, cleanup,
                 whole, gone, byHand>>

EndApply ==
  /\ pc = "apply" /\ todo = {}
  /\ pc' = "dump"
  /\ UNCHANGED <<orgVars, stateVars, readVars, cleanup, todo, spent, clean,
                 whole, ghostVars>>

-----------------------------------------------------------------------------
(* The end of a pass, and of its process.                                  *)

Exit ==
  /\ imported' = Absent /\ rows' = Vacant /\ known' = Absent /\ seated' = Vacant
  /\ pc' = "idle" /\ cleanup' = FALSE /\ todo' = {}
  /\ clean' = TRUE /\ whole' = TRUE
  /\ UNCHANGED orgVars

Save == /\ saved' = [users |-> records, seats |-> tracked]
        /\ UNCHANGED <<records, tracked, ghostVars>>

Dump ==
  /\ pc = "dump"
  /\ Save /\ Exit
  /\ UNCHANGED spent

\* ^C, which dumps the state.
Interrupt ==
  /\ pc \notin {"idle", "dump"} /\ Spend("faults")
  /\ Save /\ Exit

\* The process dies: the next one has the files of the last dump.
Crash ==
  /\ pc # "idle" /\ Spend("faults")
  /\ Exit
  /\ records' = saved.users /\ tracked' = saved.seats
  /\ unsure' = unsure
               \cup {u \in User : saved.users[u] \notin {None, records[u]}}
               \cup {s \in Seat : saved.seats[s] \notin {None, tracked[s]}}
  /\ UNCHANGED <<saved, gone, made, byHand>>

Next ==
  \/ \E u \in User : \E a \in Account : EditUser(u, a)
  \/ \E s \in Seat : \E l \in Level \cup {None} : EditSeat(s, l) \/ EditByHand(s, l)
  \/ Begin \/ EndImport \/ EndCleanup \/ EndMap \/ EndApply
  \/ MapUsers
  \/ \E t \in Team : ListTeam(t) \/ MapTeam(t)
  \/ \E u \in User : DeleteUser(u) \/ ApplyUser(u)
  \/ \E s \in Seat : DeleteSeat(s) \/ ApplySeat(s)
  \/ Dump \/ Interrupt \/ Crash

Spec == Init /\ [][Next]_vars

-----------------------------------------------------------------------------
(* Properties.                                                             *)

\* Every variable keeps its type.
TypeOK ==
  /\ source \in [User -> Account] /\ {seats, holds, tracked, rows, seated} \subseteq Seats
  /\ {accounts, records, imported, known} \subseteq [User -> Account \cup {None}]
  /\ saved \in [users : [User -> Account \cup {None}], seats : Seats]
  /\ pc \in {"idle", "list", "clean", "map", "apply", "dump"}
  /\ {cleanup, clean, whole} \subseteq BOOLEAN
  /\ todo \subseteq IF pc = "map" THEN Team \cup {"users"}
                                  ELSE User \cup Seat \cup Team
  /\ spent \in Spent
  /\ {gone, unsure} \subseteq SUBSET (User \cup Seat)
  /\ {made, byHand} \subseteq SUBSET Seat

\* A pass in which no request failed leaves every user that it read with an
\* enabled account that has the user's email and roles, however the passes before
\* it ended, and every seat that it read of a user it knows taken.  Entries that
\* a lost answer or a crash left behind, and seats others took, are exempt.
AccountsReach ==
  pc = "dump" /\ clean =>
    /\ \A u \in Present(imported) \ unsure :
         /\ accounts[u] # None
         /\ Patched(accounts[u], imported[u]) = accounts[u]
         /\ imported[u].roles \subseteq accounts[u].roles
    /\ \A s \in Present(rows) \ (unsure \cup byHand) :
         records[s.user] # None => holds[s] # None

\* What the state has of a user is never ahead of the destination: the account
\* exists and has every role of the entry, which is what a later update leaves
\* out.
RolesAreHeld ==
  \A u \in Present(records) :
    accounts[u] # None /\ records[u].roles \subseteq accounts[u].roles

\* A pass takes a seat only if the tool gave it and the source has been without it
\* since, and disables an account only of a user who has been disabled, provided
\* every team was read to its end.
OnlyDroppedIsTaken ==
  [][whole /\ spent'.edits = spent.edits =>
       /\ Present(holds) \ Present(holds') \subseteq made \cap gone
       /\ \A u \in Present(accounts) :
            accounts[u].enabled /\ ~accounts'[u].enabled => u \in gone]_vars
=============================================================================
