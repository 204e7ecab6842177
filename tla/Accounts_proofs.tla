-------------------------- MODULE Accounts_proofs --------------------------
(* Proofs of RolesAreHeld and AccountsReach, of Accounts alone and with      *)
(* Roles, of DiffsConverge and RolesReach, and of OnlyDroppedIsTaken, for    *)
(* any users, roles, permissions and teams, any start and any number of      *)
(* edits, passes and faults.                                                 *)
EXTENDS Roles, TLAPS

Entries == [User -> Account \cup {None}]

\* No entry of f is ahead of its account.
Held(f) ==
  \A u \in User : f[u] # None =>
    accounts[u] # None /\ f[u].roles \subseteq accounts[u].roles

\* The variables that hold accounts keep their types.
UsersOK ==
  /\ source \in [User -> Account]
  /\ {accounts, records, imported, known, saved.users} \subseteq Entries

\* What is known of seats is known of seats only.
SeatsOK == /\ DOMAIN tracked = Seat /\ DOMAIN rows = Seat
           /\ DOMAIN saved.seats = Seat

\* A user that is to be deleted has an entry, one that is to be applied was read.
TodoOK ==
  \A u \in todo \cap User : /\ pc = "clean" => records[u] # None
                            /\ pc = "apply" => imported[u] # None

\* The entries of a later pass come from the file and from the map, so these must
\* not be ahead either.
AccountsInv ==
  /\ UsersOK /\ SeatsOK /\ TodoOK
  /\ Held(records) /\ Held(known) /\ Held(saved.users)

\* An account that is there stays, with its roles.
Grows ==
  \A u \in User : accounts[u] # None =>
    accounts'[u] # None /\ accounts[u].roles \subseteq accounts'[u].roles

\* What is held stays so as long as accounts grow.
LEMMA StaysHeld ==
  ASSUME Grows, NEW f, Held(f)
  PROVE  \A u \in User : f[u] # None =>
           accounts'[u] # None /\ f[u].roles \subseteq accounts'[u].roles
  BY DEF Grows, Held

\* Adding roles to an account, and patching it, gives an account with the roles.
LEMMA RolesAdded ==
  ASSUME NEW a \in Account, NEW rs \in SUBSET Role
  PROVE  /\ WithRoles(a, rs) \in Account
         /\ WithRoles(a, rs).roles = a.roles \cup rs
  BY DEF WithRoles, Account

LEMMA PatchKeepsRoles ==
  ASSUME NEW a \in Account, NEW b \in Account
  PROVE  Patched(a, b) \in Account /\ Patched(a, b).roles = a.roles
  BY DEF Patched, Account

\* What a handler of u leaves: accounts that grew, and an entry that is held.
Handled(u) ==
  /\ {accounts, records}' \subseteq Entries
  /\ Grows
  /\ \A v \in User \ {u} : records'[v] = records[v]
  /\ records'[u] # None =>
       accounts'[u] # None /\ records'[u].roles \subseteq accounts'[u].roles

\* update_resource enters no role that was not given.
LEMMA UpdateHandles ==
  ASSUME UsersOK, NEW u \in User, NEW base \in Account, imported[u] # None,
         accounts[u] # None, base.roles \subseteq accounts[u].roles, Update(u, base)
  PROVE  Handled(u)
<1> DEFINE want == imported[u]
<1>1. want \in Account /\ accounts[u] \in Account /\ None \notin Account
  BY AccountsAssumption DEF UsersOK, Entries
<1>2. PICK taken \in SUBSET (want.roles \ base.roles) :
        \E given \in SUBSET taken : \E a \in Answer \cup {"unsent"} :
          LET now   == WithRoles(accounts[u], taken)
              after == IF Done(a) THEN Patched(now, want) ELSE now
              entry == Recorded(base, given, want)
          IN  /\ accounts' = [accounts EXCEPT ![u] = after]
              /\ \E told \in {{}, after.roles} :
                   records' = [records EXCEPT ![u] =
                     IF a = "ok" THEN WithRoles(Patched(entry, want), told) ELSE entry]
  BY DEF Update
<1>3. PICK given \in SUBSET taken, a \in Answer \cup {"unsent"} :
        LET now   == WithRoles(accounts[u], taken)
            after == IF Done(a) THEN Patched(now, want) ELSE now
            entry == Recorded(base, given, want)
        IN  /\ accounts' = [accounts EXCEPT ![u] = after]
            /\ \E told \in {{}, after.roles} :
                 records' = [records EXCEPT ![u] =
                   IF a = "ok" THEN WithRoles(Patched(entry, want), told) ELSE entry]
  BY <1>2
<1> DEFINE now   == WithRoles(accounts[u], taken)
           after == IF Done(a) THEN Patched(now, want) ELSE now
           entry == Recorded(base, given, want)
<1>4. PICK told \in {{}, after.roles} :
        records' = [records EXCEPT ![u] =
          IF a = "ok" THEN WithRoles(Patched(entry, want), told) ELSE entry]
  BY <1>3
<1>5. accounts' = [accounts EXCEPT ![u] = after]
  BY <1>3
<1>6. taken \subseteq Role /\ given \subseteq Role
  BY <1>1 DEF Account
<1>7. now \in Account /\ now.roles = accounts[u].roles \cup taken
  BY <1>1, <1>6, RolesAdded
<1>8. after \in Account /\ after.roles = now.roles
  BY <1>1, <1>7, PatchKeepsRoles
<1>9. entry \in Account /\ entry.roles = base.roles \cup given
  BY <1>6, RolesAdded DEF Recorded
<1>10. Patched(entry, want) \in Account /\ Patched(entry, want).roles = entry.roles
  BY <1>1, <1>9, PatchKeepsRoles
<1>11. told \subseteq after.roles /\ told \subseteq Role
  BY <1>4, <1>8 DEF Account
<1>12. /\ WithRoles(Patched(entry, want), told) \in Account
       /\ WithRoles(Patched(entry, want), told).roles = entry.roles \cup told
  BY <1>10, <1>11, RolesAdded
<1> DEFINE new == IF a = "ok" THEN WithRoles(Patched(entry, want), told) ELSE entry
<1>13. new \in Account /\ new.roles \subseteq after.roles
  BY <1>7, <1>8, <1>9, <1>11, <1>12
<1>14. records' = [records EXCEPT ![u] = new]
  BY <1>4
<1>15. accounts[u].roles \subseteq after.roles
  BY <1>7, <1>8
<1> HIDE DEF new, after
<1>16. {accounts, records}' \subseteq Entries
  BY <1>5, <1>8, <1>13, <1>14 DEF UsersOK, Entries
<1>17. Grows
  BY <1>1, <1>5, <1>8, <1>15 DEF Grows, UsersOK, Entries
<1>18. accounts'[u] = after /\ records'[u] = new
  BY <1>5, <1>14 DEF UsersOK, Entries
<1>19. \A v \in User \ {u} : records'[v] = records[v]
  BY <1>14 DEF UsersOK, Entries
<1>20. QED BY <1>1, <1>8, <1>13, <1>16, <1>17, <1>18, <1>19 DEF Handled

\* create_resource: the account is created with the roles of the user.
LEMMA CreateHandles ==
  ASSUME UsersOK, NEW u \in User, imported[u] # None, records[u] = None, Create(u)
  PROVE  Handled(u)
<1> DEFINE want == imported[u]  first == [want EXCEPT !.email = None]
<1>1. want \in Account /\ None \notin Account
  BY AccountsAssumption DEF UsersOK, Entries
<1>2. first \in Account /\ first.roles = want.roles
  BY <1>1 DEF Account
<1>3. CASE UNCHANGED <<accounts, records>>
  BY <1>3 DEF Handled, Grows, UsersOK
<1>4. CASE accounts[u] = None /\ ~ UNCHANGED <<accounts, records>>
  <2>1. PICK a \in Answer, b \in Answer :
          /\ a # "ok" => b = "ok"
          /\ accounts' = [accounts EXCEPT ![u] =
               CASE a = "refused"          -> None
                 [] a = "lost" \/ ~Done(b) -> first
                 [] OTHER                  -> want]
          /\ records' = [records EXCEPT ![u] =
               CASE a # "ok" -> None
                 [] b # "ok" -> first
                 [] OTHER    -> want]
    BY <1>4 DEF Create
  <2> DEFINE x == accounts'[u]  y == records'[u]
  <2>2. /\ x \in {None, first, want} /\ y \in {None, first, want}
        /\ y # None => x # None
        /\ accounts' = [accounts EXCEPT ![u] = x]
        /\ records' = [records EXCEPT ![u] = y]
    BY <1>1, <1>2, <2>1 DEF Answer, Done, UsersOK, Entries
  <2> HIDE DEF x, y, first
  <2>3. {accounts, records}' \subseteq Entries
    BY <1>1, <1>2, <2>2 DEF UsersOK, Entries
  <2>4. Grows
    BY <1>4, <2>2 DEF Grows, UsersOK, Entries
  <2>5. \A v \in User \ {u} : records'[v] = records[v]
    BY <2>2 DEF UsersOK, Entries
  <2>6. y # None => x # None /\ y.roles \subseteq x.roles
    BY <1>1, <1>2, <2>2
  <2>7. QED BY <2>3, <2>4, <2>5, <2>6 DEF Handled, x, y
<1>5. QED BY <1>3, <1>4 DEF Create

\* After the handler of u the invariant holds again.
LEMMA HandledInv ==
  ASSUME AccountsInv, NEW u \in User, Handled(u), todo' \subseteq todo, pc' = pc,
         UNCHANGED <<source, imported, known, saved, tracked, rows>>,
         pc = "apply" \/ u \notin todo'
  PROVE  AccountsInv'
<1>1. UsersOK'
  BY DEF AccountsInv, UsersOK, Handled
<1>2. TodoOK'
  BY DEF AccountsInv, TodoOK, Handled
<1>3. Held(records)'
  BY StaysHeld DEF AccountsInv, Handled, Held
<1>4. Held(known)' /\ Held(saved.users)'
  BY StaysHeld DEF AccountsInv, Handled, Held
<1>5. SeatsOK'
  BY DEF AccountsInv, SeatsOK
<1>6. QED BY <1>1, <1>2, <1>3, <1>4, <1>5 DEF AccountsInv

\* ApplyUser and DeleteUser are handlers.
LEMMA ApplyUserInv ==
  ASSUME AccountsInv, NEW u \in User, ApplyUser(u) PROVE AccountsInv'
<1>1. /\ pc = "apply" /\ u \in todo /\ todo' \subseteq todo /\ pc' = pc
      /\ UNCHANGED <<source, imported, known, saved, tracked, rows>>
  BY DEF ApplyUser, readVars
<1>2. imported[u] # None
  BY <1>1 DEF AccountsInv, TodoOK
<1>3. ASSUME NEW f \in {records, known}, f[u] # None
      PROVE  f[u] \in Account /\ accounts[u] # None /\ f[u].roles \subseteq accounts[u].roles
  BY <1>3 DEF AccountsInv, UsersOK, Entries, Held
<1>4. ASSUME NEW f \in {records, known}, f[u] # None, Same(u, f[u]) PROVE Handled(u)
  <2>1. accounts' = accounts /\ records' = [records EXCEPT ![u] = f[u]]
    BY <1>4 DEF Same
  <2>2. f[u] \in Account /\ records \in Entries /\ accounts \in Entries
    BY <1>3, <1>4 DEF AccountsInv, UsersOK
  <2>3. records' \in Entries /\ records'[u] = f[u]
        /\ \A v \in User \ {u} : records'[v] = records[v]
    BY <2>1, <2>2 DEF Entries
  <2>4. QED BY <1>3, <1>4, <2>1, <2>2, <2>3 DEF Handled, Grows
<1>5. ASSUME NEW f \in {records, known}, f[u] # None, Update(u, f[u]) PROVE Handled(u)
  BY <1>2, <1>3, <1>5, UpdateHandles DEF AccountsInv
<1>6. ASSUME records[u] = None, Create(u) PROVE Handled(u)
  BY <1>2, <1>6, CreateHandles DEF AccountsInv
<1>7. Handled(u)
  BY <1>4, <1>5, <1>6 DEF ApplyUser, Adopt
<1>8. QED BY <1>1, <1>7, HandledInv

LEMMA DeleteUserInv ==
  ASSUME AccountsInv, NEW u \in User, DeleteUser(u) PROVE AccountsInv'
<1>1. /\ pc = "clean" /\ u \in todo /\ todo' = todo \ {u} /\ pc' = pc
      /\ UNCHANGED <<source, imported, known, saved, tracked, rows>>
  BY DEF DeleteUser, readVars
<1>2. accounts \in Entries /\ records \in Entries
  BY DEF AccountsInv, UsersOK
<1>3. accounts[u] \in Account /\ None \notin Account
      /\ records[u] \in Account /\ records[u].roles \subseteq accounts[u].roles
  BY <1>1, AccountsAssumption DEF AccountsInv, UsersOK, Entries, TodoOK, Held
<1> DEFINE off == [accounts[u] EXCEPT !.enabled = FALSE]
<1>4. off \in Account /\ off.roles = accounts[u].roles
  BY <1>3 DEF Account
<1>5. accounts' \in {accounts, [accounts EXCEPT ![u] = off]}
  BY DEF DeleteUser
<1>6. records' \in {records, [records EXCEPT ![u] = None]}
  BY DEF DeleteUser
<1> HIDE DEF off
<1>7. accounts' \in Entries /\ records' \in Entries
  BY <1>2, <1>4, <1>5, <1>6 DEF Entries
<1>8. /\ accounts'[u] \in {accounts[u], off} /\ records'[u] \in {records[u], None}
      /\ \A v \in User \ {u} : accounts'[v] = accounts[v] /\ records'[v] = records[v]
  BY <1>2, <1>5, <1>6 DEF Entries
<1>9. Grows
  BY <1>3, <1>4, <1>8 DEF Grows
<1>10. records'[u] # None =>
         accounts'[u] # None /\ records'[u].roles \subseteq accounts'[u].roles
  BY <1>3, <1>4, <1>8
<1>11. Handled(u)
  BY <1>7, <1>8, <1>9, <1>10 DEF Handled
<1>12. QED BY <1>1, <1>11, HandledInv

\* A step that leaves accounts and entries as they are keeps the invariant if
\* what is left to do is still of users that have an entry, or were read.
LEMMA QuietInv ==
  ASSUME AccountsInv, TodoOK', SeatsOK',
         UNCHANGED <<source, accounts, records, imported, known, saved>>
  PROVE  AccountsInv'
  BY DEF AccountsInv, UsersOK, Held

\* The invariant is inductive.
LEMMA InitInv == Init => AccountsInv
<1> SUFFICES ASSUME Init PROVE AccountsInv
  OBVIOUS
<1>1. PICK s \in Starts : source = s.source /\ accounts = s.accounts
  BY DEF Init
<1>2. source \in [User -> Account] /\ accounts \in Entries
  BY <1>1, AccountsAssumption DEF Start, Entries
<1>3. records = Absent /\ known = Absent /\ imported = Absent /\ saved.users = Absent
  BY DEF Init
<1>4. Absent \in Entries /\ Held(Absent)
  BY DEF Absent, Entries, Held
<1>5. TodoOK /\ SeatsOK
  BY DEF Init, TodoOK, SeatsOK, Vacant
<1>6. QED BY <1>2, <1>3, <1>4, <1>5 DEF AccountsInv, UsersOK

LEMMA NextInv == AccountsInv /\ [Next]_vars => AccountsInv'
<1> SUFFICES ASSUME AccountsInv, [Next]_vars PROVE AccountsInv'
  OBVIOUS
<1>1. CASE \E u \in User : \E a \in Account : EditUser(u, a)
  <2>1. PICK u \in User, a \in Account : EditUser(u, a)
    BY <1>1
  <2>2. source' \in [User -> Account]
    BY <2>1 DEF EditUser, AccountsInv, UsersOK
  <2>3. UNCHANGED <<accounts, records, imported, known, saved, tracked, rows, todo, pc>>
    BY <2>1 DEF EditUser, stateVars, readVars
  <2>4. QED BY <2>2, <2>3 DEF AccountsInv, UsersOK, SeatsOK, TodoOK, Held
<1>2. CASE \/ \E s \in Seat : \E l \in Level \cup {None} : EditSeat(s, l) \/ EditByHand(s, l)
           \/ \E s \in Seat : DeleteSeat(s)
           \/ \E t \in Team : MapTeam(t) \/ ListTeam(t)
           \/ UNCHANGED vars
  <2>1. UNCHANGED <<source, accounts, records, imported, known, saved, pc>>
        /\ todo' \subseteq todo
    BY <1>2 DEF EditSeat, EditByHand, DeleteSeat, MapTeam, ListTeam, vars, orgVars,
                stateVars, readVars
  <2>2. DOMAIN tracked' = DOMAIN tracked /\ (rows' = rows \/ DOMAIN rows' = Seat)
    BY <1>2 DEF EditSeat, EditByHand, DeleteSeat, MapTeam, ListTeam, vars, orgVars,
                stateVars, readVars, Fetched
  <2>3. TodoOK' /\ SeatsOK'
    BY <2>1, <2>2 DEF AccountsInv, TodoOK, SeatsOK
  <2>4. QED BY <2>1, <2>3, QuietInv
<1>3. CASE \E s \in Seat : ApplySeat(s)
  <2>1. PICK s \in Seat : ApplySeat(s)
    BY <1>3
  <2>2. UNCHANGED <<source, accounts, records, imported, known, saved, pc, rows>>
        /\ todo' \subseteq todo
    BY <2>1 DEF ApplySeat, readVars
  <2>3. tracked' = tracked \/ tracked' = [tracked EXCEPT ![s] = rows[s]]
    BY <2>1 DEF ApplySeat, SeatUnchanged, CreateSeat, UpdateSeat, PassOver, Send
  <2>4. DOMAIN tracked' = DOMAIN tracked
    BY <2>3
  <2>5. TodoOK' /\ SeatsOK'
    BY <2>2, <2>4 DEF AccountsInv, TodoOK, SeatsOK
  <2>6. QED BY <2>2, <2>5, QuietInv
<1>4. CASE Begin
  <2>1. UNCHANGED <<source, accounts, records, known, saved, tracked, rows>> /\ pc' = "list"
    BY <1>4 DEF Begin, orgVars, stateVars
  <2>2. imported' \in Entries
    BY <1>4 DEF Begin, Listed, Entries, AccountsInv, UsersOK
  <2>3. QED BY <2>1, <2>2 DEF AccountsInv, UsersOK, SeatsOK, TodoOK, Held
<1>5. CASE EndImport \/ EndCleanup \/ EndMap \/ EndApply
  <2>1. UNCHANGED <<source, accounts, records, imported, known, saved, tracked, rows>>
    BY <1>5 DEF EndImport, EndCleanup, EndMap, EndApply, orgVars, stateVars, readVars
  <2>2. /\ DOMAIN records = User /\ DOMAIN imported = User
        /\ DOMAIN tracked = Seat /\ DOMAIN rows = Seat
    BY DEF AccountsInv, UsersOK, Entries, SeatsOK
  <2>3. TodoOK'
    <3>1. CASE EndImport
      <4>1. pc' = "clean" /\ todo' \subseteq Orphans
        BY <3>1 DEF EndImport
      <4>2. \A u \in Orphans \cap User : records[u] # None
        BY <2>2, AccountsAssumption DEF Orphans, Present
      <4>3. QED BY <2>1, <4>1, <4>2 DEF TodoOK
    <3>2. CASE EndMap
      <4>1. pc' = "apply" /\ todo' = Present(imported) \cup Present(rows)
        BY <3>2 DEF EndMap
      <4>2. \A u \in todo' \cap User : imported[u] # None
        BY <2>2, <4>1, AccountsAssumption DEF Present
      <4>3. QED BY <2>1, <4>1, <4>2 DEF TodoOK
    <3>3. CASE EndCleanup \/ EndApply
      BY <3>3 DEF EndCleanup, EndApply, TodoOK
    <3>4. QED BY <1>5, <3>1, <3>2, <3>3
  <2>4. SeatsOK'
    BY <2>1 DEF AccountsInv, SeatsOK
  <2>5. QED BY <2>1, <2>3, <2>4, QuietInv
<1>6. CASE MapUsers
  <2>1. /\ UNCHANGED <<source, accounts, records, imported, saved, tracked, rows, pc>>
        /\ pc = "map" /\ known' \in {known, accounts}
    BY <1>6 DEF MapUsers, orgVars, stateVars
  <2>2. Held(accounts)
    BY DEF Held
  <2>3. QED BY <2>1, <2>2 DEF AccountsInv, UsersOK, SeatsOK, TodoOK, Held
<1>7. CASE \E u \in User : ApplyUser(u)
  BY <1>7, ApplyUserInv
<1>8. CASE \E u \in User : DeleteUser(u)
  BY <1>8, DeleteUserInv
<1>9. CASE Dump \/ Interrupt \/ Crash
  <2>1. /\ UNCHANGED <<source, accounts>> /\ pc' = "idle"
        /\ imported' = Absent /\ known' = Absent /\ DOMAIN rows' = Seat
    BY <1>9 DEF Dump, Interrupt, Crash, Exit, orgVars, Vacant
  <2>2. \/ /\ records' = records /\ tracked' = tracked
           /\ saved'.users = records /\ saved'.seats = tracked
        \/ /\ records' = saved.users /\ tracked' = saved.seats /\ saved' = saved
    BY <1>9 DEF Dump, Interrupt, Crash, Save
  <2>3. Absent \in Entries /\ Held(Absent)
    BY DEF Absent, Entries, Held
  <2>4. UsersOK'
    BY <2>1, <2>2, <2>3 DEF AccountsInv, UsersOK
  <2>5. SeatsOK' /\ TodoOK'
    BY <2>1, <2>2 DEF AccountsInv, SeatsOK, TodoOK
  <2>6. Held(records)' /\ Held(known)' /\ Held(saved.users)'
    BY <2>1, <2>2, <2>3 DEF AccountsInv, Held
  <2>7. QED BY <2>4, <2>5, <2>6 DEF AccountsInv
<1>10. QED
  BY <1>1, <1>2, <1>3, <1>4, <1>5, <1>6, <1>7, <1>8, <1>9 DEF Next

\* What the state has of a user is never ahead of the destination, whatever fails
\* and however passes end: an update leaves out only roles that the account has.
THEOREM RolesAreHeldCorrect == Spec => []RolesAreHeld
<1>1. AccountsInv => RolesAreHeld
  BY DEF AccountsInv, UsersOK, Entries, Held, RolesAreHeld, Present
<1>2. QED BY <1>1, InitInv, NextInv, PTL DEF Spec

\* With roles, a step is one of Accounts, or leaves accounts and entries alone: one
\* that is about roles only, or a user passed over for a role without counterpart.
LEMMA RolesNextInv == AccountsInv /\ [RolesNext]_allVars => AccountsInv'
<1> SUFFICES ASSUME AccountsInv, [RolesNext]_allVars PROVE AccountsInv'
  OBVIOUS
<1>1. CASE [Next]_vars
  BY <1>1, NextInv
<1>2. CASE /\ UNCHANGED <<source, accounts, records, imported, known, saved, tracked, rows>>
           /\ todo' \subseteq todo /\ pc' = pc
  <2>1. TodoOK' /\ SeatsOK'
    BY <1>2 DEF AccountsInv, TodoOK, SeatsOK
  <2>2. QED BY <1>2, <2>1, QuietInv
<1>3. CASE \/ \E r \in Role : \E perms \in SUBSET Perm : EditRole(r, perms)
           \/ ImportRoles \/ MapRoles
           \/ \E r \in Role : ApplyRole(r)
  <2>1. OnlyRoles
    BY <1>3 DEF EditRole, ImportRoles, MapRoles, ApplyRole
  <2>2. QED BY <1>2, <2>1 DEF OnlyRoles, orgVars, stateVars, readVars
<1>4. CASE \E u \in User : ApplyUserOfRoles(u)
  <2>1. PICK u \in User : ApplyUserOfRoles(u)
    BY <1>4
  <2>2. CASE ApplyUser(u)
    BY <1>1, <2>2 DEF Next
  <2>3. CASE todo' = todo \ {u} /\ UNCHANGED <<orgVars, stateVars, readVars, pc>>
    BY <1>2, <2>3 DEF orgVars, stateVars, readVars
  <2>4. QED BY <2>1, <2>2, <2>3 DEF ApplyUserOfRoles
<1>5. CASE \/ \E u \in User : \E a \in Account : EditUserOfRoles(u, a)
           \/ BeginWithRoles \/ EndImportOfRoles \/ EndCleanupOfRoles \/ EndMapOfRoles
           \/ EndApplyOfRoles \/ DumpRoles \/ CrashOfRoles \/ OtherStep
  <2>1. Next
    BY <1>5 DEF EditUserOfRoles, BeginWithRoles, EndImportOfRoles, EndCleanupOfRoles,
                EndMapOfRoles, EndApplyOfRoles, DumpRoles, CrashOfRoles, OtherStep, Next
  <2>2. QED BY <1>1, <2>1
<1>6. CASE UNCHANGED allVars
  BY <1>1, <1>6 DEF allVars
<1>7. QED
  BY <1>3, <1>4, <1>5, <1>6 DEF RolesNext

\* The same in migrations that write the roles themselves, edited, trimmed, refused
\* or adopted, before the users that have them.
THEOREM RolesAreHeldWithRoles == RolesSpec => []RolesAreHeld
<1>1. RolesInit => AccountsInv
  BY InitInv DEF RolesInit
<1>2. AccountsInv => RolesAreHeld
  BY DEF AccountsInv, UsersOK, Entries, Held, RolesAreHeld, Present
<1>3. QED BY <1>1, <1>2, RolesNextInv, PTL DEF RolesSpec

-----------------------------------------------------------------------------
(* What a pass without failure does to the roles.                          *)

PermsOK ==
  /\ {srcRoles, destRoles, roleRecords, savedRoles, knownRoles} \subseteq Roles
  /\ importedRoles \in [Role -> Row \cup {None}]
  /\ \A r \in Role : destRoles[r] # None => destRoles[r] \subseteq Offered

\* An entry is what the destination has, unless it may be behind.
EntriesOK == \A r \in Role \ behind : roleRecords[r] \in {None, destRoles[r]}

\* The roles were read, and those that are left are as they were read.
WasRead(r) ==
  /\ importedRoles[r] = None <=> srcRoles[r] = None
  /\ importedRoles[r] # None /\ (pc \in {"apply", "dump"} => r \in roleTodo) =>
       importedRoles[r].perms = srcRoles[r]

ReadOK ==
  /\ pc = "idle" => importedRoles = NoRoles
  /\ clean => \A r \in Role : importedRoles[r] # None => ~importedRoles[r].raw
  /\ (pc = "list" /\ roleTodo = {}) \/ pc \in {"clean", "map", "apply", "dump"} =>
       \A r \in Role : WasRead(r)

\* The map is up to date for the roles that are left.
Fits(r) == /\ knownRoles[r] \in {None, destRoles[r]}
           /\ clean => knownRoles[r] = destRoles[r]

MapOK ==
  /\ pc = "map" /\ roleTodo = {} => \A r \in Role : Fits(r)
  /\ pc = "apply" => \A r \in roleTodo \cap Role : Fits(r) /\ importedRoles[r] # None

\* A role that was applied is what RolesReach and DiffsConverge ask for.
Reached(r) == /\ (srcRoles[r] \cap Offered) \ Gated \subseteq destRoles[r]
              /\ destRoles[r] \subseteq srcRoles[r]

NoDiff(r, row, dest, entry) ==
  Equal(Reconciled(r, Remapped(row, TRUE), dest), entry)

Converged(r) ==
  (r \in Builtin => destRoles[r] # None /\ destRoles[r] \subseteq srcRoles[r]) =>
    NoDiff(r, importedRoles[r], destRoles[r], roleRecords[r])

Applied(r) == (r \notin Builtin => Reached(r)) /\ Converged(r)

AppliedOK ==
  pc \in {"apply", "dump"} /\ clean =>
    \A r \in Role \ (Managed \cup behind \cup roleTodo) :
      importedRoles[r] # None => Applied(r)

TodoAtEnd == pc = "dump" => roleTodo = {}

RolesInv == PermsOK /\ EntriesOK /\ ReadOK /\ MapOK /\ AppliedOK /\ TodoAtEnd

\* A step that is not about roles keeps the invariant.
LEMMA OtherKeepsRoles ==
  ASSUME RolesInv, UNCHANGED roleVars, clean' => clean,
         pc' = pc \/ (pc = "apply" /\ pc' = "dump" /\ roleTodo = {})
  PROVE  RolesInv'
<1>1. UNCHANGED <<srcRoles, destRoles, roleRecords, savedRoles, importedRoles,
                  knownRoles, roleTodo, behind>>
  BY DEF roleVars, roleOrgs
<1>2. PermsOK' /\ EntriesOK'
  BY <1>1 DEF RolesInv, PermsOK, EntriesOK
<1>3. ReadOK'
  BY <1>1 DEF RolesInv, ReadOK, WasRead
<1>4. MapOK'
  BY <1>1 DEF RolesInv, MapOK, Fits
<1>5. AppliedOK' /\ TodoAtEnd'
  BY <1>1 DEF RolesInv, AppliedOK, TodoAtEnd, Applied, Reached, Converged
<1>6. QED BY <1>2, <1>3, <1>4, <1>5 DEF RolesInv

\* The outcome of a request: an entry that is the destination's role, or the one
\* there was, and a row that has not got more.  In a pass without failure it is what
\* was wanted, but for permissions that the destination leaves out.
RequestEnds(r, want, entry, row, ok, p, e, new) ==
  /\ Outcome(r, e, new) /\ new.raw = row.raw
  /\ destRoles' = destRoles \/ destRoles' = [destRoles EXCEPT ![r] = p]
  /\ behind' \in {behind, behind \cup {r}}
  /\ \/ /\ e = entry
        /\ destRoles' = destRoles \/ entry = None \/ r \in behind'
     \/ destRoles' = [destRoles EXCEPT ![r] = p] /\ e = p
  /\ clean' => clean /\ ok
  /\ clean' /\ want.valid /\ r \notin Managed /\ (entry = None => destRoles[r] = None) =>
       \E dropped \in SUBSET Gated :
         /\ p = want.perms \ dropped /\ e = p
         /\ destRoles' = [destRoles EXCEPT ![r] = p]
         /\ new = [row EXCEPT !.perms = @ \ dropped]

LEMMA RequestOutcome ==
  ASSUME NEW r \in Role, NEW row \in Row, NEW entry \in {None} \cup SUBSET Perm,
         NEW ok \in BOOLEAN, NEW want, want.perms \in SUBSET Perm, want.valid \in BOOLEAN,
         want.valid => want.perms \subseteq Offered,
         Request(r, want, entry, row, ok)
  PROVE  \E p \in SUBSET Offered, e \in {None} \cup SUBSET Perm, new \in Row :
           RequestEnds(r, want, entry, row, ok, p, e, new)
<1>1. CASE /\ \/ ~Sendable(row, want)
              \/ entry = None /\ destRoles[r] # None
              \/ ~want.valid /\ entry = {}
           /\ NotSent(r, entry, row, ok)
  <2>1. /\ Outcome(r, entry, row) /\ destRoles' = destRoles /\ behind' = behind
        /\ clean' => clean /\ ok
    BY <1>1 DEF NotSent, Charge
  <2>2. ~(want.valid /\ (entry = None => destRoles[r] = None))
    BY <1>1 DEF Sendable
  <2>3. RequestEnds(r, want, entry, row, ok, {}, entry, row)
    BY <2>1, <2>2 DEF RequestEnds
  <2>4. QED BY <2>3
<1>2. CASE ~(/\ \/ ~Sendable(row, want)
                \/ entry = None /\ destRoles[r] # None
                \/ ~want.valid /\ entry = {}
             /\ NotSent(r, entry, row, ok))
  <2> DEFINE persisted(d) == Sent(want) \ d
  <2>1. PICK a \in Answer, dropped \in SUBSET (Gated \cap Sent(want)) :
          /\ r \in Managed => a = "refused"
          /\ Charge(~ok \/ a # "ok")
          /\ destRoles' = IF Done(a) THEN [destRoles EXCEPT ![r] = persisted(dropped)]
                                     ELSE destRoles
          /\ IF a = "ok" THEN Outcome(r, persisted(dropped), Trimmed(row, dropped))
                         ELSE Outcome(r, entry, row)
          /\ behind' = IF a = "lost" /\ entry # None THEN behind \cup {r} ELSE behind
    BY <1>2 DEF Request
  <2> DEFINE p == persisted(dropped)
  <2>2. p \in SUBSET Offered /\ p \in SUBSET Perm
    BY RolesAssumption DEF Sent
  <2>3. Trimmed(row, dropped) \in Row /\ Trimmed(row, dropped).raw = row.raw
    BY DEF Trimmed, Row
  <2>4. clean' => clean /\ ok /\ a = "ok"
    BY <2>1 DEF Charge
  <2>5. CASE a = "ok"
    <3>1. /\ Outcome(r, p, Trimmed(row, dropped)) /\ behind' = behind
          /\ destRoles' = [destRoles EXCEPT ![r] = p]
      BY <2>1, <2>5 DEF Done
    <3>2. want.valid => p = want.perms \ dropped
      BY DEF Sent
    <3>3. RequestEnds(r, want, entry, row, ok, p, p, Trimmed(row, dropped))
      BY <2>3, <2>4, <3>1, <3>2 DEF Trimmed, RequestEnds
    <3>4. QED BY <2>2, <2>3, <3>3
  <2>6. CASE a # "ok"
    <3>1. /\ Outcome(r, entry, row) /\ ~clean'
          /\ destRoles' \in {destRoles, [destRoles EXCEPT ![r] = p]}
          /\ behind' \in {behind, behind \cup {r}}
          /\ destRoles' = destRoles \/ entry = None \/ r \in behind'
      BY <2>1, <2>4, <2>6 DEF Done, Answer
    <3>2. RequestEnds(r, want, entry, row, ok, p, entry, row)
      BY <3>1 DEF RequestEnds
    <3>3. QED BY <2>2, <3>2
  <2>7. QED BY <2>5, <2>6
<1>3. QED BY <1>1, <1>2

\* What a diff compares an entry with, if the row has names.
Wanted(r, perms, dest) == IF r \in Builtin /\ dest # None
                            THEN (perms \cap Offered) \cap dest
                            ELSE perms \cap Offered

LEMMA WantedOfRow ==
  ASSUME NEW r, NEW row \in Row, ~row.raw, NEW ok \in BOOLEAN, ok, NEW dest
  PROVE  LET want == Reconciled(r, Remapped(row, ok), dest)
         IN  want.valid /\ want.perms = Wanted(r, row.perms, dest)
<1>1. /\ Remapped(row, ok).perms = row.perms \cap Offered
      /\ Remapped(row, ok).valid
  BY DEF Remapped
<1>2. CASE r \in Builtin /\ dest # None
  BY <1>1, <1>2 DEF Reconciled, Wanted
<1>3. CASE ~(r \in Builtin /\ dest # None)
  BY <1>1, <1>3 DEF Reconciled, Wanted
<1>4. QED BY <1>2, <1>3

LEMMA ConvergedIf ==
  ASSUME NEW r, NEW row \in Row, ~row.raw, NEW dest
  PROVE  NoDiff(r, row, dest, Wanted(r, row.perms, dest))
  BY WantedOfRow DEF NoDiff, Equal

\* The handler of a role.  With D what the destination has and S what the source has,
\* W is what is wanted when nothing fails.
LEMMA ApplyRoleInv ==
  ASSUME RolesInv, NEW r \in Role, ApplyRole(r)
  PROVE  RolesInv'
<1>1. /\ pc = "apply" /\ pc' = pc /\ r \in roleTodo /\ roleTodo' = roleTodo \ {r}
      /\ UNCHANGED <<srcRoles, savedRoles, knownRoles>>
  BY DEF ApplyRole, OnlyRoles
<1>2. PICK ok \in BOOLEAN :
       LET entry  == roleRecords[r]
           found  == knownRoles[r]
           mapped == Remapped(importedRoles[r], ok)
           want   == Reconciled(r, mapped, found)
           row    == RowReconciled(importedRoles[r], mapped, want)
       IN  \/ /\ entry # None /\ (Equal(want, entry) \/ r \in Builtin)
              /\ NotSent(r, entry, row, ok)
           \/ /\ entry # None /\ ~Equal(want, entry) /\ r \notin Builtin
              /\ Request(r, want, entry, row, ok)
           \/ /\ entry = None /\ found = None /\ r \in Builtin
              /\ NotSent(r, None, row, ok)
           \/ /\ entry = None /\ found = None /\ r \notin Builtin
              /\ Request(r, want, None, row, ok)
           \/ /\ entry = None /\ found # None
              /\ (r \in Builtin \cup Managed) \/ Equal(want, found)
              /\ NotSent(r, found, row, ok)
           \/ /\ entry = None /\ found # None
              /\ r \notin Builtin \cup Managed /\ ~Equal(want, found)
              /\ Request(r, want, found, row, ok)
  BY DEF ApplyRole
<1> DEFINE entry  == roleRecords[r]
           found  == knownRoles[r]
           mapped == Remapped(importedRoles[r], ok)
           want   == Reconciled(r, mapped, found)
           row    == RowReconciled(importedRoles[r], mapped, want)
           D      == destRoles[r]
           S      == srcRoles[r]
           W      == Wanted(r, S, D)
<1>3. PermsOK /\ EntriesOK /\ ReadOK /\ MapOK /\ AppliedOK
  BY DEF RolesInv
<1>4. /\ importedRoles[r] \in Row /\ importedRoles[r].perms = S /\ S \in SUBSET Perm
      /\ clean => ~importedRoles[r].raw
      /\ found \in {None, D} /\ (clean => found = D)
      /\ D \in {None} \cup SUBSET Offered /\ entry \in {None} \cup SUBSET Perm
      /\ r \notin behind => entry \in {None, D}
  <2>1. importedRoles[r] # None /\ Fits(r)
    BY <1>1, <1>3 DEF MapOK
  <2>2. importedRoles[r] \in Row
    BY <1>3, <2>1 DEF PermsOK
  <2>3. WasRead(r) /\ (clean => ~importedRoles[r].raw)
    BY <1>1, <1>3, <2>1 DEF ReadOK
  <2>4. importedRoles[r].perms = S /\ S \in SUBSET Perm
    BY <1>1, <2>1, <2>2, <2>3 DEF WasRead, Row
  <2>5. D \in {None} \cup SUBSET Offered /\ entry \in {None} \cup SUBSET Perm
    BY <1>3 DEF PermsOK, Roles
  <2>6. QED BY <1>3, <2>1, <2>2, <2>3, <2>4, <2>5 DEF Fits, EntriesOK
<1>5. /\ mapped.perms \in SUBSET Perm /\ mapped.valid \in BOOLEAN
      /\ mapped.valid => mapped.perms \subseteq Offered
  BY <1>4, RolesAssumption DEF Remapped
<1>6. /\ want.perms \in SUBSET Perm /\ want.valid \in BOOLEAN
      /\ want.valid => want.perms \subseteq Offered
  BY <1>5 DEF Reconciled
<1>7. row \in Row /\ row.raw = importedRoles[r].raw
  BY <1>4, <1>6 DEF RowReconciled, Row
\* What a clean pass makes of the role before it is sent.
<1>8. ASSUME clean, ok
      PROVE  /\ want.valid /\ want.perms = W
             /\ row.perms = IF W = S \cap Offered THEN S ELSE W
             /\ ~row.raw
  <2>1. found = D /\ ~importedRoles[r].raw
    BY <1>4, <1>8
  <2> DEFINE w == Reconciled(r, Remapped(importedRoles[r], ok), D)
  <2>0. w.valid /\ w.perms = Wanted(r, importedRoles[r].perms, D)
    BY <1>4, <1>8, <2>1, WantedOfRow
  <2>2. want.valid /\ want.perms = W
    BY <1>4, <2>0, <2>1
  <2>3. mapped.perms = S \cap Offered
    BY <1>4, <1>8, <2>1 DEF Remapped
  <2> HIDE DEF want, W, mapped
  <2>4. row.perms = IF W = S \cap Offered THEN S ELSE W
    BY <1>4, <2>2, <2>3 DEF RowReconciled, Row
  <2>5. QED BY <1>7, <2>1, <2>2, <2>4
<1> HIDE DEF want, row, W, mapped
\* Nothing is sent, and the entry stays or is the role that was found; or something is.
<1>9. \E x \in {entry, found} :
        \/ /\ NotSent(r, x, row, ok)
           /\ r \in Builtin \cup Managed \/ Equal(want, x)
           /\ x = entry \/ x = found
           /\ x = None => found = None
        \/ /\ Request(r, want, x, row, ok)
           /\ r \notin Builtin
           /\ x = None => found = None
  BY <1>2 DEF want, row, mapped
<1> DEFINE
  Kept == destRoles' = destRoles
  Put(p) == destRoles' = [destRoles EXCEPT ![r] = p]
  Out(p, e, new) ==
    /\ Outcome(r, e, new) /\ new.raw = importedRoles[r].raw
    /\ Kept \/ Put(p)
    /\ behind' \in {behind, behind \cup {r}}
    /\ r \notin behind' => e \in {None, destRoles'[r]}
    /\ clean' => clean /\ ok
    /\ clean' /\ r \notin Managed \cup behind' =>
         \/ Kept /\ new = row /\ e = D /\ (r \in Builtin \/ D = W)
         \/ /\ r \notin Builtin /\ Put(p) /\ e = p
            /\ \E dropped \in SUBSET Gated :
                 p = W \ dropped /\ new = [row EXCEPT !.perms = @ \ dropped]
<1>10. PICK p \in SUBSET Offered, e \in {None} \cup SUBSET Perm, new \in Row : Out(p, e, new)
  <2>1. PICK x \in {entry, found} :
          \/ /\ NotSent(r, x, row, ok)
             /\ r \in Builtin \cup Managed \/ Equal(want, x)
             /\ x = None => found = None
          \/ /\ Request(r, want, x, row, ok)
             /\ r \notin Builtin
             /\ x = None => found = None
    BY <1>9
  <2>2. x \in {None} \cup SUBSET Perm /\ (x = None => found = None)
    BY <1>4, <2>1, RolesAssumption
  <2>3. r \notin behind => x \in {None, D}
    BY <1>4
  <2>4. clean /\ r \notin behind => x = D
    BY <1>4, <2>2, <2>3
  <2>5. CASE NotSent(r, x, row, ok) /\ (r \in Builtin \cup Managed \/ Equal(want, x))
    <3>1. /\ Outcome(r, x, row) /\ Kept /\ behind' = behind /\ (clean' => clean /\ ok)
      BY <2>5 DEF NotSent, Charge
    <3>2. clean' /\ r \notin Managed \cup behind' => x = D /\ (r \in Builtin \/ D = W)
      BY <1>8, <2>4, <2>5, <3>1 DEF Equal
    <3>3. r \notin behind' => x \in {None, destRoles'[r]}
      BY <2>3, <3>1
    <3>4. Out({}, x, row)
      BY <1>7, <3>1, <3>2, <3>3
    <3>5. QED BY <1>7, <2>2, <3>4
  <2>6. CASE Request(r, want, x, row, ok) /\ r \notin Builtin
    <3>1. PICK p \in SUBSET Offered, e \in {None} \cup SUBSET Perm, new \in Row :
            RequestEnds(r, want, x, row, ok, p, e, new)
      BY <1>6, <1>7, <2>2, <2>6, RequestOutcome
    <3>2. DOMAIN destRoles = Role
      BY <1>3 DEF PermsOK, Roles
    <3>3. r \notin behind' => e \in {None, destRoles'[r]}
      BY <2>3, <3>1, <3>2 DEF RequestEnds
    <3>4. clean' /\ r \notin Managed \cup behind' =>
            /\ Put(p) /\ e = p
            /\ \E dropped \in SUBSET Gated :
                 p = W \ dropped /\ new = [row EXCEPT !.perms = @ \ dropped]
      <4>1. SUFFICES ASSUME clean', r \notin Managed \cup behind'
                     PROVE  /\ Put(p) /\ e = p
                            /\ \E dropped \in SUBSET Gated :
                                 p = W \ dropped /\ new = [row EXCEPT !.perms = @ \ dropped]
        OBVIOUS
      <4>2. clean /\ ok /\ r \notin behind
        BY <3>1, <4>1 DEF RequestEnds
      <4>3. want.valid /\ want.perms = W /\ x = D
        BY <1>8, <2>4, <4>2
      <4>4. QED BY <3>1, <4>1, <4>3 DEF RequestEnds
    <3>5. Out(p, e, new)
      BY <1>7, <2>6, <3>1, <3>3, <3>4 DEF RequestEnds
    <3>6. QED BY <3>5
  <2>7. QED BY <2>1, <2>5, <2>6
<1>11. /\ new.raw = importedRoles[r].raw /\ (clean' => clean /\ ok)
       /\ r \notin behind' => e \in {None, destRoles'[r]}
       /\ clean' /\ r \notin Managed \cup behind' =>
            \/ destRoles'[r] = D /\ new = row /\ e = D /\ (r \in Builtin \/ D = W)
            \/ /\ r \notin Builtin /\ destRoles'[r] = p /\ e = p
               /\ \E dropped \in SUBSET Gated :
                    p = W \ dropped /\ new = [row EXCEPT !.perms = @ \ dropped]
  BY <1>3, <1>10 DEF PermsOK, Roles
<1>12. /\ \A q \in Role \ {r} :
            /\ destRoles'[q] = destRoles[q]
            /\ roleRecords'[q] = roleRecords[q]
            /\ importedRoles'[q] = importedRoles[q]
            /\ (q \in behind') = (q \in behind)
       /\ roleRecords'[r] = e /\ importedRoles'[r] = new
       /\ destRoles'[r] \in {D, p}
  BY <1>3, <1>10 DEF PermsOK, Roles, Outcome
<1>13. PermsOK'
  <2>1. destRoles' \in Roles /\ roleRecords' \in Roles
        /\ importedRoles' \in [Role -> Row \cup {None}]
    BY <1>3, <1>10, RolesAssumption DEF PermsOK, Roles, Outcome
  <2>2. ASSUME NEW q \in Role, destRoles'[q] # None PROVE destRoles'[q] \subseteq Offered
    <3>1. CASE q = r
      BY <1>4, <1>12, <2>2, <3>1
    <3>2. CASE q # r
      BY <1>3, <1>12, <2>2, <3>2 DEF PermsOK
    <3>3. QED BY <3>1, <3>2
  <2>3. QED BY <1>1, <1>3, <2>1, <2>2 DEF PermsOK
<1> HIDE DEF Out, Kept, Put, entry, found, D, S
<1>14. EntriesOK'
  BY <1>3, <1>11, <1>12 DEF EntriesOK
<1>15. ReadOK'
  <2>1. importedRoles'[r] # None /\ importedRoles[r] # None
    BY <1>4, <1>12, RolesAssumption
  <2>2. ASSUME clean', NEW q \in Role, importedRoles'[q] # None PROVE ~importedRoles'[q].raw
    BY <1>3, <1>11, <1>12, <2>1, <2>2 DEF ReadOK
  <2>3. ASSUME NEW q \in Role PROVE WasRead(q)'
    <3>1. WasRead(q)
      BY <1>1, <1>3 DEF ReadOK
    <3>2. CASE q = r
      BY <1>1, <1>12, <2>1, <3>1, <3>2 DEF WasRead
    <3>3. CASE q # r
      BY <1>1, <1>12, <3>1, <3>3 DEF WasRead
    <3>4. QED BY <3>2, <3>3
  <2>4. QED BY <1>1, <2>2, <2>3 DEF ReadOK
<1>16. MapOK'
  <2>1. ASSUME NEW q \in roleTodo' \cap Role PROVE Fits(q)' /\ importedRoles'[q] # None
    <3>1. Fits(q) /\ importedRoles[q] # None /\ q # r
      BY <1>1, <1>3 DEF MapOK
    <3>2. QED BY <1>1, <1>11, <1>12, <3>1 DEF Fits
  <2>2. QED BY <1>1, <2>1 DEF MapOK
<1>17. AppliedOK'
  <2>1. SUFFICES ASSUME clean', NEW q \in Role \ (Managed \cup behind' \cup roleTodo'),
                        importedRoles'[q] # None
                 PROVE  Applied(q)'
    BY DEF AppliedOK
  <2>2. clean /\ ok
    BY <1>11, <2>1
  <2>3. CASE q # r
    <3>1. Applied(q)
      BY <1>1, <1>3, <1>12, <2>1, <2>2, <2>3 DEF AppliedOK
    <3>2. Reached(q)' <=> Reached(q)
      BY <1>1, <1>12, <2>3 DEF Reached
    <3>3. Converged(q)' <=> Converged(q)
      BY <1>1, <1>12, <2>3 DEF Converged
    <3>4. QED BY <3>1, <3>2, <3>3 DEF Applied
  <2>4. CASE q = r
    <3>1. /\ row.perms = IF W = S \cap Offered THEN S ELSE W
          /\ ~row.raw /\ row \in Row
      BY <1>7, <1>8, <2>2
    <3>2. r \notin Builtin => W = S \cap Offered
      BY DEF W, Wanted
    <3>3. ASSUME destRoles'[r] = D, new = row, e = D, r \in Builtin \/ D = W
          PROVE  Applied(r)'
      <4>1. r \notin Builtin => Reached(r)'
        BY <1>1, <3>2, <3>3 DEF Reached, S
      <4>2. ASSUME r \in Builtin => D # None /\ D \subseteq S
            PROVE  Wanted(r, row.perms, D) = D
        <5>1. CASE r \notin Builtin
          BY <3>1, <3>2, <3>3, <5>1 DEF Wanted
        <5>2. CASE r \in Builtin
          <6>1. D # None /\ D \subseteq S /\ D \subseteq Offered
            BY <1>4, <4>2, <5>2 DEF D
          <6>2. W = D
            BY <5>2, <6>1 DEF W, Wanted
          <6>3. D \subseteq row.perms
            BY <3>1, <6>1, <6>2
          <6>4. QED BY <5>2, <6>1, <6>3 DEF Wanted
        <5>3. QED BY <5>1, <5>2
      <4>3. NoDiff(r, row, D, Wanted(r, row.perms, D))
        BY <3>1, ConvergedIf
      <4>4. Converged(r)'
        BY <1>1, <1>12, <3>3, <4>2, <4>3 DEF Converged, S
      <4>5. QED BY <4>1, <4>4 DEF Applied
    <3>4. ASSUME r \notin Builtin, destRoles'[r] = p, e = p, NEW dropped \in SUBSET Gated,
                 p = W \ dropped, new = [row EXCEPT !.perms = @ \ dropped]
          PROVE  Applied(r)'
      <4>1. Reached(r)'
        BY <1>1, <3>2, <3>4 DEF Reached, S
      <4>2. new.perms = S \ dropped /\ ~new.raw
        BY <3>1, <3>2, <3>4 DEF Row
      <4>3. Wanted(r, new.perms, p) = p
        BY <3>2, <3>4, <4>2 DEF Wanted
      <4>4. NoDiff(r, new, p, Wanted(r, new.perms, p))
        BY <4>2, ConvergedIf
      <4>5. destRoles'[r] = p /\ roleRecords'[r] = p /\ importedRoles'[r] = new
        BY <1>12, <3>4
      <4>6. Converged(r)'
        BY <4>3, <4>4, <4>5 DEF Converged
      <4>7. QED BY <3>4, <4>1, <4>6 DEF Applied
    <3>5. QED BY <1>11, <2>1, <2>4, <3>3, <3>4
  <2>5. QED BY <2>3, <2>4
<1>18. QED
  BY <1>1, <1>13, <1>14, <1>15, <1>16, <1>17 DEF RolesInv, TodoAtEnd

\* The invariant is inductive.
LEMMA RolesInitInv == RolesInit => RolesInv
<1> SUFFICES ASSUME RolesInit PROVE RolesInv
  OBVIOUS
<1>1. PICK s \in Starts : \E q \in RolesAt[s] : srcRoles = q.source /\ destRoles = q.dest
  BY DEF RolesInit
<1>2. PICK q \in RolesAt[s] : srcRoles = q.source /\ destRoles = q.dest
  BY <1>1
<1>3. q \in RoleStart
  BY <1>2, RolesAssumption
<1>4. srcRoles \in Roles /\ destRoles \in [Role -> {None} \cup SUBSET Offered]
  BY <1>2, <1>3 DEF RoleStart
<1>5. destRoles \in Roles /\ NoRoles \in Roles /\ NoRoles \in [Role -> Row \cup {None}]
  BY <1>4, RolesAssumption DEF Roles, NoRoles
<1>6. /\ roleRecords = NoRoles /\ savedRoles = NoRoles /\ knownRoles = NoRoles
      /\ importedRoles = NoRoles /\ pc = "idle"
  BY DEF RolesInit, Init
<1>7. PermsOK
  BY <1>4, <1>5, <1>6 DEF PermsOK
<1>8. EntriesOK /\ ReadOK /\ MapOK /\ AppliedOK /\ TodoAtEnd
  BY <1>6 DEF EntriesOK, ReadOK, MapOK, AppliedOK, TodoAtEnd, NoRoles
<1>9. QED BY <1>7, <1>8 DEF RolesInv

LEMMA RolesStepInv == RolesInv /\ [RolesNext]_allVars => RolesInv'
<1> SUFFICES ASSUME RolesInv, [RolesNext]_allVars PROVE RolesInv'
  OBVIOUS
<1>0. PermsOK /\ EntriesOK /\ ReadOK /\ MapOK /\ AppliedOK /\ TodoAtEnd
  BY DEF RolesInv
<1>1. CASE \E r \in Role : \E perms \in SUBSET Perm : EditRole(r, perms)
  <2>1. PICK r \in Role, perms \in SUBSET Perm : EditRole(r, perms)
    BY <1>1
  <2>2. /\ pc = "idle" /\ pc' = pc /\ clean' = clean
        /\ srcRoles' = [srcRoles EXCEPT ![r] = perms]
        /\ UNCHANGED <<destRoles, roleRecords, savedRoles, importedRoles, knownRoles,
                       roleTodo, behind>>
    BY <2>1 DEF EditRole, OnlyRoles
  <2>3. srcRoles' \in Roles
    BY <1>0, <2>2 DEF PermsOK, Roles
  <2>4. PermsOK'
    BY <1>0, <2>2, <2>3 DEF PermsOK
  <2>5. EntriesOK' /\ ReadOK' /\ MapOK' /\ AppliedOK' /\ TodoAtEnd'
    BY <1>0, <2>2 DEF EntriesOK, ReadOK, MapOK, AppliedOK, TodoAtEnd
  <2>6. QED BY <2>4, <2>5 DEF RolesInv
<1>2. CASE \/ \E u \in User : \E a \in Account : EditUserOfRoles(u, a)
           \/ \E u \in User : ApplyUserOfRoles(u)
           \/ OtherStep /\ UNCHANGED roleVars
           \/ EndApplyOfRoles
           \/ UNCHANGED allVars
  <2>1. UNCHANGED roleVars
    BY <1>2 DEF EditUserOfRoles, ApplyUserOfRoles, EndApplyOfRoles, allVars
  <2>2. CASE EndApplyOfRoles
    <3>1. pc = "apply" /\ pc' = "dump" /\ roleTodo = {} /\ clean' = clean
      BY <2>2 DEF EndApplyOfRoles, EndApply
    <3>2. QED BY <2>1, <3>1, OtherKeepsRoles
  <2>3. CASE ~EndApplyOfRoles
    <3>1. pc' = pc /\ (clean' => clean)
      BY <1>2, <2>3 DEF EditUserOfRoles, EditUser, ApplyUserOfRoles, ApplyUser, Same,
           Adopt, Update, Create, Charge, OtherStep, EditSeat, EditByHand, MapUsers,
           ListTeam, MapTeam, DeleteUser, DeleteSeat, ApplySeat, SeatUnchanged,
           CreateSeat, UpdateSeat, PassOver, Send, allVars, vars
    <3>2. QED BY <2>1, <3>1, OtherKeepsRoles
  <2>4. QED BY <2>2, <2>3
<1>3. CASE BeginWithRoles
  <2>1. /\ pc = "idle" /\ pc' = "list" /\ clean' = clean /\ roleTodo' = {"list"}
        /\ UNCHANGED <<srcRoles, destRoles, roleRecords, savedRoles, importedRoles,
                       knownRoles, behind>>
    BY <1>3 DEF BeginWithRoles, Begin, roleOrgs
  <2>2. PermsOK' /\ EntriesOK'
    BY <1>0, <2>1 DEF PermsOK, EntriesOK
  <2>3. ReadOK' /\ MapOK' /\ AppliedOK' /\ TodoAtEnd'
    BY <1>0, <2>1 DEF ReadOK, MapOK, AppliedOK, TodoAtEnd
  <2>4. QED BY <2>2, <2>3 DEF RolesInv
<1>4. CASE ImportRoles
  <2>1. PICK raw \in SUBSET Present(srcRoles) :
          /\ importedRoles' = [r \in Role |->
               IF srcRoles[r] = None THEN None
                                     ELSE [perms |-> srcRoles[r], raw |-> r \in raw]]
          /\ Charge(raw # {})
    BY <1>4 DEF ImportRoles
  <2>2. /\ pc = "list" /\ pc' = pc /\ roleTodo' = {}
        /\ UNCHANGED <<srcRoles, destRoles, roleRecords, savedRoles, knownRoles, behind>>
    BY <1>4 DEF ImportRoles, OnlyRoles, roleOrgs
  <2>3. clean' => raw = {}
    BY <2>1 DEF Charge
  <2>4. ASSUME NEW r \in Role
        PROVE  /\ importedRoles'[r] \in Row \cup {None}
               /\ WasRead(r)'
               /\ clean' => (importedRoles'[r] # None => ~importedRoles'[r].raw)
    <3>1. CASE srcRoles[r] = None
      BY <2>1, <2>2, <3>1 DEF WasRead
    <3>2. CASE srcRoles[r] # None
      <4>1. importedRoles'[r] = [perms |-> srcRoles[r], raw |-> r \in raw]
        BY <2>1, <3>2
      <4>2. srcRoles[r] \in SUBSET Perm
        BY <1>0, <3>2 DEF PermsOK, Roles
      <4>3. importedRoles'[r] \in Row /\ importedRoles'[r].perms = srcRoles[r]
            /\ importedRoles'[r].raw = (r \in raw)
        BY <4>1, <4>2 DEF Row
      <4>4. importedRoles'[r] # None
        BY <4>3, RolesAssumption
      <4>5. QED BY <2>2, <2>3, <3>2, <4>3, <4>4 DEF WasRead
    <3>3. QED BY <3>1, <3>2
  <2>5. importedRoles' \in [Role -> Row \cup {None}]
    BY <2>1, <2>4
  <2>6. PermsOK' /\ EntriesOK'
    BY <1>0, <2>2, <2>5 DEF PermsOK, EntriesOK
  <2>7. ReadOK'
    BY <2>2, <2>4 DEF ReadOK
  <2>8. MapOK' /\ AppliedOK' /\ TodoAtEnd'
    BY <2>2 DEF MapOK, AppliedOK, TodoAtEnd
  <2>9. QED BY <2>6, <2>7, <2>8 DEF RolesInv
<1>5. CASE EndImportOfRoles \/ EndCleanupOfRoles
  <2>1. /\ \/ pc = "list" /\ roleTodo = {} /\ pc' = "clean"
           \/ pc = "clean" /\ pc' = "map" /\ roleTodo' = {"map"}
        /\ clean' = clean
        /\ UNCHANGED <<srcRoles, destRoles, roleRecords, savedRoles, importedRoles,
                       knownRoles, behind>>
    BY <1>5 DEF EndImportOfRoles, EndImport, EndCleanupOfRoles, EndCleanup, roleOrgs
  <2>2. PermsOK' /\ EntriesOK'
    BY <1>0, <2>1 DEF PermsOK, EntriesOK
  <2>3. ReadOK'
    BY <1>0, <2>1 DEF ReadOK, WasRead
  <2>4. MapOK' /\ AppliedOK' /\ TodoAtEnd'
    BY <2>1 DEF MapOK, AppliedOK, TodoAtEnd
  <2>5. QED BY <2>2, <2>3, <2>4 DEF RolesInv
<1>6. CASE MapRoles
  <2>1. /\ pc = "map" /\ pc' = pc /\ roleTodo' = {} /\ (clean' => clean)
        /\ knownRoles' \in {destRoles, NoRoles} /\ (clean' => knownRoles' = destRoles)
        /\ UNCHANGED <<srcRoles, destRoles, roleRecords, savedRoles, importedRoles, behind>>
    BY <1>6 DEF MapRoles, OnlyRoles, Charge, roleOrgs
  <2>2. NoRoles \in Roles /\ \A r \in Role : NoRoles[r] = None
    BY DEF NoRoles, Roles
  <2>3. PermsOK' /\ EntriesOK'
    BY <1>0, <2>1, <2>2 DEF PermsOK, EntriesOK
  <2>4. ReadOK'
    BY <1>0, <2>1 DEF ReadOK, WasRead
  <2>5. MapOK'
    BY <2>1, <2>2 DEF MapOK, Fits
  <2>6. AppliedOK' /\ TodoAtEnd'
    BY <2>1 DEF AppliedOK, TodoAtEnd
  <2>7. QED BY <2>3, <2>4, <2>5, <2>6 DEF RolesInv
<1>7. CASE EndMapOfRoles
  <2>1. /\ pc = "map" /\ roleTodo = {} /\ pc' = "apply" /\ clean' = clean
        /\ roleTodo' = Present(importedRoles)
        /\ UNCHANGED <<srcRoles, destRoles, roleRecords, savedRoles, importedRoles,
                       knownRoles, behind>>
    BY <1>7 DEF EndMapOfRoles, EndMap, roleOrgs
  <2>2. roleTodo' = {r \in Role : importedRoles[r] # None}
    BY <1>0, <2>1 DEF PermsOK, Present
  <2>3. PermsOK' /\ EntriesOK'
    BY <1>0, <2>1 DEF PermsOK, EntriesOK
  <2>4. ReadOK'
    BY <1>0, <2>1, <2>2 DEF ReadOK, WasRead
  <2>5. MapOK'
    BY <1>0, <2>1, <2>2 DEF MapOK, Fits
  <2>6. AppliedOK' /\ TodoAtEnd'
    BY <2>1, <2>2 DEF AppliedOK, TodoAtEnd
  <2>7. QED BY <2>3, <2>4, <2>5, <2>6 DEF RolesInv
<1>8. CASE \E r \in Role : ApplyRole(r)
  BY <1>8, ApplyRoleInv
<1>9. CASE DumpRoles \/ CrashOfRoles
  <2>1. /\ pc' = "idle" /\ importedRoles' = NoRoles /\ knownRoles' = NoRoles
        /\ UNCHANGED <<srcRoles, destRoles>>
    BY <1>9 DEF DumpRoles, Dump, Interrupt, CrashOfRoles, Crash, Exit, ExitOfRoles, roleOrgs
  <2>2. \/ savedRoles' = roleRecords /\ roleRecords' = roleRecords /\ behind' = behind
        \/ /\ savedRoles' = savedRoles /\ roleRecords' = savedRoles
           /\ behind' = behind \cup {r \in Role : savedRoles[r] \notin {None, roleRecords[r]}}
    BY <1>9 DEF DumpRoles, SaveRoles, CrashOfRoles
  <2>3. NoRoles \in Roles /\ NoRoles \in [Role -> Row \cup {None}]
        /\ \A r \in Role : NoRoles[r] = None
    BY DEF NoRoles, Roles
  <2>4. PermsOK'
    BY <1>0, <2>1, <2>2, <2>3 DEF PermsOK
  <2>5. EntriesOK'
    BY <1>0, <2>1, <2>2 DEF EntriesOK
  <2>6. ReadOK' /\ MapOK' /\ AppliedOK' /\ TodoAtEnd'
    BY <2>1, <2>3 DEF ReadOK, MapOK, AppliedOK, TodoAtEnd
  <2>7. QED BY <2>4, <2>5, <2>6 DEF RolesInv
<1>10. QED
  BY <1>1, <1>2, <1>3, <1>4, <1>5, <1>6, <1>7, <1>8, <1>9 DEF RolesNext

\* A diff after a pass in which no request failed finds nothing to do for roles,
\* although the destination does not have, or leaves out, some of the permissions.
THEOREM DiffsConvergeCorrect == RolesSpec => []DiffsConverge
<1>1. RolesInv => DiffsConverge
  <2> SUFFICES ASSUME RolesInv, pc = "dump", clean,
                      NEW r \in Present(importedRoles) \ (Managed \cup behind)
               PROVE  (r \in Builtin => destRoles[r] # None /\ destRoles[r] \subseteq srcRoles[r]) =>
                        NoDiff(r, importedRoles[r], destRoles[r], roleRecords[r])
    BY DEF DiffsConverge, NoDiff
  <2>1. r \in Role \ (Managed \cup behind \cup roleTodo) /\ importedRoles[r] # None
    BY DEF RolesInv, TodoAtEnd, PermsOK, Present
  <2>2. QED BY <2>1 DEF RolesInv, AppliedOK, Applied, Converged
<1>2. QED BY <1>1, RolesInitInv, RolesStepInv, PTL DEF RolesSpec

\* The roles of a pass in which no request failed have the permissions that the source
\* gives and the destination has and grants, and no others.
THEOREM RolesReachCorrect == RolesSpec => []RolesReach
<1>1. RolesInv => RolesReach
  <2> SUFFICES ASSUME RolesInv, pc = "dump", clean,
                      NEW r \in Present(srcRoles) \ (Builtin \cup Managed \cup behind)
               PROVE  Reached(r)
    BY DEF RolesReach, Reached
  <2>1. r \in Role /\ srcRoles[r] # None
    BY DEF RolesInv, PermsOK, Roles, Present
  <2>2. WasRead(r)
    BY <2>1 DEF RolesInv, ReadOK
  <2>3. importedRoles[r] # None /\ r \notin roleTodo
    BY <2>1, <2>2 DEF WasRead, RolesInv, TodoAtEnd
  <2>4. QED BY <2>1, <2>3 DEF RolesInv, AppliedOK, Applied
<1>2. QED BY <1>1, RolesInitInv, RolesStepInv, PTL DEF RolesSpec

-----------------------------------------------------------------------------
(* What a pass without failure does to users and seats.                    *)

SeatsTyped == {seats, holds, tracked, rows, seated, saved.seats} \subseteq Seats

\* An account is as its entry says, and a seat with an entry is taken, unless the
\* entry may be behind.
AsEntered ==
  /\ \A u \in User \ unsure :
       records[u] # None => Patched(accounts[u], records[u]) = accounts[u]
  /\ \A s \in Seat \ (unsure \cup byHand) : tracked[s] # None => holds[s] # None

\* The maps are up to date: that of the users for those whose turn has not come.
Mapped(u) == /\ known[u] \in {None, accounts[u]}
             /\ clean => known[u] = accounts[u]

MapsOK ==
  /\ pc \in {"idle", "list", "clean"} => known = Absent /\ seated = Vacant
  /\ pc = "map" => IF "users" \in todo THEN known = Absent
                                       ELSE \A u \in User : Mapped(u)
  /\ pc = "apply" => \A u \in todo \cap User : Mapped(u)
  /\ \A s \in Seat \ byHand : seated[s] # None => holds[s] # None

\* The turn of a seat comes after that of its user, and every turn comes.
TurnsOK ==
  /\ pc = "apply" => \A s \in Seat :
       IF s \in todo THEN rows[s] # None
                     ELSE rows[s] # None => s.user \notin todo
  /\ pc = "dump" => todo = {}

ReachInv == SeatsTyped /\ AsEntered /\ MapsOK /\ TurnsOK

HasAccess(u) == /\ accounts[u] # None
                /\ Patched(accounts[u], imported[u]) = accounts[u]
                /\ imported[u].roles \subseteq accounts[u].roles

UsersReached ==
  pc \in {"apply", "dump"} /\ clean =>
    \A u \in User \ (todo \cup unsure) : imported[u] # None => HasAccess(u)

SeatsReached ==
  pc \in {"apply", "dump"} /\ clean =>
    \A s \in Seat \ (todo \cup unsure \cup byHand) :
      rows[s] # None /\ records[s.user] # None => holds[s] # None

\* Patching an account again changes nothing.
LEMMA PatchedTwice ==
  ASSUME NEW a \in Account, NEW b \in Account
  PROVE  /\ Patched(Patched(a, b), b) = Patched(a, b)
         /\ Patched(a, b).enabled = b.enabled /\ Patched(a, b).email = b.email
         /\ Patched(a, b) \in Account
         /\ Patched(a, a) = a
  BY DEF Patched, Account

\* What counts of an account is whether it is enabled, and its email.
LEMMA PatchedIs ==
  ASSUME NEW a \in Account, NEW b \in Account
  PROVE  (Patched(a, b) = a) <=> (a.enabled = b.enabled /\ a.email = b.email)
  BY DEF Patched, Account

\* What the handler of u leaves if it does not make the entry unsure, and if it does
\* not fail either.
Leaves(u) ==
  /\ \A v \in User \ {u} : accounts'[v] = accounts[v] /\ records'[v] = records[v]
  /\ unsure' \in {unsure, unsure \cup {u}} /\ (clean' => clean)
  /\ u \notin unsure' /\ records'[u] # None =>
       Patched(accounts'[u], records'[u]) = accounts'[u]

Serves(u) == clean' /\ u \notin unsure' => HasAccess(u)'

LEMMA UpdateLeaves ==
  ASSUME UsersOK, NEW u \in User, NEW base \in Account, imported[u] # None,
         accounts[u] # None, base.roles \subseteq accounts[u].roles,
         u \notin unsure => Patched(accounts[u], base) = accounts[u],
         imported' = imported, Update(u, base)
  PROVE  Leaves(u) /\ Serves(u)
<1> DEFINE want == imported[u]  missing == want.roles \ base.roles
<1>1. want \in Account /\ accounts[u] \in Account /\ None \notin Account
  BY AccountsAssumption DEF UsersOK, Entries
<1>2. PICK taken \in SUBSET missing : \E given \in SUBSET taken :
      \E a \in Answer \cup {"unsent"} :
        /\ a = "unsent" => given # missing
        /\ Charge(a # "ok" \/ given # missing)
        /\ LET now    == WithRoles(accounts[u], taken)
               after  == IF Done(a) THEN Patched(now, want) ELSE now
               entry  == Recorded(base, given, want)
           IN  /\ accounts' = [accounts EXCEPT ![u] = after]
               /\ \E told \in {{}, after.roles} :
                    records' = [records EXCEPT ![u] =
                      IF a = "ok" THEN WithRoles(Patched(entry, want), told)
                                  ELSE entry]
        /\ unsure' = IF a = "lost" THEN unsure \cup {u} ELSE unsure
  BY DEF Update
<1>3. PICK given \in SUBSET taken, a \in Answer \cup {"unsent"} :
        /\ Charge(a # "ok" \/ given # missing)
        /\ LET now    == WithRoles(accounts[u], taken)
               after  == IF Done(a) THEN Patched(now, want) ELSE now
               entry  == Recorded(base, given, want)
           IN  /\ accounts' = [accounts EXCEPT ![u] = after]
               /\ \E told \in {{}, after.roles} :
                    records' = [records EXCEPT ![u] =
                      IF a = "ok" THEN WithRoles(Patched(entry, want), told)
                                  ELSE entry]
        /\ unsure' = IF a = "lost" THEN unsure \cup {u} ELSE unsure
  BY <1>2
<1> DEFINE now   == WithRoles(accounts[u], taken)
           after == IF Done(a) THEN Patched(now, want) ELSE now
           entry == Recorded(base, given, want)
<1>4. PICK told \in {{}, after.roles} :
        records' = [records EXCEPT ![u] =
          IF a = "ok" THEN WithRoles(Patched(entry, want), told) ELSE entry]
  BY <1>3
<1> DEFINE new == IF a = "ok" THEN WithRoles(Patched(entry, want), told) ELSE entry
<1>5. taken \subseteq Role /\ given \subseteq Role /\ missing \subseteq Role
  BY <1>1 DEF Account
<1>6. /\ now \in Account /\ now.roles = accounts[u].roles \cup taken
      /\ now.enabled = accounts[u].enabled /\ now.email = accounts[u].email
  BY <1>1, <1>5 DEF WithRoles, Account
<1>7. /\ entry \in Account /\ entry.enabled = base.enabled /\ entry.email = base.email
  BY <1>5 DEF Recorded, WithRoles, Account
<1>8. /\ after \in Account /\ after.roles = now.roles
      /\ after.enabled = IF Done(a) THEN want.enabled ELSE accounts[u].enabled
      /\ after.email = IF Done(a) THEN want.email ELSE accounts[u].email
  BY <1>1, <1>6, PatchKeepsRoles, PatchedTwice
<1>9. told \subseteq Role
  BY <1>4, <1>8 DEF Account
<1>10. /\ new \in Account
       /\ new.enabled = IF a = "ok" THEN want.enabled ELSE base.enabled
       /\ new.email = IF a = "ok" THEN want.email ELSE base.email
  <2>1. Patched(entry, want) \in Account
        /\ Patched(entry, want).enabled = want.enabled /\ Patched(entry, want).email = want.email
    BY <1>1, <1>7, PatchedTwice
  <2>2. ASSUME NEW x \in Account
        PROVE  /\ WithRoles(x, told) \in Account
               /\ WithRoles(x, told).enabled = x.enabled /\ WithRoles(x, told).email = x.email
    BY <1>9 DEF WithRoles, Account
  <2>3. QED BY <1>7, <2>1, <2>2
<1>11. /\ accounts' = [accounts EXCEPT ![u] = after] /\ records' = [records EXCEPT ![u] = new]
       /\ unsure' = IF a = "lost" THEN unsure \cup {u} ELSE unsure
       /\ clean' => clean /\ a = "ok" /\ given = missing
  BY <1>3, <1>4 DEF Charge
<1> HIDE DEF new, after, entry, now
<1>12. /\ accounts'[u] = after /\ records'[u] = new
       /\ \A v \in User \ {u} : accounts'[v] = accounts[v] /\ records'[v] = records[v]
  BY <1>11 DEF UsersOK, Entries
<1>13. u \notin unsure' => Patched(after, new) = after
  <2>1. ASSUME u \notin unsure' PROVE after.enabled = new.enabled /\ after.email = new.email
    <3>1. u \notin unsure /\ a # "lost"
      BY <1>11, <2>1
    <3>2. accounts[u].enabled = base.enabled /\ accounts[u].email = base.email
      BY <1>1, <3>1, PatchedIs
    <3>3. Done(a) <=> a = "ok"
      BY <3>1 DEF Done
    <3>4. QED BY <1>8, <1>10, <3>2, <3>3
  <2>2. QED BY <1>8, <1>10, <2>1, PatchedIs
<1>14. Leaves(u)
  BY <1>11, <1>12, <1>13 DEF Leaves
<1>15. ASSUME clean' PROVE HasAccess(u)'
  <2>1. a = "ok" /\ given = missing /\ Done(a)
    BY <1>11, <1>15 DEF Done
  <2>2. Patched(after, want) = after
    BY <1>1, <1>8, <2>1, PatchedIs
  <2>3. want.roles \subseteq after.roles
    BY <1>6, <1>8, <2>1
  <2>4. QED BY <1>1, <1>8, <1>12, <2>2, <2>3 DEF HasAccess
<1>16. QED BY <1>14, <1>15 DEF Serves

LEMMA CreateLeaves ==
  ASSUME UsersOK, NEW u \in User, imported[u] # None, records[u] = None,
         clean => accounts[u] = None, imported' = imported, Create(u)
  PROVE  Leaves(u) /\ Serves(u)
<1> DEFINE want == imported[u]  first == [want EXCEPT !.email = None]
<1>1. want \in Account /\ None \notin Account
  BY AccountsAssumption DEF UsersOK, Entries
<1>2. first \in Account
  BY <1>1 DEF Account
<1>3. CASE accounts[u] # None
  BY <1>3 DEF Create, Leaves, Serves
<1>4. CASE accounts[u] = None
  <2>1. PICK a \in Answer, b \in Answer :
          /\ a # "ok" \/ want.email = None => b = "ok"
          /\ Charge(a # "ok" \/ b # "ok")
          /\ accounts' = [accounts EXCEPT ![u] =
               CASE a = "refused"         -> None
                 [] a = "lost" \/ ~Done(b) -> first
                 [] OTHER                  -> want]
          /\ records' = [records EXCEPT ![u] =
               CASE a # "ok" -> None
                 [] b # "ok" -> first
                 [] OTHER    -> want]
          /\ unsure' = IF b = "lost" THEN unsure \cup {u} ELSE unsure
    BY <1>4 DEF Create
  <2> DEFINE x == accounts'[u]  y == records'[u]
  <2>2. /\ y # None /\ b # "lost" => x = y /\ y \in Account
        /\ a = "ok" /\ b = "ok" => x = want
        /\ \A v \in User \ {u} : accounts'[v] = accounts[v] /\ records'[v] = records[v]
        /\ clean' => clean /\ a = "ok" /\ b = "ok"
    BY <1>1, <1>2, <2>1 DEF Answer, Done, UsersOK, Entries, Charge
  <2> HIDE DEF x, y, first
  <2>3. u \notin unsure' => b # "lost"
    BY <2>1
  <2>4. Leaves(u)
    BY <2>1, <2>2, <2>3, PatchedTwice DEF Leaves, x, y
  <2>5. Serves(u)
    <3>1. ASSUME clean' PROVE accounts'[u] = want
      BY <2>2, <3>1 DEF x
    <3>2. QED BY <1>1, <3>1, PatchedTwice DEF Serves, HasAccess
  <2>6. QED BY <2>4, <2>5
<1>5. QED BY <1>3, <1>4

LEMMA ApplyUserLeaves ==
  ASSUME AccountsInv, ReachInv, NEW u \in User, ApplyUser(u)
  PROVE  Leaves(u) /\ Serves(u)
<1>1. /\ pc = "apply" /\ u \in todo /\ imported' = imported
      /\ imported[u] # None /\ Mapped(u)
  BY DEF ApplyUser, readVars, AccountsInv, TodoOK, ReachInv, MapsOK
<1>2. ASSUME NEW f \in {records, known}, f[u] # None
      PROVE  /\ f[u] \in Account /\ accounts[u] \in Account
             /\ accounts[u] # None /\ f[u].roles \subseteq accounts[u].roles
  BY <1>2 DEF AccountsInv, UsersOK, Entries, Held
<1>3. ASSUME NEW f \in {records, known}, f[u] # None, u \notin unsure
      PROVE  Patched(accounts[u], f[u]) = accounts[u]
  BY <1>1, <1>2, <1>3, PatchedTwice DEF ReachInv, AsEntered, Mapped
<1>4. ASSUME NEW f \in {records, known}, f[u] # None, Same(u, f[u])
      PROVE  Leaves(u) /\ Serves(u)
  <2>1. /\ accounts' = accounts /\ records' = [records EXCEPT ![u] = f[u]]
        /\ clean' = clean /\ unsure' = unsure /\ imported[u] = f[u]
    BY <1>4 DEF Same
  <2>2. records'[u] = f[u] /\ \A v \in User \ {u} : records'[v] = records[v]
    BY <2>1 DEF AccountsInv, UsersOK, Entries
  <2>3. QED BY <1>1, <1>2, <1>3, <1>4, <2>1, <2>2 DEF Leaves, Serves, HasAccess
<1>5. ASSUME NEW f \in {records, known}, f[u] # None, Update(u, f[u])
      PROVE  Leaves(u) /\ Serves(u)
  BY <1>1, <1>2, <1>3, <1>5, UpdateLeaves DEF AccountsInv
<1>6. ASSUME records[u] = None, known[u] = None, Create(u) PROVE Leaves(u) /\ Serves(u)
  BY <1>1, <1>6, CreateLeaves DEF AccountsInv, Mapped
<1>7. QED BY <1>4, <1>5, <1>6 DEF ApplyUser, Adopt

LEMMA DeleteUserLeaves ==
  ASSUME AccountsInv, ReachInv, NEW u \in User, DeleteUser(u)
  PROVE  Leaves(u)
<1>1. PICK a \in Answer :
        /\ Charge(a # "ok")
        /\ accounts' = IF Done(a) THEN [accounts EXCEPT ![u].enabled = FALSE] ELSE accounts
        /\ records' = IF a = "ok" THEN [records EXCEPT ![u] = None] ELSE records
        /\ unsure' = IF a = "lost" THEN unsure \cup {u} ELSE unsure
  BY DEF DeleteUser
<1>2. /\ \A v \in User \ {u} : accounts'[v] = accounts[v] /\ records'[v] = records[v]
      /\ clean' => clean
      /\ a = "ok" => records'[u] = None
      /\ a = "refused" => accounts' = accounts /\ records' = records
  BY <1>1 DEF AccountsInv, UsersOK, Entries, Charge, Answer, Done
<1>3. u \notin unsure' => u \notin unsure /\ a \in {"ok", "refused"}
  BY <1>1 DEF Answer
<1>4. QED BY <1>1, <1>2, <1>3 DEF Leaves, ReachInv, AsEntered

\* A request for a seat gives it, as does the seat that is found.
SeatLeaves(s) ==
  /\ holds' = holds \/ (holds' = [holds EXCEPT ![s] = rows[s]] /\ rows[s] # None)
  /\ tracked' = tracked
       \/ (tracked' = [tracked EXCEPT ![s] = rows[s]] /\ holds'[s] # None)
  /\ unsure' \in {unsure, unsure \cup {s}} /\ (clean' => clean)
  /\ clean' /\ s \notin unsure' \cup byHand /\ records[s.user] # None =>
       holds'[s] # None

LEMMA ApplySeatLeaves ==
  ASSUME ReachInv, NEW s \in Seat, ApplySeat(s)
  PROVE  SeatLeaves(s)
<1>1. pc = "apply" /\ s \in todo /\ rows[s] # None /\ DOMAIN holds = Seat
  BY DEF ApplySeat, ReachInv, TurnsOK, SeatsTyped, Seats
<1>2. /\ s \notin byHand /\ seated[s] # None => holds[s] # None
      /\ s \notin byHand \cup unsure /\ tracked[s] # None => holds[s] # None
  BY DEF ReachInv, MapsOK, AsEntered
<1>3. ASSUME SeatUnchanged, s \notin unsure \cup byHand /\ records[s.user] # None => holds[s] # None
      PROVE  SeatLeaves(s)
  BY <1>3 DEF SeatUnchanged, SeatLeaves
<1>4. ASSUME NEW fits, Send(s, fits), ~fits /\ s \notin byHand => holds[s] # None
      PROVE  SeatLeaves(s)
  <2>1. CASE ~fits
    BY <1>3, <1>4, <2>1 DEF Send
  <2>2. CASE fits
    <3>1. PICK a \in Answer :
            /\ Charge(a # "ok")
            /\ holds' = IF Done(a) THEN [holds EXCEPT ![s] = rows[s]] ELSE holds
            /\ tracked' = IF a = "ok" THEN [tracked EXCEPT ![s] = rows[s]] ELSE tracked
            /\ unsure' = IF a = "lost" /\ tracked[s] # None THEN unsure \cup {s} ELSE unsure
      BY <1>4, <2>2 DEF Send
    <3>2. clean' => clean /\ a = "ok"
      BY <3>1 DEF Charge
    <3>3. a = "ok" => holds' = [holds EXCEPT ![s] = rows[s]] /\ holds'[s] # None
      BY <1>1, <3>1 DEF Done
    <3>4. QED BY <1>1, <3>1, <3>2, <3>3 DEF SeatLeaves
  <2>3. QED BY <2>1, <2>2
<1>5. ASSUME CreateSeat(s) PROVE SeatLeaves(s)
  <2>1. CASE seated[s] # None /\ PassOver(s)
    BY <1>2, <1>3, <2>1 DEF PassOver
  <2>2. CASE Send(s, holds[s] = None)
    BY <1>4, <2>2
  <2>3. QED BY <1>5, <2>1, <2>2 DEF CreateSeat
<1>6. ASSUME UpdateSeat(s), tracked[s] # None PROVE SeatLeaves(s)
  <2>1. CASE seated[s] = tracked[s] /\ SeatUnchanged
    BY <1>2, <1>3, <1>6, <2>1
  <2>2. CASE seated[s] \notin {None, tracked[s]} /\ Send(s, holds[s] # None)
    BY <1>2, <1>4, <2>2
  <2>3. QED BY <1>5, <1>6, <2>1, <2>2 DEF UpdateSeat
<1>7. QED BY <1>1, <1>2, <1>3, <1>5, <1>6 DEF ApplySeat

\* The handler of a user keeps the invariants.
LEMMA UserStep ==
  ASSUME AccountsInv, ReachInv, NEW u \in User, Leaves(u), pc = "apply" => Serves(u),
         pc' = pc, pc \in {"clean", "apply"}, u \in todo, todo' = todo \ {u},
         UNCHANGED <<seats, holds, tracked, saved, imported, rows, known, seated, byHand>>
  PROVE  ReachInv' /\ (UsersReached => UsersReached') /\ (SeatsReached => SeatsReached')
<1>0. u \notin Seat /\ SeatsTyped /\ AsEntered /\ MapsOK /\ TurnsOK
  BY AccountsAssumption DEF ReachInv
<1>1. SeatsTyped'
  BY <1>0 DEF SeatsTyped
<1>2. AsEntered'
  BY <1>0 DEF AsEntered, Leaves
<1>3. MapsOK'
  BY <1>0 DEF MapsOK, Mapped, Leaves
<1>4. TurnsOK'
  BY <1>0 DEF TurnsOK
<1>5. UsersReached => UsersReached'
  BY DEF UsersReached, HasAccess, Leaves, Serves
<1>6. SeatsReached => SeatsReached'
  <2>1. SUFFICES ASSUME SeatsReached, pc = "apply", clean',
                        NEW s \in Seat \ (todo' \cup unsure' \cup byHand'),
                        rows'[s] # None, records'[s.user] # None
                 PROVE  holds'[s] # None
    BY DEF SeatsReached
  <2>2. s \notin todo \cup unsure \cup byHand /\ clean
    BY <1>0, <2>1 DEF Leaves
  <2>3. s.user \in User \ {u}
    BY <1>0, <2>1, <2>2 DEF TurnsOK, Seat
  <2>4. QED BY <2>1, <2>2, <2>3 DEF SeatsReached, Leaves
<1>7. QED BY <1>1, <1>2, <1>3, <1>4, <1>5, <1>6 DEF ReachInv

\* So does that of a seat.
LEMMA SeatStep ==
  ASSUME ReachInv, NEW s \in Seat, ApplySeat(s)
  PROVE  ReachInv' /\ (UsersReached => UsersReached') /\ (SeatsReached => SeatsReached')
<1>0. s \notin User /\ SeatsTyped /\ AsEntered /\ MapsOK /\ TurnsOK
  BY AccountsAssumption DEF ReachInv
<1>1. /\ pc = "apply" /\ pc' = pc /\ s \in todo /\ todo' = todo \ {s} /\ s.user \notin todo
      /\ UNCHANGED <<seats, accounts, records, saved, imported, rows, known, seated, byHand>>
  BY DEF ApplySeat, readVars
<1>2. SeatLeaves(s)
  BY ApplySeatLeaves
<1>3. holds \in Seats /\ tracked \in Seats /\ rows \in Seats
  BY <1>0 DEF SeatsTyped
<1>4. /\ holds' \in Seats /\ tracked' \in Seats
      /\ \A q \in Seat \ {s} : holds'[q] = holds[q] /\ tracked'[q] = tracked[q]
      /\ holds'[s] = None => holds[s] = None
      /\ tracked'[s] # None => tracked[s] # None \/ holds'[s] # None
      /\ unsure \subseteq unsure' /\ unsure' \ {s} = unsure \ {s} /\ (clean' => clean)
      /\ clean' /\ s \notin unsure' \cup byHand /\ records[s.user] # None => holds'[s] # None
  BY <1>2, <1>3 DEF SeatLeaves, Seats
<1>5. SeatsTyped'
  BY <1>0, <1>1, <1>4 DEF SeatsTyped
<1>6. AsEntered'
  BY <1>0, <1>1, <1>4 DEF AsEntered
<1>7. MapsOK'
  BY <1>0, <1>1, <1>4 DEF MapsOK, Mapped
<1>8. TurnsOK'
  BY <1>0, <1>1 DEF TurnsOK
<1>9. UsersReached => UsersReached'
  BY <1>0, <1>1, <1>4 DEF UsersReached, HasAccess
<1>10. SeatsReached => SeatsReached'
  BY <1>1, <1>4 DEF SeatsReached
<1>11. QED BY <1>5, <1>6, <1>7, <1>8, <1>9, <1>10 DEF ReachInv

LEMMA ReachInit == Init => ReachInv /\ UsersReached /\ SeatsReached
<1> SUFFICES ASSUME Init PROVE ReachInv /\ UsersReached /\ SeatsReached
  OBVIOUS
<1>1. seats \in Seats /\ holds \in Seats /\ Vacant \in Seats
  BY AccountsAssumption DEF Init, Start, Vacant, Seats
<1>2. /\ records = Absent /\ tracked = Vacant /\ saved.seats = Vacant
      /\ rows = Vacant /\ known = Absent /\ seated = Vacant /\ pc = "idle"
  BY DEF Init
<1>3. SeatsTyped
  BY <1>1, <1>2 DEF SeatsTyped
<1>4. AsEntered /\ MapsOK
  BY <1>2 DEF AsEntered, MapsOK, Absent, Vacant
<1>5. TurnsOK /\ UsersReached /\ SeatsReached
  BY <1>2 DEF TurnsOK, UsersReached, SeatsReached
<1>6. QED BY <1>3, <1>4, <1>5 DEF ReachInv

\* In the other phases nothing is claimed of what is reached.
LEMMA Elsewhere ==
  ASSUME ReachInv', pc' \notin {"apply", "dump"}
  PROVE  ReachInv' /\ UsersReached' /\ SeatsReached'
  BY DEF UsersReached, SeatsReached

LEMMA ReachNext ==
  ASSUME AccountsInv, ReachInv, [Next]_vars
  PROVE  ReachInv' /\ (UsersReached => UsersReached') /\ (SeatsReached => SeatsReached')
<1>0. SeatsTyped /\ AsEntered /\ MapsOK /\ TurnsOK
  BY DEF ReachInv
<1>1. CASE UNCHANGED vars \/ \E u \in User : \E a \in Account : EditUser(u, a)
  <2>1. UNCHANGED <<seats, accounts, holds, stateVars, readVars, pc, todo, clean, byHand, unsure>>
    BY <1>1 DEF EditUser, vars, orgVars, ghostVars
  <2>2. SeatsTyped' /\ AsEntered' /\ MapsOK' /\ TurnsOK'
    BY <1>0, <2>1 DEF SeatsTyped, AsEntered, MapsOK, Mapped, TurnsOK, stateVars, readVars
  <2>3. QED BY <2>1, <2>2 DEF ReachInv, UsersReached, SeatsReached, HasAccess, stateVars, readVars
<1>2. CASE \E s \in Seat : \E l \in Level \cup {None} : EditSeat(s, l)
  <2>1. /\ UNCHANGED <<accounts, holds, stateVars, readVars, pc, todo, clean, byHand, unsure>>
        /\ pc \in {"idle", "list"} /\ seats' \in Seats
    BY <1>0, <1>2 DEF EditSeat, SeatsTyped, Seats
  <2>2. SeatsTyped' /\ AsEntered' /\ MapsOK' /\ TurnsOK'
    BY <1>0, <2>1 DEF SeatsTyped, AsEntered, MapsOK, Mapped, TurnsOK, stateVars, readVars
  <2>3. QED BY <2>1, <2>2, Elsewhere DEF ReachInv
<1>3. CASE \E s \in Seat : \E l \in Level \cup {None} : EditByHand(s, l)
  <2>1. PICK s \in Seat, l \in Level \cup {None} : EditByHand(s, l)
    BY <1>3
  <2>2. /\ UNCHANGED <<seats, accounts, stateVars, readVars, pc, todo, clean, unsure>>
        /\ holds' = [holds EXCEPT ![s] = l] /\ byHand' = byHand \cup {s}
    BY <2>1 DEF EditByHand
  <2>3. holds' \in Seats /\ \A q \in Seat \ {s} : holds'[q] = holds[q]
    BY <1>0, <2>2 DEF SeatsTyped, Seats
  <2>4. SeatsTyped' /\ AsEntered' /\ MapsOK' /\ TurnsOK'
    BY <1>0, <2>2, <2>3 DEF SeatsTyped, AsEntered, MapsOK, Mapped, TurnsOK, stateVars, readVars
  <2>5. QED
    BY <2>2, <2>3, <2>4 DEF ReachInv, UsersReached, SeatsReached, HasAccess, stateVars, readVars
<1>4. CASE Begin \/ \E t \in Team : ListTeam(t)
  <2>1. /\ UNCHANGED <<seats, accounts, holds, stateVars, known, seated, byHand, unsure>>
        /\ pc \in {"idle", "list"} /\ pc' = "list"
    BY <1>4 DEF Begin, ListTeam, orgVars, ghostVars
  <2>2. rows' \in Seats
    <3>1. CASE Begin
      BY <1>0, <3>1 DEF Begin, SeatsTyped
    <3>2. CASE \E t \in Team : ListTeam(t)
      BY <1>0, <3>2 DEF ListTeam, Fetched, SeatsTyped, Seats
    <3>3. QED BY <1>4, <3>1, <3>2
  <2>3. SeatsTyped' /\ AsEntered' /\ MapsOK' /\ TurnsOK'
    BY <1>0, <2>1, <2>2 DEF SeatsTyped, AsEntered, MapsOK, TurnsOK, stateVars
  <2>4. QED BY <2>1, <2>3, Elsewhere DEF ReachInv
<1>5. CASE EndImport \/ EndCleanup
  <2>1. /\ UNCHANGED <<seats, accounts, holds, stateVars, readVars, byHand, unsure>>
        /\ \/ pc = "list" /\ pc' = "clean"
           \/ pc = "clean" /\ pc' = "map" /\ "users" \in todo'
    BY <1>5 DEF EndImport, EndCleanup, orgVars, ghostVars
  <2>2. SeatsTyped' /\ AsEntered' /\ MapsOK' /\ TurnsOK'
    BY <1>0, <2>1 DEF SeatsTyped, AsEntered, MapsOK, TurnsOK, stateVars, readVars
  <2>3. QED BY <2>1, <2>2, Elsewhere DEF ReachInv
<1>6. CASE \E s \in Seat : DeleteSeat(s)
  <2>1. PICK s \in Seat : DeleteSeat(s)
    BY <1>6
  <2>2. PICK a \in Answer :
          /\ holds' = IF Done(a) THEN [holds EXCEPT ![s] = None] ELSE holds
          /\ tracked' = IF a = "ok" THEN [tracked EXCEPT ![s] = None] ELSE tracked
          /\ unsure' = IF a = "lost" THEN unsure \cup {s} ELSE unsure
    BY <2>1 DEF DeleteSeat
  <2>3. /\ UNCHANGED <<seats, accounts, records, saved, readVars, pc, byHand>>
        /\ pc = "clean"
    BY <2>1 DEF DeleteSeat
  <2>4. /\ holds' \in Seats /\ tracked' \in Seats
        /\ \A q \in Seat \ {s} : holds'[q] = holds[q] /\ tracked'[q] = tracked[q]
        /\ \/ tracked'[s] = None \/ s \in unsure'
           \/ holds' = holds /\ tracked' = tracked
        /\ unsure \subseteq unsure'
    BY <1>0, <2>2 DEF SeatsTyped, Seats, Answer, Done
  <2>5. SeatsTyped'
    BY <1>0, <2>3, <2>4 DEF SeatsTyped, readVars
  <2>6. AsEntered'
    BY <1>0, <2>3, <2>4 DEF AsEntered
  <2>7. MapsOK' /\ TurnsOK'
    BY <1>0, <2>3 DEF MapsOK, TurnsOK, readVars, Vacant
  <2>8. QED BY <2>3, <2>5, <2>6, <2>7, Elsewhere DEF ReachInv
<1>7. CASE MapUsers
  <2>1. /\ UNCHANGED <<seats, accounts, holds, stateVars, imported, rows, seated, pc, byHand, unsure>>
        /\ pc = "map" /\ "users" \in todo /\ todo' = todo \ {"users"}
        /\ \/ known' = accounts
           \/ known' = known /\ ~clean'
    BY <1>7 DEF MapUsers, Charge, orgVars, ghostVars
  <2>2. SeatsTyped' /\ AsEntered' /\ TurnsOK'
    BY <1>0, <2>1 DEF SeatsTyped, AsEntered, TurnsOK, stateVars
  <2>3. \A u \in User : Mapped(u)'
    BY <1>0, <2>1 DEF MapsOK, Mapped, Absent
  <2>4. MapsOK'
    BY <1>0, <2>1, <2>3 DEF MapsOK
  <2>5. QED BY <2>1, <2>2, <2>4, Elsewhere DEF ReachInv
<1>8. CASE \E t \in Team : MapTeam(t)
  <2>1. PICK t \in Team : MapTeam(t)
    BY <1>8
  <2>2. /\ UNCHANGED <<seats, accounts, holds, stateVars, imported, rows, known, pc, byHand, unsure>>
        /\ pc = "map" /\ todo' = todo \ {t} /\ t # "users" /\ (clean' => clean)
        /\ \E cut \in Cuts(holds, t) : seated' = Fetched(holds, seated, t, cut)
    BY <2>1, AccountsAssumption DEF MapTeam, Charge, orgVars, ghostVars
  <2>3. /\ seated' \in Seats
        /\ \A s \in Seat : seated'[s] \in {None, holds[s], seated[s]}
    BY <1>0, <2>2 DEF SeatsTyped, Seats, Fetched
  <2>4. SeatsTyped' /\ AsEntered' /\ TurnsOK'
    BY <1>0, <2>2, <2>3 DEF SeatsTyped, AsEntered, TurnsOK, stateVars
  <2>5. MapsOK'
    BY <1>0, <2>2, <2>3 DEF MapsOK, Mapped
  <2>6. QED BY <2>2, <2>4, <2>5, Elsewhere DEF ReachInv
<1>9. CASE EndMap
  <2>1. /\ UNCHANGED <<seats, accounts, holds, stateVars, readVars, byHand, unsure, clean>>
        /\ pc = "map" /\ pc' = "apply" /\ todo = {}
        /\ todo' = Present(imported) \cup Present(rows)
    BY <1>9 DEF EndMap, orgVars, ghostVars
  <2>2. /\ \A u \in User : imported[u] # None => u \in todo'
        /\ \A s \in Seat : s \in todo' <=> rows[s] # None
    BY <1>0, <2>1, AccountsAssumption DEF AccountsInv, UsersOK, Entries, SeatsTyped, Seats, Present
  <2>3. SeatsTyped' /\ AsEntered' /\ MapsOK' /\ TurnsOK'
    BY <1>0, <2>1, <2>2 DEF SeatsTyped, AsEntered, MapsOK, Mapped, TurnsOK, stateVars, readVars
  <2>4. UsersReached' /\ SeatsReached'
    BY <2>1, <2>2 DEF UsersReached, SeatsReached, readVars
  <2>5. QED BY <2>3, <2>4 DEF ReachInv
<1>10. CASE EndApply
  <2>1. /\ UNCHANGED <<seats, accounts, holds, stateVars, readVars, byHand, unsure, clean, todo>>
        /\ pc = "apply" /\ pc' = "dump" /\ todo = {}
    BY <1>10 DEF EndApply, orgVars, ghostVars
  <2>2. SeatsTyped' /\ AsEntered' /\ MapsOK' /\ TurnsOK'
    BY <1>0, <2>1 DEF SeatsTyped, AsEntered, MapsOK, TurnsOK, stateVars, readVars
  <2>3. QED BY <2>1, <2>2 DEF ReachInv, UsersReached, SeatsReached, HasAccess, stateVars, readVars
<1>11. CASE \E u \in User : ApplyUser(u)
  <2>1. PICK u \in User : ApplyUser(u)
    BY <1>11
  <2>2. /\ pc = "apply" /\ pc' = pc /\ u \in todo /\ todo' = todo \ {u}
        /\ UNCHANGED <<seats, holds, tracked, saved, imported, rows, known, seated, byHand>>
    BY <2>1 DEF ApplyUser, readVars
  <2>3. QED BY <2>1, <2>2, ApplyUserLeaves, UserStep
<1>12. CASE \E u \in User : DeleteUser(u)
  <2>1. PICK u \in User : DeleteUser(u)
    BY <1>12
  <2>2. /\ pc = "clean" /\ pc' = pc /\ u \in todo /\ todo' = todo \ {u}
        /\ UNCHANGED <<seats, holds, tracked, saved, imported, rows, known, seated, byHand>>
    BY <2>1 DEF DeleteUser, readVars
  <2>3. QED BY <2>1, <2>2, DeleteUserLeaves, UserStep
<1>13. CASE \E s \in Seat : ApplySeat(s)
  BY <1>13, SeatStep
<1>14. CASE Dump \/ Interrupt \/ Crash
  <2>1. /\ UNCHANGED <<seats, accounts, holds, byHand>> /\ pc' = "idle"
        /\ rows' = Vacant /\ known' = Absent /\ seated' = Vacant
    BY <1>14 DEF Dump, Interrupt, Crash, Save, Exit, orgVars, ghostVars
  <2>2. \/ /\ UNCHANGED <<records, tracked, unsure>> /\ saved'.seats = tracked
        \/ /\ records' = saved.users /\ tracked' = saved.seats /\ saved' = saved
           /\ unsure' = unsure
                \cup {u \in User : saved.users[u] \notin {None, records[u]}}
                \cup {s \in Seat : saved.seats[s] \notin {None, tracked[s]}}
    BY <1>14 DEF Dump, Interrupt, Crash, Save, ghostVars
  <2>3. Vacant \in Seats /\ \A s \in Seat : Vacant[s] = None
    BY DEF Vacant, Seats
  <2>4. SeatsTyped'
    BY <1>0, <2>1, <2>2, <2>3 DEF SeatsTyped
  <2>5. AsEntered'
    BY <1>0, <2>1, <2>2 DEF AsEntered
  <2>6. MapsOK' /\ TurnsOK'
    BY <2>1, <2>3 DEF MapsOK, TurnsOK
  <2>7. QED BY <2>1, <2>4, <2>5, <2>6, Elsewhere DEF ReachInv
<1>15. QED
  BY <1>1, <1>2, <1>3, <1>4, <1>5, <1>6, <1>7, <1>8, <1>9, <1>10, <1>11, <1>12, <1>13,
     <1>14 DEF Next

LEMMA ReachedAtEnd ==
  ASSUME AccountsInv, ReachInv, UsersReached, SeatsReached
  PROVE  AccountsReach
<1> SUFFICES ASSUME pc = "dump", clean
             PROVE  /\ \A u \in Present(imported) \ unsure : HasAccess(u)
                    /\ \A s \in Present(rows) \ (unsure \cup byHand) :
                         records[s.user] # None => holds[s] # None
  BY DEF AccountsReach, HasAccess
<1>1. todo = {} /\ DOMAIN imported = User /\ DOMAIN rows = Seat
  BY DEF ReachInv, TurnsOK, AccountsInv, UsersOK, Entries, SeatsOK
<1>2. QED BY <1>1 DEF UsersReached, SeatsReached, Present

\* A pass in which no request failed gives every user that it read, and every seat,
\* what the source has, whatever ended the passes before it and whoever gives and
\* takes seats meanwhile.
THEOREM AccountsReachCorrect == Spec => []AccountsReach
<1> DEFINE Inv == AccountsInv /\ ReachInv /\ UsersReached /\ SeatsReached
<1>1. Init => Inv
  BY InitInv, ReachInit
<1>2. Inv /\ [Next]_vars => Inv'
  BY NextInv, ReachNext
<1>3. Inv => AccountsReach
  BY ReachedAtEnd
<1>4. QED BY <1>1, <1>2, <1>3, PTL DEF Spec

-----------------------------------------------------------------------------
(* Users and their roles.                                                  *)

\* The roles of users exist, and roles are not removed.
RolesExist ==
  /\ \A u \in User : source[u].roles \subseteq Present(srcRoles)
  /\ \A u \in User : imported[u] # None => imported[u].roles \subseteq Present(srcRoles)

\* Only built-in roles that the destination lacks have no counterpart after their turn.
HasCounterpart(r) == \/ roleRecords[r] # None
                     \/ r \in Builtin /\ destRoles[r] = None

CreatedOK ==
  pc \in {"apply", "dump"} /\ clean =>
    \A r \in Role \ roleTodo : importedRoles[r] # None => HasCounterpart(r)

\* The handler of a role leaves the others alone, and gives it a counterpart.
LEMMA ApplyRoleCreates ==
  ASSUME RolesInv, NEW r \in Role, ApplyRole(r)
  PROVE  /\ \A q \in Role \ {r} : /\ destRoles'[q] = destRoles[q]
                                  /\ roleRecords'[q] = roleRecords[q]
                                  /\ importedRoles'[q] = importedRoles[q]
         /\ r \in Builtin => destRoles'[r] = destRoles[r]
         /\ clean' => clean /\ HasCounterpart(r)'
<1>1. PICK ok \in BOOLEAN :
       LET entry  == roleRecords[r]
           found  == knownRoles[r]
           mapped == Remapped(importedRoles[r], ok)
           want   == Reconciled(r, mapped, found)
           row    == RowReconciled(importedRoles[r], mapped, want)
       IN  \/ /\ entry # None /\ (Equal(want, entry) \/ r \in Builtin)
              /\ NotSent(r, entry, row, ok)
           \/ /\ entry # None /\ ~Equal(want, entry) /\ r \notin Builtin
              /\ Request(r, want, entry, row, ok)
           \/ /\ entry = None /\ found = None /\ r \in Builtin
              /\ NotSent(r, None, row, ok)
           \/ /\ entry = None /\ found = None /\ r \notin Builtin
              /\ Request(r, want, None, row, ok)
           \/ /\ entry = None /\ found # None
              /\ (r \in Builtin \cup Managed) \/ Equal(want, found)
              /\ NotSent(r, found, row, ok)
           \/ /\ entry = None /\ found # None
              /\ r \notin Builtin \cup Managed /\ ~Equal(want, found)
              /\ Request(r, want, found, row, ok)
  BY DEF ApplyRole
<1> DEFINE found  == knownRoles[r]
           mapped == Remapped(importedRoles[r], ok)
           want   == Reconciled(r, mapped, found)
           row    == RowReconciled(importedRoles[r], mapped, want)
<1>2. /\ pc = "apply" /\ r \in roleTodo
      /\ DOMAIN destRoles = Role /\ DOMAIN roleRecords = Role /\ DOMAIN importedRoles = Role
      /\ importedRoles[r] \in Row /\ (clean => ~importedRoles[r].raw)
      /\ clean => found = destRoles[r]
  <2>1. pc = "apply" /\ r \in roleTodo
    BY DEF ApplyRole
  <2>2. Fits(r) /\ importedRoles[r] # None
    BY <2>1 DEF RolesInv, MapOK
  <2>3. QED BY <2>1, <2>2 DEF RolesInv, PermsOK, Roles, ReadOK, Fits
<1>3. clean /\ ok => want.valid /\ row.raw = importedRoles[r].raw
  BY <1>2 DEF Remapped, Reconciled, RowReconciled, Row
<1> HIDE DEF want, row, mapped
\* A request makes an entry of the role, or keeps the one there is, or fails.
<1>4. \E x :
        /\ x = None => r \in Builtin \/ ~clean \/ destRoles[r] = None
        /\ \/ NotSent(r, x, row, ok) /\ (x = None => r \in Builtin /\ found = None)
           \/ Request(r, want, x, row, ok) /\ r \notin Builtin
  BY <1>1, <1>2 DEF want, row, mapped
<1>5. PICK x :
        /\ x = None => r \in Builtin \/ ~clean \/ destRoles[r] = None
        /\ \/ NotSent(r, x, row, ok) /\ (x = None => r \in Builtin /\ found = None)
           \/ Request(r, want, x, row, ok) /\ r \notin Builtin
  BY <1>4
<1>6. \E e, new :
        /\ Outcome(r, e, new)
        /\ destRoles' = destRoles
             \/ (r \notin Builtin /\ \E p : destRoles' = [destRoles EXCEPT ![r] = p])
        /\ clean' => clean /\ ok
        /\ clean' => \/ e # None
                     \/ r \in Builtin /\ destRoles' = destRoles /\ destRoles[r] = None
  <2>1. CASE NotSent(r, x, row, ok) /\ (x = None => r \in Builtin /\ found = None)
    BY <1>2, <2>1 DEF NotSent, Charge
  <2>2. CASE Request(r, want, x, row, ok) /\ r \notin Builtin
    <3>1. CASE NotSent(r, x, row, ok)
               /\ (~Sendable(row, want) \/ (x = None /\ destRoles[r] # None)
                     \/ (~want.valid /\ x = {}))
      <4>1. Outcome(r, x, row) /\ destRoles' = destRoles /\ (clean' => clean /\ ok)
        BY <3>1 DEF NotSent, Charge
      <4>2. clean' => x # None
        BY <1>3, <1>5, <2>2, <3>1, <4>1 DEF Sendable
      <4>3. QED BY <4>1, <4>2
    <3>2. CASE ~(NotSent(r, x, row, ok)
                 /\ (~Sendable(row, want) \/ (x = None /\ destRoles[r] # None)
                       \/ (~want.valid /\ x = {})))
      <4>1. PICK a \in Answer, dropped \in SUBSET (Gated \cap Sent(want)) :
              LET persisted == Sent(want) \ dropped
              IN  /\ Charge(~ok \/ a # "ok")
                  /\ destRoles' = IF Done(a) THEN [destRoles EXCEPT ![r] = persisted]
                                             ELSE destRoles
                  /\ IF a = "ok" THEN Outcome(r, persisted, Trimmed(row, dropped))
                                 ELSE Outcome(r, x, row)
        BY <2>2, <3>2 DEF Request
      <4>2. clean' => clean /\ ok /\ a = "ok"
        BY <4>1 DEF Charge
      <4>3. clean' => Sent(want) \ dropped # None
        <5>1. clean /\ ok => want.perms \subseteq Perm
          BY <1>2, RolesAssumption DEF want, mapped, Remapped, Reconciled, Row
        <5>2. clean /\ ok => Sent(want) \ dropped \in SUBSET Perm
          BY <5>1 DEF Sent
        <5>3. QED BY <4>2, <5>2, RolesAssumption
      <4>4. QED BY <2>2, <4>1, <4>2, <4>3
    <3>3. QED BY <3>1, <3>2
  <2>3. QED BY <1>5, <2>1, <2>2
<1>7. PICK e, new :
        /\ Outcome(r, e, new)
        /\ destRoles' = destRoles
             \/ (r \notin Builtin /\ \E p : destRoles' = [destRoles EXCEPT ![r] = p])
        /\ clean' => clean /\ ok
        /\ clean' => \/ e # None
                     \/ r \in Builtin /\ destRoles' = destRoles /\ destRoles[r] = None
  BY <1>6
<1>8. /\ roleRecords'[r] = e
      /\ \A q \in Role \ {r} : /\ destRoles'[q] = destRoles[q]
                               /\ roleRecords'[q] = roleRecords[q]
                               /\ importedRoles'[q] = importedRoles[q]
      /\ r \in Builtin => destRoles'[r] = destRoles[r]
  BY <1>2, <1>7 DEF Outcome
<1>9. QED BY <1>7, <1>8 DEF HasCounterpart

AccessInv == /\ AccountsInv /\ RolesInv /\ ReachInv /\ RolesExist /\ CreatedOK
             /\ SeatsReached /\ (BuiltinShared => UsersReached)

\* While users wait for a role, either the role or a built-in one is missing.
LEMMA NobodyPassedOver ==
  ASSUME AccessInv, NEW u \in User, pc = "apply", clean, imported[u] # None,
         Unmapped(u) \cap roleTodo = {}, Unmapped(u) # {}
  PROVE  ~BuiltinShared
<1>1. PICK r \in imported[u].roles : roleRecords[r] = None /\ r \notin roleTodo
  BY DEF Unmapped
<1>2. r \in Role /\ srcRoles[r] # None /\ r \in Present(srcRoles)
  BY <1>1 DEF AccessInv, RolesExist, RolesInv, PermsOK, Roles, Present
<1>3. importedRoles[r] # None
  BY <1>2 DEF AccessInv, RolesInv, ReadOK, WasRead
<1>4. r \in Builtin /\ destRoles[r] = None
  BY <1>1, <1>2, <1>3 DEF AccessInv, CreatedOK, HasCounterpart
<1>5. QED BY <1>2, <1>4 DEF BuiltinShared

LEMMA RolesExistStep ==
  ASSUME AccountsInv, RolesInv, RolesExist, [RolesNext]_allVars
  PROVE  RolesExist'
<1>0. source \in [User -> Account] /\ srcRoles \in Roles
  BY DEF AccountsInv, UsersOK, RolesInv, PermsOK
<1>1. CASE \E r \in Role : \E perms \in SUBSET Perm : EditRole(r, perms)
  <2>1. PICK r \in Role, perms \in SUBSET Perm : EditRole(r, perms)
    BY <1>1
  <2>2. source' = source /\ imported' = imported /\ srcRoles' = [srcRoles EXCEPT ![r] = perms]
    BY <2>1 DEF EditRole, OnlyRoles, orgVars, readVars
  <2>3. Present(srcRoles) \subseteq Present(srcRoles')
    BY <1>0, <2>2, RolesAssumption DEF Present, Roles
  <2>4. QED BY <2>2, <2>3 DEF RolesExist
<1>2. CASE \E u \in User : \E a \in Account : EditUserOfRoles(u, a)
  <2>1. PICK u \in User, a \in Account : EditUserOfRoles(u, a)
    BY <1>2
  <2>2. /\ source' = [source EXCEPT ![u] = a] /\ a.roles \subseteq Present(srcRoles)
        /\ imported' = imported /\ srcRoles' = srcRoles
    BY <2>1 DEF EditUserOfRoles, EditUser, readVars, roleVars, roleOrgs
  <2>3. QED BY <1>0, <2>2 DEF RolesExist
<1>3. CASE BeginWithRoles
  BY <1>3, <1>0 DEF BeginWithRoles, Begin, Listed, RolesExist, orgVars, roleOrgs
<1>4. CASE DumpRoles \/ CrashOfRoles
  BY <1>4 DEF DumpRoles, Dump, Interrupt, CrashOfRoles, Crash, Exit, ExitOfRoles, Absent,
     RolesExist, orgVars, roleOrgs
<1>5. CASE \/ ImportRoles \/ EndImportOfRoles \/ EndCleanupOfRoles
           \/ MapRoles \/ EndMapOfRoles \/ EndApplyOfRoles
           \/ \E r \in Role : ApplyRole(r)
           \/ \E u \in User : ApplyUserOfRoles(u)
           \/ OtherStep /\ UNCHANGED roleVars
           \/ UNCHANGED allVars
  <2>1. UNCHANGED <<source, imported, srcRoles>>
    BY <1>5 DEF ImportRoles, EndImportOfRoles, EndImport, EndCleanupOfRoles, EndCleanup,
       MapRoles, EndMapOfRoles, EndMap, EndApplyOfRoles, EndApply, ApplyRole, OnlyRoles,
       ApplyUserOfRoles, ApplyUser, OtherStep, EditSeat, EditByHand, MapUsers, ListTeam,
       MapTeam, DeleteUser, DeleteSeat, ApplySeat, allVars, vars, roleVars, roleOrgs,
       orgVars, readVars
  <2>2. QED BY <2>1 DEF RolesExist
<1>6. QED BY <1>1, <1>2, <1>3, <1>4, <1>5 DEF RolesNext

LEMMA CreatedStep ==
  ASSUME AccessInv, [RolesNext]_allVars
  PROVE  CreatedOK'
<1>0. RolesInv /\ CreatedOK
  BY DEF AccessInv
<1>1. CASE \E r \in Role : ApplyRole(r)
  <2>1. PICK r \in Role : ApplyRole(r)
    BY <1>1
  <2>2. pc' = pc /\ pc = "apply" /\ roleTodo' = roleTodo \ {r}
    BY <2>1 DEF ApplyRole, OnlyRoles
  <2>3. /\ \A q \in Role \ {r} : /\ destRoles'[q] = destRoles[q]
                                 /\ roleRecords'[q] = roleRecords[q]
                                 /\ importedRoles'[q] = importedRoles[q]
        /\ clean' => clean /\ HasCounterpart(r)'
    BY <1>0, <2>1, ApplyRoleCreates
  <2>4. QED BY <1>0, <2>2, <2>3 DEF CreatedOK, HasCounterpart
<1>2. CASE \/ \E u \in User : ApplyUserOfRoles(u)
           \/ OtherStep /\ UNCHANGED roleVars
           \/ EndApplyOfRoles
           \/ UNCHANGED allVars
  <2>1. UNCHANGED <<roleTodo, roleRecords, importedRoles, destRoles>>
    BY <1>2 DEF ApplyUserOfRoles, EndApplyOfRoles, allVars, roleVars, roleOrgs
  <2>2. (pc' = pc \/ (pc = "apply" /\ pc' = "dump")) /\ (clean' => clean)
    BY <1>2 DEF EndApplyOfRoles, EndApply, ApplyUserOfRoles, ApplyUser, Same,
         Adopt, Update, Create, Charge, OtherStep, EditSeat, EditByHand, MapUsers,
         ListTeam, MapTeam, DeleteUser, DeleteSeat, ApplySeat, SeatUnchanged,
         CreateSeat, UpdateSeat, PassOver, Send, allVars, vars
  <2>3. QED BY <1>0, <2>1, <2>2 DEF CreatedOK, HasCounterpart
<1>3. CASE EndMapOfRoles
  <2>1. importedRoles' = importedRoles /\ roleTodo' = {r \in Role : importedRoles[r] # None}
    BY <1>0, <1>3 DEF EndMapOfRoles, RolesInv, PermsOK, Present
  <2>2. QED BY <2>1 DEF CreatedOK
<1>4. CASE \/ \E r \in Role : \E perms \in SUBSET Perm : EditRole(r, perms)
           \/ \E u \in User : \E a \in Account : EditUserOfRoles(u, a)
           \/ BeginWithRoles \/ ImportRoles \/ EndImportOfRoles \/ EndCleanupOfRoles
           \/ MapRoles \/ DumpRoles \/ CrashOfRoles
  <2>1. pc' \notin {"apply", "dump"}
    BY <1>4 DEF EditRole, OnlyRoles, EditUserOfRoles, EditUser, BeginWithRoles, Begin,
       ImportRoles, EndImportOfRoles, EndImport, EndCleanupOfRoles, EndCleanup, MapRoles,
       DumpRoles, Dump, Interrupt, CrashOfRoles, Crash, Exit
  <2>2. QED BY <2>1 DEF CreatedOK
<1>5. QED BY <1>1, <1>2, <1>3, <1>4 DEF RolesNext

LEMMA AccessStep == AccessInv /\ [RolesNext]_allVars => AccessInv'
<1> SUFFICES ASSUME AccessInv, [RolesNext]_allVars PROVE AccessInv'
  OBVIOUS
<1> DEFINE Kept == ReachInv' /\ SeatsReached' /\ (BuiltinShared' => UsersReached')
<1>0. AccountsInv /\ RolesInv /\ ReachInv /\ RolesExist /\ CreatedOK /\ SeatsReached
      /\ (BuiltinShared => UsersReached)
  BY DEF AccessInv
<1>1. ASSUME [Next]_vars, BuiltinShared' => UsersReached \/ UsersReached' PROVE Kept
  BY <1>0, <1>1, ReachNext
<1>2. ASSUME UNCHANGED <<orgVars, stateVars, readVars, pc, todo, ghostVars>>, clean' => clean,
             BuiltinShared' => UsersReached
      PROVE  Kept
  <2>1. SeatsTyped' /\ AsEntered' /\ MapsOK' /\ TurnsOK'
    BY <1>0, <1>2 DEF ReachInv, SeatsTyped, AsEntered, MapsOK, Mapped, TurnsOK,
                      orgVars, stateVars, readVars, ghostVars
  <2>2. SeatsReached' /\ (UsersReached => UsersReached')
    BY <1>0, <1>2 DEF SeatsReached, UsersReached, HasAccess, orgVars, stateVars, readVars,
                      ghostVars
  <2>3. QED BY <1>2, <2>1, <2>2 DEF ReachInv
<1>3. CASE UNCHANGED allVars
  <2>1. UNCHANGED vars /\ UNCHANGED <<srcRoles, destRoles>>
    BY <1>3 DEF allVars, roleVars, roleOrgs
  <2>2. BuiltinShared' => BuiltinShared
    BY <2>1 DEF BuiltinShared
  <2>3. Kept
    BY <1>0, <1>1, <2>1, <2>2
  <2>4. QED
    BY <1>0, <2>3, RolesNextInv, RolesStepInv, RolesExistStep, CreatedStep DEF AccessInv
<1>4. CASE RolesNext
  <2> SUFFICES Kept
    BY <1>0, RolesNextInv, RolesStepInv, RolesExistStep, CreatedStep DEF AccessInv
  <2>1. CASE \/ \E r \in Role : \E perms \in SUBSET Perm : EditRole(r, perms)
             \/ ImportRoles \/ MapRoles
    <3>1. OnlyRoles /\ (clean' => clean) /\ pc \notin {"apply", "dump"}
      BY <2>1 DEF EditRole, ImportRoles, MapRoles, Charge
    <3>2. QED BY <1>2, <3>1 DEF OnlyRoles, UsersReached
  <2>2. CASE \E r \in Role : ApplyRole(r)
    <3>1. PICK r \in Role : ApplyRole(r)
      BY <2>2
    <3>2. OnlyRoles /\ (clean' => clean) /\ srcRoles' = srcRoles
          /\ \A q \in Builtin : destRoles'[q] = destRoles[q]
      BY <1>0, <3>1, ApplyRoleCreates, RolesAssumption DEF ApplyRole
    <3>3. BuiltinShared' => BuiltinShared
      BY <3>2 DEF BuiltinShared
    <3>4. QED BY <1>0, <1>2, <3>2, <3>3 DEF OnlyRoles
  <2>3. CASE \/ \E u \in User : \E a \in Account : EditUserOfRoles(u, a)
             \/ BeginWithRoles \/ EndImportOfRoles \/ EndCleanupOfRoles \/ EndMapOfRoles
    <3>1. Next /\ pc \notin {"apply", "dump"}
      BY <2>3 DEF EditUserOfRoles, EditUser, BeginWithRoles, Begin, EndImportOfRoles,
         EndImport, EndCleanupOfRoles, EndCleanup, EndMapOfRoles, EndMap, Next
    <3>2. QED BY <1>1, <3>1 DEF UsersReached
  <2>4. CASE DumpRoles \/ CrashOfRoles
    <3>1. Next /\ pc' = "idle"
      BY <2>4 DEF DumpRoles, Dump, Interrupt, CrashOfRoles, Crash, Exit, Next
    <3>2. QED BY <1>1, <3>1 DEF UsersReached
  <2>5. CASE EndApplyOfRoles \/ (OtherStep /\ UNCHANGED roleVars)
             \/ \E u \in User : ApplyUserOfRoles(u) /\ ApplyUser(u)
    <3>1. Next
      BY <2>5 DEF EndApplyOfRoles, OtherStep, Next
    <3>2. UNCHANGED <<srcRoles, destRoles>>
      BY <2>5 DEF EndApplyOfRoles, ApplyUserOfRoles, roleVars, roleOrgs
    <3>3. BuiltinShared' => BuiltinShared
      BY <3>2 DEF BuiltinShared
    <3>4. QED BY <1>0, <1>1, <3>1, <3>3
  <2>6. CASE \E u \in User : ApplyUserOfRoles(u) /\ ~ApplyUser(u)
    <3>1. PICK u \in User : ApplyUserOfRoles(u) /\ ~ApplyUser(u)
      BY <2>6
    <3>2. /\ pc = "apply" /\ u \in todo /\ todo' = todo \ {u}
          /\ Unmapped(u) \cap roleTodo = {} /\ Unmapped(u) # {}
          /\ UNCHANGED <<orgVars, stateVars, readVars, pc, clean, ghostVars>>
          /\ UNCHANGED <<srcRoles, destRoles>>
      BY <3>1 DEF ApplyUserOfRoles, roleVars, roleOrgs
    <3>3. clean' => ~BuiltinShared'
      <4>1. imported[u] # None
        BY <1>0, <3>2 DEF AccountsInv, TodoOK
      <4>2. clean => ~BuiltinShared
        BY <3>2, <4>1, NobodyPassedOver
      <4>3. QED BY <3>2, <4>2 DEF BuiltinShared
    <3>4. u \notin Seat
      BY AccountsAssumption
    <3>5. SeatsTyped' /\ AsEntered' /\ MapsOK' /\ TurnsOK'
      BY <1>0, <3>2, <3>4 DEF ReachInv, SeatsTyped, AsEntered, MapsOK, Mapped, TurnsOK,
                              orgVars, stateVars, readVars, ghostVars
    <3>6. SeatsReached'
      BY <1>0, <3>2, <3>4 DEF SeatsReached, orgVars, stateVars, readVars, ghostVars
    <3>7. BuiltinShared' => UsersReached'
      BY <3>3 DEF UsersReached
    <3>8. QED BY <3>5, <3>6, <3>7 DEF ReachInv
  <2>7. QED
    BY <1>4, <2>1, <2>2, <2>3, <2>4, <2>5, <2>6 DEF RolesNext
<1>5. QED BY <1>3, <1>4

LEMMA AccessInit == RolesInit => AccessInv
<1> SUFFICES ASSUME RolesInit PROVE AccessInv
  OBVIOUS
<1>1. AccountsInv /\ RolesInv /\ ReachInv /\ UsersReached /\ SeatsReached
  BY InitInv, RolesInitInv, ReachInit DEF RolesInit
<1>2. RolesExist
  <2>1. PICK s \in Starts : source = s.source /\ \E q \in RolesAt[s] : srcRoles = q.source
    BY DEF RolesInit
  <2>2. \A u \in User : source[u].roles \subseteq Present(srcRoles)
    BY <2>1, RolesAssumption
  <2>3. QED BY <2>2 DEF RolesExist, RolesInit, Init, Absent
<1>3. CreatedOK
  BY DEF RolesInit, Init, CreatedOK
<1>4. QED BY <1>1, <1>2, <1>3 DEF AccessInv

\* The same where the migrations write the roles before the users that wait for them:
\* users get the roles of the source, and the roles its permissions, unless the
\* destination lacks a built-in role, for which users are passed over.
THEOREM AccessReachesCorrect == RolesSpec => []AccessReaches
<1>1. AccessInv => (BuiltinShared => AccountsReach)
  BY ReachedAtEnd DEF AccessInv
<1>2. RolesSpec => [](BuiltinShared => AccountsReach)
  BY <1>1, AccessInit, AccessStep, PTL DEF RolesSpec
<1>3. AccessReaches <=> (BuiltinShared => AccountsReach) /\ RolesReach
  BY DEF AccessReaches
<1>4. QED BY <1>2, <1>3, RolesReachCorrect, PTL

-----------------------------------------------------------------------------
(* What a pass takes.                                                      *)

\* Entries of seats are of seats that the tool gave; what the source is without is
\* in gone; a team that was read to its end tells of all its seats.
DropInv ==
  /\ spent \in Spent
  /\ \A u \in User : ~source[u].enabled => u \in gone
  /\ \A s \in Seat : seats[s] = None => s \in gone
  /\ \A s \in Seat : tracked[s] # None \/ saved.seats[s] # None => s \in made
  /\ \A u \in User : imported[u] # None => imported[u].enabled
  /\ pc # "idle" => \A u \in User : imported[u] = None => u \in gone
  /\ pc \in {"list", "clean"} /\ whole =>
       \A s \in Seat : rows[s] = None /\ (pc = "list" => s.team \notin todo) => s \in gone
  /\ pc = "clean" => /\ \A u \in todo \cap User : imported[u] = None
                     /\ \A s \in todo \cap Seat : rows[s] = None /\ tracked[s] # None

LEMMA SpendSpends ==
  ASSUME spent \in Spent, NEW what \in {"edits", "passes", "faults"}, Spend(what)
  PROVE  /\ spent' \in Spent
         /\ what = "edits" => spent'.edits # spent.edits
  BY DEF Spend, Spent

LEMMA ChargeSpends ==
  ASSUME spent \in Spent, NEW fails, Charge(fails)
  PROVE  spent' \in Spent
  BY SpendSpends DEF Charge

LEMMA DropInit == Init => DropInv
<1> SUFFICES ASSUME Init PROVE DropInv
  OBVIOUS
<1>1. spent \in Spent /\ seats \in Seats
  BY AccountsAssumption DEF Init, Start
<1>2. QED
  BY <1>1 DEF DropInv, Init, Absent, Vacant, Present, Seats

LEMMA DropNext ==
  ASSUME AccountsInv, ReachInv, DropInv, [Next]_vars
  PROVE  DropInv'
<1>0. /\ source \in [User -> Account] /\ imported \in Entries /\ records \in Entries
      /\ {seats, holds, tracked, rows, seated, saved.seats} \subseteq Seats
      /\ spent \in Spent /\ User \cap Seat = {}
  BY AccountsAssumption DEF AccountsInv, UsersOK, ReachInv, SeatsTyped, DropInv
<1>1. CASE \E u \in User : \E a \in Account : EditUser(u, a)
  <2>1. PICK u \in User, a \in Account : EditUser(u, a)
    BY <1>1
  <2>2. /\ source' = [source EXCEPT ![u] = a]
        /\ gone' = IF a.enabled THEN gone ELSE gone \cup {u}
        /\ UNCHANGED <<seats, stateVars, readVars, pc, todo, whole, made>>
    BY <2>1 DEF EditUser
  <2>3. spent' \in Spent
    BY <1>0, <2>1, SpendSpends DEF EditUser
  <2>4. QED BY <1>0, <2>2, <2>3 DEF DropInv, stateVars, readVars
<1>2. CASE \E s \in Seat : \E l \in Level \cup {None} : EditSeat(s, l)
  <2>1. PICK s \in Seat, l \in Level \cup {None} : EditSeat(s, l)
    BY <1>2
  <2>2. /\ seats' = [seats EXCEPT ![s] = l]
        /\ gone' = IF l # None THEN gone ELSE gone \cup {s}
        /\ UNCHANGED <<source, stateVars, readVars, pc, todo, whole, made>>
    BY <2>1 DEF EditSeat
  <2>3. spent' \in Spent
    BY <1>0, <2>1, SpendSpends DEF EditSeat
  <2>4. QED BY <1>0, <2>2, <2>3 DEF DropInv, stateVars, readVars, Seats
<1>3. CASE \E s \in Seat : \E l \in Level \cup {None} : EditByHand(s, l)
  <2>1. spent' \in Spent
    BY <1>0, <1>3, SpendSpends DEF EditByHand
  <2>2. QED BY <1>3, <2>1 DEF EditByHand, DropInv, stateVars, readVars
<1>4. CASE Begin
  <2>1. /\ UNCHANGED <<orgVars, stateVars, rows, whole, gone, made>>
        /\ pc' = "list" /\ todo' = Team /\ imported' = Listed
    BY <1>4 DEF Begin, ghostVars
  <2>2. spent' \in Spent
    BY <1>0, <1>4, SpendSpends DEF Begin
  <2>3. \A u \in User : /\ imported'[u] # None => imported'[u].enabled
                        /\ imported'[u] = None => ~source[u].enabled
    BY <1>0, <2>1, AccountsAssumption DEF Listed
  <2>4. \A s \in Seat : s.team \in Team
    BY DEF Seat
  <2>5. QED BY <2>1, <2>2, <2>3, <2>4 DEF DropInv, orgVars, stateVars
<1>5. CASE \E t \in Team : ListTeam(t)
  <2>1. PICK t \in Team : ListTeam(t)
    BY <1>5
  <2>2. PICK cut \in Cuts(seats, t) :
          /\ rows' = Fetched(seats, rows, t, cut)
          /\ whole' = (whole /\ cut = {})
          /\ Charge(cut # {})
    BY <2>1 DEF ListTeam
  <2>3. /\ UNCHANGED <<orgVars, stateVars, imported, pc, gone, made>>
        /\ pc = "list" /\ todo' = todo \ {t}
    BY <2>1 DEF ListTeam, ghostVars
  <2>4. spent' \in Spent
    BY <1>0, <2>2, ChargeSpends
  <2>5. whole' => \A s \in Seat : rows'[s] = IF s.team # t THEN rows[s] ELSE seats[s]
    BY <2>2 DEF Fetched
  <2>6. QED BY <2>2, <2>3, <2>4, <2>5 DEF DropInv, orgVars, stateVars
<1>6. CASE EndImport
  <2>1. /\ UNCHANGED <<orgVars, stateVars, readVars, spent, whole, gone, made>>
        /\ pc = "list" /\ pc' = "clean" /\ todo = {} /\ todo' \subseteq Orphans
    BY <1>6 DEF EndImport, ghostVars
  <2>2. /\ \A u \in Orphans \cap User : imported[u] = None
        /\ \A s \in Orphans \cap Seat : rows[s] = None /\ tracked[s] # None
    BY <1>0 DEF Orphans, Present, Entries, Seats
  <2>3. QED BY <2>1, <2>2 DEF DropInv, orgVars, stateVars, readVars
<1>7. CASE EndCleanup \/ EndMap \/ EndApply
  <2>1. /\ UNCHANGED <<orgVars, stateVars, readVars, spent, whole, gone, made>>
        /\ pc # "idle" /\ pc' \notin {"list", "clean"}
    BY <1>7 DEF EndCleanup, EndMap, EndApply, ghostVars
  <2>2. QED BY <2>1 DEF DropInv, orgVars, stateVars, readVars
<1>8. CASE \E u \in User : DeleteUser(u) \/ ApplyUser(u)
  <2>1. PICK u \in User : DeleteUser(u) \/ ApplyUser(u)
    BY <1>8
  <2>2. /\ UNCHANGED <<source, seats, tracked, saved, readVars, pc, whole, gone, made>>
        /\ todo' = todo \ {u} /\ pc # "list"
    BY <2>1 DEF DeleteUser, ApplyUser
  <2>3. spent' \in Spent
    BY <1>0, <2>1, ChargeSpends DEF DeleteUser, ApplyUser, Same, Adopt, Update, Create
  <2>4. QED BY <2>2, <2>3 DEF DropInv, readVars
<1>9. CASE \E s \in Seat : DeleteSeat(s)
  <2>1. PICK s \in Seat : DeleteSeat(s)
    BY <1>9
  <2>2. /\ UNCHANGED <<source, seats, saved, readVars, pc, whole, gone, made>>
        /\ todo' = todo \ {s} /\ pc = "clean"
        /\ tracked' \in {tracked, [tracked EXCEPT ![s] = None]}
    BY <2>1 DEF DeleteSeat
  <2>3. spent' \in Spent
    BY <1>0, <2>1, ChargeSpends DEF DeleteSeat
  <2>4. \A q \in Seat \ {s} : tracked'[q] = tracked[q]
    BY <1>0, <2>2 DEF Seats
  <2>5. tracked'[s] # None => tracked[s] # None
    BY <1>0, <2>2 DEF Seats
  <2>6. QED BY <1>0, <2>2, <2>3, <2>4, <2>5 DEF DropInv, readVars
<1>10. CASE \E s \in Seat : ApplySeat(s)
  <2>1. PICK s \in Seat : ApplySeat(s)
    BY <1>10
  <2>2. /\ UNCHANGED <<source, seats, saved, readVars, pc, whole, gone>> /\ pc = "apply"
    BY <2>1 DEF ApplySeat
  <2>3. \/ UNCHANGED <<tracked, made, spent>>
        \/ \E a \in Answer :
             /\ Charge(a # "ok")
             /\ tracked' = IF a = "ok" THEN [tracked EXCEPT ![s] = rows[s]] ELSE tracked
             /\ made' = IF Done(a) THEN made \cup {s} ELSE made
    BY <2>1 DEF ApplySeat, SeatUnchanged, CreateSeat, UpdateSeat, PassOver, Send
  <2>4. spent' \in Spent
    BY <1>0, <2>3, ChargeSpends
  <2>5. made \subseteq made' /\ \A q \in Seat : tracked'[q] # None => q \in made'
    BY <1>0, <2>3 DEF DropInv, Seats, Done
  <2>6. QED BY <2>2, <2>4, <2>5 DEF DropInv, readVars
<1>11. CASE MapUsers \/ \E t \in Team : MapTeam(t)
  <2>1. /\ UNCHANGED <<orgVars, stateVars, imported, rows, pc, whole, gone, made>>
        /\ pc = "map"
    BY <1>11 DEF MapUsers, MapTeam, ghostVars
  <2>2. spent' \in Spent
    BY <1>0, <1>11, ChargeSpends DEF MapUsers, MapTeam
  <2>3. QED BY <2>1, <2>2 DEF DropInv, orgVars, stateVars
<1>12. CASE Dump \/ Interrupt \/ Crash
  <2>1. /\ UNCHANGED <<source, seats, gone, made>> /\ pc' = "idle" /\ imported' = Absent
        /\ \/ tracked' = tracked /\ saved'.seats = tracked
           \/ tracked' = saved.seats /\ saved' = saved
    BY <1>12 DEF Dump, Interrupt, Crash, Save, Exit, orgVars, ghostVars
  <2>2. spent' \in Spent
    BY <1>0, <1>12, SpendSpends DEF Dump, Interrupt, Crash
  <2>3. QED BY <2>1, <2>2 DEF DropInv, Absent
<1>13. CASE UNCHANGED vars
  BY <1>13 DEF vars, orgVars, stateVars, readVars, ghostVars, DropInv
<1>14. QED
  BY <1>1, <1>2, <1>3, <1>4, <1>5, <1>6, <1>7, <1>8, <1>9, <1>10, <1>11, <1>12, <1>13
     DEF Next

\* A handler of a user that was read disables no account.
LEMMA ApplyDisablesNone ==
  ASSUME AccountsInv, DropInv, NEW u \in User, ApplyUser(u)
  PROVE  \A v \in User : accounts[v] # None /\ accounts[v].enabled => accounts'[v].enabled
<1>1. imported[u] \in Account /\ imported[u].enabled /\ accounts \in Entries
      /\ None \notin Account
  BY AccountsAssumption
     DEF ApplyUser, AccountsInv, TodoOK, UsersOK, Entries, DropInv
<1>2. CASE accounts' = accounts
  BY <1>2
<1>3. ASSUME NEW base, Update(u, base), accounts[u] # None
      PROVE  \A v \in User : accounts[v] # None /\ accounts[v].enabled => accounts'[v].enabled
  <2>1. PICK taken \in SUBSET (imported[u].roles \ base.roles), a \in Answer \cup {"unsent"} :
          accounts' = [accounts EXCEPT ![u] =
            IF Done(a) THEN Patched(WithRoles(accounts[u], taken), imported[u])
                       ELSE WithRoles(accounts[u], taken)]
    BY <1>3 DEF Update
  <2> DEFINE now == WithRoles(accounts[u], taken)
             after == IF Done(a) THEN Patched(now, imported[u]) ELSE now
  <2>2. now \in Account /\ now.enabled = accounts[u].enabled
    BY <1>1, <1>3 DEF WithRoles, Account, Entries
  <2>3. accounts[u].enabled => after.enabled
    BY <1>1, <2>2, PatchedTwice
  <2>4. accounts' = [accounts EXCEPT ![u] = after]
    BY <2>1
  <2> HIDE DEF after
  <2>5. QED BY <1>1, <2>3, <2>4 DEF Entries
<1>4. CASE Create(u) /\ accounts' # accounts
  <2>1. accounts[u] = None /\ \A v \in User \ {u} : accounts'[v] = accounts[v]
    BY <1>1, <1>4 DEF Create, Entries
  <2>2. QED BY <2>1
<1>5. ASSUME NEW f \in {records, known}, f[u] # None, Update(u, f[u])
      PROVE  \A v \in User : accounts[v] # None /\ accounts[v].enabled => accounts'[v].enabled
  BY <1>3, <1>5 DEF AccountsInv, Held
<1>6. \/ accounts' = accounts
      \/ Create(u)
      \/ \E f \in {records, known} : f[u] # None /\ Update(u, f[u])
  BY DEF ApplyUser, Adopt, Same
<1>7. QED BY <1>2, <1>4, <1>5, <1>6

TakesDropped ==
  whole /\ spent'.edits = spent.edits =>
    /\ Present(holds) \ Present(holds') \subseteq made \cap gone
    /\ \A u \in Present(accounts) : accounts[u].enabled /\ ~accounts'[u].enabled => u \in gone

LEMMA StepTakesDropped ==
  ASSUME AccountsInv, ReachInv, DropInv, [Next]_vars
  PROVE  TakesDropped
<1> SUFFICES ASSUME whole, spent'.edits = spent.edits PROVE TakesDropped
  BY DEF TakesDropped
<1>0. /\ spent \in Spent /\ holds \in Seats /\ accounts \in Entries
  BY DEF AccountsInv, UsersOK, ReachInv, SeatsTyped, DropInv
<1>1. ASSUME NEW s \in Seat, DeleteSeat(s) PROVE TakesDropped
  <2>1. /\ accounts' = accounts /\ pc = "clean" /\ s \in todo
        /\ holds' \in {holds, [holds EXCEPT ![s] = None]}
    BY <1>1 DEF DeleteSeat
  <2>2. s \in made \cap gone
    BY <2>1 DEF DropInv
  <2>3. Present(holds) \ Present(holds') \subseteq {s}
    BY <1>0, <2>1 DEF Present, Seats
  <2>4. QED BY <2>1, <2>2, <2>3 DEF TakesDropped
<1>2. ASSUME NEW s \in Seat, ApplySeat(s) PROVE TakesDropped
  <2>1. accounts' = accounts /\ SeatLeaves(s)
    BY <1>2, ApplySeatLeaves DEF ApplySeat
  <2>2. Present(holds) \subseteq Present(holds')
    BY <1>0, <2>1 DEF SeatLeaves, Present, Seats
  <2>3. QED BY <2>1, <2>2 DEF TakesDropped
<1>3. ASSUME NEW u \in User, DeleteUser(u) PROVE TakesDropped
  <2>1. /\ holds' = holds /\ pc = "clean" /\ u \in todo
        /\ accounts' \in {accounts, [accounts EXCEPT ![u].enabled = FALSE]}
    BY <1>3 DEF DeleteUser
  <2>2. u \in gone
    BY <2>1 DEF DropInv
  <2>3. \A v \in User \ {u} : accounts'[v] = accounts[v]
    BY <1>0, <2>1 DEF Entries
  <2>4. Present(accounts) \subseteq User
    BY <1>0 DEF Present, Entries
  <2>5. QED BY <2>1, <2>2, <2>3, <2>4 DEF TakesDropped
<1>4. ASSUME NEW u \in User, ApplyUser(u) PROVE TakesDropped
  <2>1. holds' = holds
    BY <1>4 DEF ApplyUser
  <2>2. Present(accounts) = {v \in User : accounts[v] # None}
    BY <1>0 DEF Present, Entries
  <2>3. QED BY <1>4, <2>1, <2>2, ApplyDisablesNone DEF TakesDropped
<1>5. CASE \E s \in Seat : \E l \in Level \cup {None} : EditByHand(s, l)
  BY <1>0, <1>5, SpendSpends DEF EditByHand
<1>6. CASE UNCHANGED <<holds, accounts>>
  BY <1>6 DEF TakesDropped
<1>7. CASE \/ \E u \in User : \E a \in Account : EditUser(u, a)
           \/ \E s \in Seat : \E l \in Level \cup {None} : EditSeat(s, l)
           \/ Begin \/ EndImport \/ EndCleanup \/ EndMap \/ EndApply
           \/ MapUsers
           \/ \E t \in Team : ListTeam(t) \/ MapTeam(t)
           \/ Dump \/ Interrupt \/ Crash
           \/ UNCHANGED vars
  <2>1. UNCHANGED <<holds, accounts>>
    BY <1>7 DEF EditUser, EditSeat, Begin, EndImport, EndCleanup, EndMap, EndApply,
       MapUsers, ListTeam, MapTeam, Dump, Interrupt, Crash, Exit, vars, orgVars
  <2>2. QED BY <1>6, <2>1
<1>8. QED BY <1>1, <1>2, <1>3, <1>4, <1>5, <1>7 DEF Next

\* With roles, what is not a step of Accounts is about roles, or passes a user over.
LEMMA RolesStepIs ==
  ASSUME [RolesNext]_allVars
  PROVE  \/ [Next]_vars
         \/ /\ UNCHANGED <<orgVars, stateVars, readVars, pc, whole, ghostVars>>
            /\ todo' \subseteq todo /\ (pc = "list" => todo' = todo)
            /\ spent' = spent \/ (\E what \in {"edits", "faults"} : Spend(what))
<1>1. CASE \/ \E r \in Role : \E perms \in SUBSET Perm : EditRole(r, perms)
           \/ ImportRoles \/ MapRoles
           \/ \E r \in Role : ApplyRole(r)
  <2>1. OnlyRoles
    BY <1>1 DEF EditRole, ImportRoles, MapRoles, ApplyRole
  <2>2. CASE \E r \in Role : ApplyRole(r)
    <3>1. pc = "apply" /\ \E r, x, row, want, ok :
            NotSent(r, x, row, ok) \/ Request(r, want, x, row, ok)
      BY <2>2 DEF ApplyRole
    <3>2. PICK r, x, row, want, ok :
            NotSent(r, x, row, ok) \/ Request(r, want, x, row, ok)
      BY <3>1
    <3>3. spent' = spent \/ Spend("faults")
      <4>1. CASE NotSent(r, x, row, ok)
        BY <4>1 DEF NotSent, Charge
      <4>2. CASE ~NotSent(r, x, row, ok)
        <5>1. PICK a \in Answer : Charge(~ok \/ a # "ok")
          BY <3>2, <4>2 DEF Request
        <5>2. QED BY <5>1 DEF Charge
      <4>3. QED BY <4>1, <4>2
    <3>4. QED BY <2>1, <3>1, <3>3 DEF OnlyRoles
  <2>3. CASE ~ \E r \in Role : ApplyRole(r)
    <3>1. spent' = spent \/ Spend("edits") \/ Spend("faults")
      BY <1>1, <2>3 DEF EditRole, ImportRoles, MapRoles, Charge
    <3>2. QED BY <2>1, <3>1 DEF OnlyRoles
  <2>4. QED BY <2>2, <2>3
<1>2. CASE \E u \in User : ApplyUserOfRoles(u)
  <2>1. PICK u \in User : ApplyUserOfRoles(u)
    BY <1>2
  <2>2. CASE ApplyUser(u)
    BY <2>2 DEF Next
  <2>3. CASE ~ApplyUser(u)
    BY <2>1, <2>3 DEF ApplyUserOfRoles
  <2>4. QED BY <2>2, <2>3
<1>3. CASE \/ \E u \in User : \E a \in Account : EditUserOfRoles(u, a)
           \/ BeginWithRoles \/ EndImportOfRoles \/ EndCleanupOfRoles \/ EndMapOfRoles
           \/ EndApplyOfRoles \/ DumpRoles \/ CrashOfRoles \/ OtherStep
  BY <1>3 DEF EditUserOfRoles, BeginWithRoles, EndImportOfRoles, EndCleanupOfRoles,
              EndMapOfRoles, EndApplyOfRoles, DumpRoles, CrashOfRoles, OtherStep, Next
<1>4. CASE UNCHANGED allVars
  BY <1>4 DEF allVars
<1>5. QED BY <1>1, <1>2, <1>3, <1>4 DEF RolesNext

LEMMA DropStep ==
  ASSUME AccessInv, DropInv, [RolesNext]_allVars
  PROVE  DropInv' /\ TakesDropped
<1>0. AccountsInv /\ ReachInv
  BY DEF AccessInv
<1>1. CASE [Next]_vars
  BY <1>0, <1>1, DropNext, StepTakesDropped
<1>2. CASE /\ UNCHANGED <<orgVars, stateVars, readVars, pc, whole, ghostVars>>
           /\ todo' \subseteq todo /\ (pc = "list" => todo' = todo)
           /\ spent' = spent \/ (\E what \in {"edits", "faults"} : Spend(what))
  <2>1. spent' \in Spent
    BY <1>2, SpendSpends DEF DropInv
  <2>2. pc = "list" => todo' = todo
    BY <1>2
  <2>3. QED
    BY <1>2, <2>1, <2>2 DEF DropInv, TakesDropped, orgVars, stateVars, readVars, ghostVars
<1>3. QED BY <1>1, <1>2, RolesStepIs

\* A pass takes only what the tool gave and the source dropped, whatever fails and
\* whatever others do meanwhile, in migrations that write the roles too.
THEOREM OnlyDroppedIsTakenCorrect == RolesSpec => OnlyDroppedIsTaken
<1> DEFINE Inv == AccessInv /\ DropInv
<1>1. RolesInit => Inv
  BY AccessInit, DropInit DEF RolesInit
<1>2. Inv /\ [RolesNext]_allVars => Inv'
  BY AccessStep, DropStep
<1>3. Inv /\ [RolesNext]_allVars => [TakesDropped]_vars
  BY DropStep
<1>4. RolesSpec => [][TakesDropped]_vars
  BY <1>1, <1>2, <1>3, PTL DEF RolesSpec
<1>5. QED BY <1>4 DEF TakesDropped, OnlyDroppedIsTaken
=============================================================================
