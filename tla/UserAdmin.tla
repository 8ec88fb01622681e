------------------------------ MODULE UserAdmin ------------------------------
(***************************************************************************)
(* Users as their administrators see them: UsersService.changeRole,        *)
(* toggleActive, softDeleteUser and updateProfile, the guards in front of  *)
(* them, and the accounts BotService.getOrCreateUser makes.                *)
(*                                                                         *)
(* A request is let in on the role its access token claims, a role that    *)
(* was read from the database when the token was made; JwtAccessStrategy   *)
(* looks up is_active, not the role.  So `claims` is state of its own.     *)
(* Sign-ins go on forever; the other requests are used once, one step per  *)
(* awaited database call.  Refresh tokens are in Sessions.                 *)
(***************************************************************************)
EXTENDS Integers, FiniteSets

CONSTANTS
  Users,         \* accounts, there already or yet to be made
  Emails,        \* the addresses in play
  Requests,      \* every request but sign-ins that the server will receive
  InitialTables, \* what table users may hold when the server starts
  NewRoles,      \* the roles changeRole is asked for
  NoValue        \* a call with no role and no address; an account with no row

Roles == {"ADMIN", "MANAGER", "WORKER"}

\* A row of `users`; names, passwords and times do not matter here.  `telegram`:
\* the row has a telegram_id, which only the bot sets.  Nobody knows the password
\* of such an account.
NoRow == [role |-> "WORKER", active |-> FALSE, email |-> NoValue, telegram |-> FALSE]
LiveRow == [role : Roles, active : BOOLEAN, email : Emails, telegram : BOOLEAN]
Table == [Users -> LiveRow \cup {NoRow}]

ASSUME TableAssumption ==
  /\ InitialTables \subseteq Table
  /\ \A table \in InitialTables :
       /\ \A u, v \in Users : table[u].email = table[v].email => u = v \/ table[u] = NoRow
       /\ \E u \in Users : table[u].role = "ADMIN" /\ table[u].active
ASSUME ValueAssumption == NewRoles \subseteq Roles /\ NoValue \notin Roles \cup Emails \cup Table

AdminOps == {"changeRole", "block", "unblock", "softDelete"}
Ops == AdminOps \cup {"updateProfile", "contact"}

VARIABLES
  users,    \* table users
  claims,   \* the roles that unexpired access tokens of each user carry
  signing,  \* the roles that sign-ins under way have read for each user
  pc,       \* where each request is
  call,     \* what it was asked to do
  before    \* history: table users as the last statement of each request found it

vars == <<users, claims, signing, pc, call, before>>

Call == [op : Ops, actor : Users, target : Users,
         value : Roles \cup Emails \cup {NoValue}]

TypeOK ==
  /\ users \in Table
  /\ claims \in [Users -> SUBSET Roles]
  /\ signing \in [Users -> SUBSET Roles]
  /\ pc \in [Requests -> {"idle", "find", "update", "sweep", "email", "save",
                          "lookup", "provision", "ok", "refused", "conflict", "failed"}]
  /\ call \in [Requests -> Call]
  /\ before \in [Requests -> Table \cup {NoValue}]

Init ==
  /\ users \in InitialTables
  /\ claims = [u \in Users |-> {}]
  /\ signing = [u \in Users |-> {}]
  /\ pc = [r \in Requests |-> "idle"]
  /\ call = [r \in Requests |-> [op |-> "contact", actor |-> CHOOSE u \in Users : TRUE,
                                 target |-> CHOOSE u \in Users : TRUE, value |-> NoValue]]
  /\ before = [r \in Requests |-> NoValue]

Goto(r, label) == pc' = [pc EXCEPT ![r] = label]
Exists(u) == users[u] # NoRow
ActiveAdmin(table, u) == table[u].active /\ table[u].role = "ADMIN"

-----------------------------------------------------------------------------
(* Sign-in: access tokens are made of what login or refresh read. *)

\* Fault: refresh copies the role of the token it replaces.
ReadUserOrToken(u) ==
  /\ users[u].active /\ ~users[u].telegram
  /\ \E role \in {users[u].role} \cup claims[u] :
       signing' = [signing EXCEPT ![u] = @ \cup {role}]
  /\ UNCHANGED <<users, claims, pc, call, before>>

\* login and refresh: findUnique of the user, who has to be active.
ReadUser(u) ==
  /\ users[u].active /\ ~users[u].telegram
  /\ signing' = [signing EXCEPT ![u] = @ \cup {users[u].role}]
  /\ UNCHANGED <<users, claims, pc, call, before>>

\* generateTokens, after bcrypt or the delete of the old token; or the sign-in
\* comes to nothing.
Sign(u, role) ==
  /\ role \in signing[u]
  /\ signing' = [signing EXCEPT ![u] = @ \ {role}]
  /\ claims' = [claims EXCEPT ![u] = @ \cup {role}]
  /\ UNCHANGED <<users, pc, call, before>>
GiveUp(u, role) ==
  /\ role \in signing[u]
  /\ signing' = [signing EXCEPT ![u] = @ \ {role}]
  /\ UNCHANGED <<users, claims, pc, call, before>>

\* JWT_ACCESS_EXPIRES_IN has passed for the tokens with this role.
Expire(u, role) ==
  /\ role \in claims[u]
  /\ claims' = [claims EXCEPT ![u] = @ \ {role}]
  /\ UNCHANGED <<users, signing, pc, call, before>>

\* The row of a new account.
Worker(e, telegram) ==
  [role |-> "WORKER", active |-> TRUE, email |-> e, telegram |-> telegram]

\* AuthService.register, with an address that is free.  An account that a first
\* contact with the bot is about to make is not this one.
Register(u) ==
  /\ ~Exists(u)
  /\ \A r \in Requests : pc[r] # "idle" /\ call[r].op = "contact" => call[r].actor # u
  /\ \E e \in Emails :
       /\ \A v \in Users : users[v].email # e
       /\ users' = [users EXCEPT ![u] = Worker(e, FALSE)]
  /\ UNCHANGED <<claims, signing, pc, call, before>>

-----------------------------------------------------------------------------
(* A request of UsersController. *)

\* RolesGuard: the claim decides, where the route names roles.
RoleAdmits(op, claim) == op \in AdminOps => claim = "ADMIN"

\* Fault: toggleActive does not compare the two ids.
MayTargetOrBlock(c) == c.target # c.actor \/ c.op = "block"

\* "You cannot change your own role", and the two like it.
MayTarget(c) == c.target # c.actor

\* softDeleteUser compares the ids before its findUnique, the two others after.
FirstStep(c) ==
  CASE c.op = "updateProfile" -> "email"
    [] c.op = "contact" -> "lookup"
    [] c.op = "softDelete" /\ ~MayTarget(c) -> "refused"
    [] OTHER -> "find"

Values(op) == CASE op = "changeRole" -> NewRoles
                [] op \in {"updateProfile", "contact"} -> Emails
                [] OTHER -> {NoValue}

\* JwtAccessStrategy.validate finds the user active; guards; the method up to
\* its first await.  What is turned away here changes nothing and is no step.
Begin(r) ==
  /\ pc[r] = "idle"
  /\ \E op \in Ops \ {"contact"}, a, t \in Users : \E claim \in claims[a], v \in Values(op) :
       LET c == [op |-> op, actor |-> a, target |-> t, value |-> v] IN
       /\ users[a].active
       /\ RoleAdmits(op, claim)
       /\ op = "updateProfile" => t = a
       /\ call' = [call EXCEPT ![r] = c]
       /\ Goto(r, FirstStep(c))
  /\ UNCHANGED <<users, claims, signing, before>>

\* changeRole, toggleActive, softDeleteUser: findUnique by id.
Find(r) ==
  /\ pc[r] = "find"
  /\ Goto(r, IF Exists(call[r].target) /\ MayTarget(call[r]) THEN "update" ELSE "refused")
  /\ UNCHANGED <<users, claims, signing, call, before>>

\* What is written to the row of the target.
NewRow(c, row) ==
  CASE c.op = "changeRole" -> [row EXCEPT !.role = c.value]
    [] c.op = "unblock" -> [row EXCEPT !.active = TRUE]
    [] c.op \in {"block", "softDelete"} -> [row EXCEPT !.active = FALSE]

\* users.update by id.
Update(r) ==
  LET c == call[r] IN
  /\ pc[r] = "update"
  /\ users' = [users EXCEPT ![c.target] = NewRow(c, @)]
  /\ before' = [before EXCEPT ![r] = users]
  /\ Goto(r, IF c.op \in {"block", "softDelete"} THEN "sweep" ELSE "ok")
  /\ UNCHANGED <<claims, signing, call>>

\* refreshTokens.deleteMany: see Sessions.
Sweep(r) ==
  /\ pc[r] = "sweep"
  /\ Goto(r, "ok")
  /\ UNCHANGED <<users, claims, signing, call, before>>

\* Fault: finding one's own address is a conflict.
HeldByAnyone(e, u) == \E v \in Users : users[v].email = e

\* existingUser && existingUser.id !== userId.
HeldByAnother(e, u) == \E v \in Users \ {u} : users[v].email = e

\* updateProfile: findUnique by email.
CheckEmail(r) ==
  /\ pc[r] = "email"
  /\ Goto(r, IF HeldByAnother(call[r].value, call[r].actor) THEN "conflict" ELSE "save")
  /\ before' = [before EXCEPT ![r] = users]
  /\ UNCHANGED <<users, claims, signing, call>>

\* updateProfile: update; the unique index makes P2002 of an address taken since,
\* which the exception filter answers like the conflict above.
SaveProfile(r) ==
  LET c == call[r] IN
  /\ pc[r] = "save"
  /\ before' = [before EXCEPT ![r] = users]
  /\ IF HeldByAnother(c.value, c.actor)
     THEN Goto(r, "conflict") /\ UNCHANGED users
     ELSE /\ users' = [users EXCEPT ![c.actor].email = c.value]
          /\ Goto(r, "ok")
  /\ UNCHANGED <<claims, signing, call>>

-----------------------------------------------------------------------------
(* An update from Telegram: BotService.getOrCreateUser. *)

\* The account of the sender, if any, is one with a telegram_id; the address is
\* made of the username the sender has at the moment.
Contact(r) ==
  /\ pc[r] = "idle"
  /\ \E u \in Users, e \in Emails :
       /\ Exists(u) => users[u].telegram
       /\ call' = [call EXCEPT ![r] = [op |-> "contact", actor |-> u, target |-> u, value |-> e]]
       /\ Goto(r, FirstStep(call'[r]))
  /\ UNCHANGED <<users, claims, signing, before>>

HasTelegram(u) == users[u].telegram

\* findUnique by telegramId; a deactivated user is turned away.
LookUp(r) ==
  LET u == call[r].actor IN
  /\ pc[r] = "lookup"
  /\ before' = [before EXCEPT ![r] = users]
  /\ Goto(r, IF ~HasTelegram(u) THEN "provision"
             ELSE IF users[u].active THEN "ok" ELSE "refused")
  /\ UNCHANGED <<users, claims, signing, call>>

\* create, after bcrypt: email and telegram_id are unique.
Provision(r) ==
  LET u == call[r].actor IN
  /\ pc[r] = "provision"
  /\ before' = [before EXCEPT ![r] = users]
  /\ IF HasTelegram(u) \/ HeldByAnother(call[r].value, u)
     THEN Goto(r, "conflict") /\ UNCHANGED users
     ELSE users' = [users EXCEPT ![u] = Worker(call[r].value, TRUE)] /\ Goto(r, "ok")
  /\ UNCHANGED <<claims, signing, call>>

Proceed(r) ==
  \/ Find(r) \/ Update(r) \/ Sweep(r) \/ CheckEmail(r) \/ SaveProfile(r)
  \/ LookUp(r) \/ Provision(r)

\* The process stops, or a call throws, before the next statement.
Abort(r) ==
  /\ pc[r] \in {"find", "update", "sweep", "email", "save", "lookup", "provision"}
  /\ Goto(r, "failed")
  /\ UNCHANGED <<users, claims, signing, call, before>>

SignIns(u) == ReadUser(u) \/ \E role \in Roles : Sign(u, role) \/ GiveUp(u, role)
                                                  \/ Expire(u, role)

Next ==
  \/ \E u \in Users : SignIns(u) \/ Register(u)
  \/ \E r \in Requests : Begin(r) \/ Contact(r) \/ Proceed(r) \/ Abort(r)

\* Time passes, and a sign-in under way ends.
Spec ==
  /\ Init /\ [][Next]_vars
  /\ \A u \in Users, role \in Roles :
       WF_vars(Expire(u, role)) /\ WF_vars(Sign(u, role) \/ GiveUp(u, role))

-----------------------------------------------------------------------------
(* Properties. *)

Wrote(r) == call[r].op \in AdminOps /\ before[r] # NoValue

\* Nobody demotes or blocks themselves, and yet two admins may do it to each
\* other.  That is the only way: if no active admin is left, somebody's powers
\* were taken away by a user who had lost their own in the meantime, to a request
\* that overtook theirs or while their token still claimed them.
Fell(r) == LET t == call[r].target IN
  /\ Wrote(r) /\ ActiveAdmin(before[r], t)
  /\ ~NewRow(call[r], before[r][t]).active \/ NewRow(call[r], before[r][t]).role # "ADMIN"
LastAdminFallsToAFallen ==
  (\A u \in Users : ~ActiveAdmin(users, u)) =>
    \E r, q \in Requests :
      /\ Fell(r) /\ ~ActiveAdmin(before[r], call[r].actor)
      /\ Fell(q) /\ call[q].target = call[r].actor

\* A demotion takes effect: access tokens keep a lost role until they expire, and
\* no later sign-in or refresh brings it back.
DemotionReachesClaims ==
  \A u \in Users, role \in Roles :
    <>[](users[u].role # role) => <>[](role \notin claims[u])

\* A user is told "already exists" only of an address that was somebody else's,
\* whether the check or the index found out, or because another first contact of
\* theirs had made the account meanwhile; and no address ever has two owners.
ConflictsAreReal ==
  /\ \A r \in Requests : pc[r] = "conflict" =>
       \/ \E v \in Users \ {call[r].actor} : before[r][v].email = call[r].value
       \/ \E q \in Requests \ {r} : /\ call[q].op = "contact" /\ call[q].actor = call[r].actor
                                    /\ call[r].op = "contact" /\ pc[q] = "ok"
  /\ \A u, v \in Users : users[u].email = users[v].email => u = v \/ ~Exists(u)
==============================================================================
