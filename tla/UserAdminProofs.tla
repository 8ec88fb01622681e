--------------------------- MODULE UserAdminProofs ---------------------------
(***************************************************************************)
(* Machine-checked proofs about UserAdmin, for any number of accounts,     *)
(* addresses and requests, and any table to start with.                    *)
(***************************************************************************)
EXTENDS UserAdmin, TLAPS

-----------------------------------------------------------------------------
(* The inductive invariant. *)

\* Which request can be at which label, and what it knows there.
Fits(r) ==
  /\ pc[r] \in {"find", "update"} =>
       /\ call[r].op \in AdminOps
       /\ call[r].op = "changeRole" => call[r].value \in Roles
  /\ pc[r] = "update" => Exists(call[r].target) /\ MayTarget(call[r])
  /\ pc[r] \in {"email", "save"} =>
       call[r].op = "updateProfile" /\ call[r].value \in Emails /\ Exists(call[r].actor)
  /\ pc[r] \in {"lookup", "provision"} => call[r].op = "contact" /\ call[r].value \in Emails
  /\ pc[r] = "sweep" => call[r].op \in AdminOps
Labels == \A r \in Requests : Fits(r)

\* A request remembers the table from its statement on.
Unwritten ==
  \A r \in Requests :
    pc[r] = "idle" \/ (call[r].op \in AdminOps /\ pc[r] \in {"find", "update"})
      => before[r] = NoValue

\* Who contacts the bot has an account of the bot or none; while one is being made,
\* only another contact can have made it.
Contacting(r) == pc[r] # "idle" /\ call[r].op = "contact"
MadeByAnother(r) ==
  \E q \in Requests \ {r} : /\ call[q].op = "contact" /\ pc[q] = "ok"
                            /\ call[q].actor = call[r].actor
BotAccounts ==
  \A r \in Requests : Contacting(r) =>
    /\ ~Exists(call[r].actor) \/ HasTelegram(call[r].actor)
    /\ pc[r] = "provision" /\ HasTelegram(call[r].actor) => MadeByAnother(r)

\* No address has two owners.
OwnAddresses == \A u, v \in Users : users[u].email = users[v].email => u = v \/ ~Exists(u)

\* A conflict is that of ConflictsAreReal.
Explained(r) ==
  \/ \E v \in Users \ {call[r].actor} : before[r][v].email = call[r].value
  \/ call[r].op = "contact" /\ MadeByAnother(r)
Conflicts == \A r \in Requests : pc[r] = "conflict" => Explained(r)

\* Whoever claims to be an admin, or acted as one, is one, or has fallen.
Fallen(u) == \E q \in Requests : Fell(q) /\ call[q].target = u
Backed(u) == ActiveAdmin(users, u) \/ Fallen(u)
Backings ==
  /\ \A u \in Users : "ADMIN" \in claims[u] \cup signing[u] => Backed(u)
  /\ \A r \in Requests : pc[r] # "idle" /\ call[r].op \in AdminOps => Backed(call[r].actor)

IndInv ==
  /\ TypeOK
  /\ Labels
  /\ Unwritten
  /\ BotAccounts
  /\ OwnAddresses
  /\ Conflicts
  /\ Backings
  /\ LastAdminFallsToAFallen

-----------------------------------------------------------------------------
(* Facts about rows. *)

LEMMA RowFacts ==
  /\ NoRow.email = NoValue /\ NoRow.telegram = FALSE /\ NoRow.active = FALSE
  /\ NoRow.role = "WORKER"
  /\ \A row \in LiveRow : /\ row.email \in Emails /\ row # NoRow /\ row.role \in Roles
                          /\ row.active \in BOOLEAN /\ row.telegram \in BOOLEAN
  /\ NoValue \notin Emails
BY ValueAssumption DEF NoRow, LiveRow

LEMMA NewRowFacts ==
  ASSUME NEW c \in Call, NEW row \in LiveRow, c.op \in AdminOps,
         c.op = "changeRole" => c.value \in Roles
  PROVE  /\ NewRow(c, row) \in LiveRow
         /\ NewRow(c, row).email = row.email /\ NewRow(c, row).telegram = row.telegram
BY DEF NewRow, LiveRow, AdminOps, Call

LEMMA WorkerFacts ==
  ASSUME NEW e \in Emails, NEW t \in BOOLEAN
  PROVE  /\ Worker(e, t) \in LiveRow
         /\ Worker(e, t).email = e /\ Worker(e, t).telegram = t
         /\ Worker(e, t).role = "WORKER"
BY DEF Worker, LiveRow, Roles

-----------------------------------------------------------------------------
(* What a step leaves of those who fell. *)

LEMMA FallenStay ==
  ASSUME IndInv,
         \A q \in Requests : pc[q] # "idle" => call'[q] = call[q],
         \A q \in Requests : pc[q] # "idle" /\ before[q] # NoValue /\ call[q].op \in AdminOps
                               => before'[q] = before[q]
  PROVE  /\ \A q \in Requests : Fell(q) => /\ Fell(q)' /\ call'[q] = call[q]
                                           /\ before'[q] = before[q]
         /\ \A u \in Users : Fallen(u) => Fallen(u)'
<1>1. ASSUME NEW q \in Requests, Fell(q)
      PROVE  Fell(q)' /\ call'[q] = call[q] /\ before'[q] = before[q]
  <2>1. pc[q] # "idle" /\ before[q] # NoValue /\ call[q].op \in AdminOps
    BY <1>1 DEF Fell, Wrote, IndInv, Unwritten
  <2>2. call'[q] = call[q] /\ before'[q] = before[q]
    BY <2>1
  <2> QED
    BY <1>1, <2>2 DEF Fell, Wrote, NewRow, ActiveAdmin
<1> QED
  BY <1>1 DEF Fallen

\* If every active admin stays one, the conjuncts about admins hold on, but for the
\* request and the user that the step is about.
LEMMA AdminsStay ==
  ASSUME IndInv,
         \A q \in Requests : pc[q] # "idle" => call'[q] = call[q],
         \A q \in Requests : pc[q] # "idle" /\ before[q] # NoValue /\ call[q].op \in AdminOps
                               => before'[q] = before[q],
         \A u \in Users : ActiveAdmin(users, u) => ActiveAdmin(users', u)
  PROVE  /\ \A u \in Users : Backed(u) => Backed(u)'
         /\ LastAdminFallsToAFallen'
<1>1. /\ \A q \in Requests : Fell(q) => /\ Fell(q)' /\ call'[q] = call[q]
                                        /\ before'[q] = before[q]
      /\ \A u \in Users : Fallen(u) => Fallen(u)'
  BY FallenStay
<1>2. \A u \in Users : Backed(u) => Backed(u)'
  BY <1>1 DEF Backed
<1>3. ASSUME \A u \in Users : ~ActiveAdmin(users', u)
      PROVE  \E r, q \in Requests :
               /\ Fell(r)' /\ ~ActiveAdmin(before'[r], call'[r].actor)
               /\ Fell(q)' /\ call'[q].target = call'[r].actor
  <2>1. PICK r \in Requests, q \in Requests :
               /\ Fell(r) /\ ~ActiveAdmin(before[r], call[r].actor)
               /\ Fell(q) /\ call[q].target = call[r].actor
    BY <1>3 DEF IndInv, LastAdminFallsToAFallen
  <2> QED
    BY <1>1, <2>1
<1> QED
  BY <1>2, <1>3 DEF LastAdminFallsToAFallen

-----------------------------------------------------------------------------
(* Every step keeps the invariant. *)

\* Sign-ins leave tables and requests alone, and carry roles that are backed.
LEMMA SignInsKeep ==
  ASSUME IndInv, NEW u \in Users, SignIns(u)
  PROVE  IndInv'
<1>1. UNCHANGED <<users, pc, call, before>>
  BY DEF SignIns, ReadUser, Sign, GiveUp, Expire
<1>2. /\ claims' \in [Users -> SUBSET Roles] /\ signing' \in [Users -> SUBSET Roles]
      /\ \A v \in Users : "ADMIN" \in claims'[v] \cup signing'[v] =>
           "ADMIN" \in claims[v] \cup signing[v] \/ ActiveAdmin(users, v)
  <2>1. /\ claims \in [Users -> SUBSET Roles] /\ signing \in [Users -> SUBSET Roles]
        /\ users \in Table
    BY DEF IndInv, TypeOK
  <2>2. CASE ReadUser(u)
    <3>1. users[u].active /\ users[u].role \in Roles
      BY <2>1, <2>2, RowFacts DEF ReadUser, Table, Roles
    <3> QED
      BY <2>1, <2>2, <3>1 DEF ReadUser, ActiveAdmin
  <2>3. ASSUME NEW role \in Roles, Sign(u, role) \/ GiveUp(u, role) \/ Expire(u, role)
        PROVE  <1>2!:
    BY <2>1, <2>3 DEF Sign, GiveUp, Expire
  <2> QED
    BY <2>2, <2>3 DEF SignIns
<1>3. TypeOK'
  BY <1>1, <1>2 DEF IndInv, TypeOK
<1>4. Labels' /\ Unwritten' /\ BotAccounts' /\ OwnAddresses' /\ Conflicts'
  BY <1>1 DEF IndInv, Labels, Fits, Exists, Unwritten, BotAccounts, Contacting, HasTelegram,
              MadeByAnother, OwnAddresses, Conflicts, Explained
<1>5. (\A v \in Users : Backed(v) => Backed(v)') /\ LastAdminFallsToAFallen'
  BY <1>1, AdminsStay
<1>6. Backings'
  <2>1. \A v \in Users : "ADMIN" \in claims'[v] \cup signing'[v] => Backed(v)
    BY <1>2 DEF IndInv, Backings, Backed
  <2>2. call \in [Requests -> Call]
    BY DEF IndInv, TypeOK
  <2>3. \A r \in Requests : call[r].actor \in Users
    BY <2>2 DEF Call
  <2> QED
    BY <1>1, <1>5, <2>1, <2>3 DEF IndInv, Backings
<1> QED
  BY <1>3, <1>4, <1>5, <1>6 DEF IndInv

LEMMA RegisterKeeps ==
  ASSUME IndInv, NEW u \in Users, Register(u)
  PROVE  IndInv'
<1>1. PICK e \in Emails : /\ \A v \in Users : users[v].email # e
                          /\ users' = [users EXCEPT ![u] = Worker(e, FALSE)]
  BY DEF Register
<1>2. /\ UNCHANGED <<claims, signing, pc, call, before>> /\ ~Exists(u)
      /\ \A r \in Requests : Contacting(r) => call[r].actor # u
  BY DEF Register, Contacting
<1>3. /\ users \in Table /\ call \in [Requests -> Call]
      /\ Worker(e, FALSE) \in LiveRow /\ Worker(e, FALSE).email = e
  BY WorkerFacts DEF IndInv, TypeOK
<1>4. /\ users' \in Table
      /\ users'[u] = Worker(e, FALSE)
      /\ \A v \in Users \ {u} : users'[v] = users[v]
  BY <1>1, <1>3 DEF Table
<1>5. \A v \in Users : Exists(v) => Exists(v)' /\ users'[v] = users[v]
  BY <1>2, <1>4 DEF Exists
<1>6. \A r \in Requests : call[r].actor \in Users /\ call[r].target \in Users
  BY <1>3 DEF Call
<1>7. TypeOK'
  BY <1>2, <1>4 DEF IndInv, TypeOK
<1>8. Labels' /\ Unwritten' /\ Conflicts'
  BY <1>2, <1>5, <1>6 DEF IndInv, Labels, Fits, Unwritten, Conflicts, Explained, MadeByAnother
<1>9. BotAccounts'
  BY <1>2, <1>4, <1>6 DEF IndInv, BotAccounts, Contacting, Exists, HasTelegram, MadeByAnother
<1>10. OwnAddresses'
  <2> SUFFICES ASSUME NEW v \in Users, NEW w \in Users, users'[v].email = users'[w].email,
                      v # w
               PROVE  ~Exists(v)'
    BY DEF OwnAddresses
  <2>1. v # u /\ w # u
    BY <1>1, <1>3, <1>4
  <2> QED
    BY <1>4, <2>1 DEF IndInv, OwnAddresses, Exists
<1>11. \A v \in Users : ActiveAdmin(users, v) => ActiveAdmin(users', v)
  BY <1>5, RowFacts DEF ActiveAdmin, Exists
<1>12. (\A v \in Users : Backed(v) => Backed(v)') /\ LastAdminFallsToAFallen'
  BY <1>2, <1>11, AdminsStay
<1>13. Backings'
  BY <1>2, <1>6, <1>12 DEF IndInv, Backings
<1> QED
  BY <1>7, <1>8, <1>9, <1>10, <1>12, <1>13 DEF IndInv

\* A request comes in.
LEMMA EnterKeeps ==
  ASSUME IndInv, NEW r \in Requests, NEW c \in Call,
         NEW label \in {"find", "email", "refused", "lookup"},
         pc[r] = "idle", Goto(r, label), call' = [call EXCEPT ![r] = c],
         UNCHANGED <<users, claims, signing, before>>,
         label = "find" => c.op \in AdminOps /\ (c.op = "changeRole" => c.value \in Roles),
         label = "email" => c.op = "updateProfile" /\ c.value \in Emails /\ Exists(c.actor),
         label = "lookup" => c.op = "contact" /\ c.value \in Emails,
         c.op = "contact" => ~Exists(c.actor) \/ HasTelegram(c.actor),
         c.op \in AdminOps => "ADMIN" \in claims[c.actor]
  PROVE  IndInv'
<1>1. /\ pc'[r] = label /\ call'[r] = c
      /\ \A q \in Requests \ {r} : pc'[q] = pc[q] /\ call'[q] = call[q]
  BY DEF IndInv, TypeOK, Goto
<1>2. TypeOK'
  BY DEF IndInv, TypeOK, Goto
<1>3. Labels'
  BY <1>1 DEF IndInv, Labels, Fits, Exists
<1>4. Unwritten'
  BY <1>1 DEF IndInv, Unwritten
<1>5. \A q \in Requests : MadeByAnother(q) /\ q # r => MadeByAnother(q)'
  BY <1>1 DEF MadeByAnother
<1>6. BotAccounts'
  BY <1>1, <1>5 DEF IndInv, BotAccounts, Contacting, Exists, HasTelegram
<1>7. OwnAddresses'
  BY DEF IndInv, OwnAddresses, Exists
<1>8. Conflicts'
  <2> SUFFICES ASSUME NEW q \in Requests, pc'[q] = "conflict"
               PROVE  Explained(q)'
    BY DEF Conflicts
  <2>1. q # r /\ Explained(q)
    BY <1>1 DEF IndInv, Conflicts
  <2> QED
    BY <1>1, <1>5, <2>1 DEF Explained
<1>9. (\A v \in Users : Backed(v) => Backed(v)') /\ LastAdminFallsToAFallen'
  BY <1>1, AdminsStay
<1>10. Backings'
  <2>1. call \in [Requests -> Call]
    BY DEF IndInv, TypeOK
  <2>2. c.actor \in Users /\ \A q \in Requests : call[q].actor \in Users
    BY <2>1 DEF Call
  <2>3. ASSUME c.op \in AdminOps
        PROVE  Backed(c.actor)
    <3>1. "ADMIN" \in claims[c.actor]
      BY <2>3
    <3> QED
      BY <2>2, <3>1 DEF IndInv, Backings
  <2>4. ASSUME NEW q \in Requests, pc'[q] # "idle", call'[q].op \in AdminOps
        PROVE  Backed(call[q].actor)'
    <3>1. CASE q = r
      BY <1>1, <1>9, <2>2, <2>3, <2>4, <3>1
    <3>2. CASE q # r
      <4>1. Backed(call[q].actor)
        BY <1>1, <2>4, <3>2 DEF IndInv, Backings
      <4> QED
        BY <1>1, <1>9, <2>2, <3>2, <4>1
    <3> QED
      BY <3>1, <3>2
  <2> QED
    BY <1>9, <2>4 DEF IndInv, Backings
<1> QED
  BY <1>2, <1>3, <1>4, <1>6, <1>7, <1>8, <1>9, <1>10 DEF IndInv

LEMMA BeginKeeps ==
  ASSUME IndInv, NEW r \in Requests, Begin(r)
  PROVE  IndInv'
<1>1. PICK op \in Ops \ {"contact"}, a \in Users, t \in Users :
        \E claim \in claims[a], v \in Values(op) :
          LET c == [op |-> op, actor |-> a, target |-> t, value |-> v] IN
          /\ users[a].active
          /\ RoleAdmits(op, claim)
          /\ call' = [call EXCEPT ![r] = c]
          /\ Goto(r, FirstStep(c))
  BY DEF Begin
<1>2. PICK claim \in claims[a], v \in Values(op) :
          /\ users[a].active
          /\ RoleAdmits(op, claim)
          /\ call' = [call EXCEPT ![r] = [op |-> op, actor |-> a, target |-> t, value |-> v]]
          /\ Goto(r, FirstStep([op |-> op, actor |-> a, target |-> t, value |-> v]))
  BY <1>1
<1> DEFINE c == [op |-> op, actor |-> a, target |-> t, value |-> v]
<1>3. /\ v \in Roles \cup Emails \cup {NoValue}
      /\ op = "changeRole" => v \in Roles
      /\ op = "updateProfile" => v \in Emails
  BY <1>2, ValueAssumption DEF Values, Ops, AdminOps
<1>4. c \in Call
  BY <1>3 DEF Call
<1>5. PICK label \in {"find", "email", "refused"} :
        /\ label = FirstStep(c)
        /\ label = "find" => op \in AdminOps
        /\ label = "email" => op = "updateProfile"
  BY DEF FirstStep, Ops, AdminOps
<1>6. Exists(a)
  BY <1>2, RowFacts DEF Exists
<1>7. op \in AdminOps => "ADMIN" \in claims[a]
  BY <1>2 DEF RoleAdmits
<1>8. /\ pc[r] = "idle" /\ UNCHANGED <<users, claims, signing, before>>
      /\ Goto(r, label) /\ call' = [call EXCEPT ![r] = c]
  BY <1>2, <1>5 DEF Begin
<1>9. c.op = op /\ c.actor = a /\ c.target = t /\ c.value = v
  OBVIOUS
<1> HIDE DEF c
<1> QED
  BY <1>3, <1>4, <1>5, <1>6, <1>7, <1>8, <1>9, EnterKeeps

LEMMA ContactKeeps ==
  ASSUME IndInv, NEW r \in Requests, Contact(r)
  PROVE  IndInv'
<1>1. PICK u \in Users, e \in Emails :
        /\ Exists(u) => users[u].telegram
        /\ call' = [call EXCEPT ![r] = [op |-> "contact", actor |-> u, target |-> u, value |-> e]]
        /\ Goto(r, FirstStep(call'[r]))
  BY DEF Contact
<1> DEFINE c == [op |-> "contact", actor |-> u, target |-> u, value |-> e]
<1>2. c \in Call /\ c.op = "contact" /\ c.actor = u /\ c.value = e
  BY DEF Call, Ops
<1>3. call'[r] = c
  BY <1>1 DEF IndInv, TypeOK
<1>4. FirstStep(call'[r]) = "lookup"
  BY <1>2, <1>3 DEF FirstStep
<1>5. /\ pc[r] = "idle" /\ UNCHANGED <<users, claims, signing, before>>
      /\ Goto(r, "lookup") /\ call' = [call EXCEPT ![r] = c]
  BY <1>1, <1>4 DEF Contact
<1>6. ~Exists(u) \/ HasTelegram(u)
  BY <1>1 DEF HasTelegram
<1> HIDE DEF c
<1> QED
  BY <1>2, <1>5, <1>6, EnterKeeps DEF AdminOps

\* A statement that leaves the table alone.
AtWork == {"find", "update", "sweep", "email", "save", "lookup", "provision"}

LEMMA MoveKeeps ==
  ASSUME IndInv, NEW r \in Requests,
         NEW label \in {"update", "save", "provision", "ok", "refused", "conflict", "failed"},
         pc[r] \in AtWork, Goto(r, label), UNCHANGED <<users, claims, signing, call>>,
         before' = before \/ (call[r].op \notin AdminOps /\ before' = [before EXCEPT ![r] = users]),
         label = "update" => pc[r] = "find" /\ Exists(call[r].target) /\ MayTarget(call[r]),
         label = "save" => pc[r] = "email",
         label = "provision" => pc[r] = "lookup" /\ ~HasTelegram(call[r].actor),
         label = "conflict" =>
           \/ \E v \in Users \ {call[r].actor} : before'[r][v].email = call[r].value
           \/ call[r].op = "contact" /\ MadeByAnother(r)
  PROVE  IndInv'
<1>1. /\ pc'[r] = label /\ call' = call /\ users' = users
      /\ \A q \in Requests \ {r} : pc'[q] = pc[q] /\ before'[q] = before[q]
      /\ call[r].op \in AdminOps => before'[r] = before[r]
  BY DEF IndInv, TypeOK, Goto
<1>2. TypeOK'
  BY DEF IndInv, TypeOK, Goto
<1>3. Labels'
  <2> SUFFICES ASSUME NEW q \in Requests
               PROVE  Fits(q)'
    BY DEF Labels
  <2>1. Fits(q) /\ Fits(r)
    BY DEF IndInv, Labels
  <2>2. CASE q = r
    BY <1>1, <2>1, <2>2 DEF Fits, Exists
  <2>3. CASE q # r
    BY <1>1, <2>1, <2>3 DEF Fits, Exists
  <2> QED
    BY <2>2, <2>3
<1>4. Unwritten'
  <2> SUFFICES ASSUME NEW q \in Requests,
                      pc'[q] = "idle" \/ (call[q].op \in AdminOps /\ pc'[q] \in {"find", "update"})
               PROVE  before'[q] = NoValue
    BY <1>1 DEF Unwritten
  <2>1. CASE q = r
    BY <1>1, <2>1 DEF IndInv, Unwritten
  <2>2. CASE q # r
    BY <1>1, <2>2 DEF IndInv, Unwritten
  <2> QED
    BY <2>1, <2>2
<1>5. \A q \in Requests : MadeByAnother(q) => MadeByAnother(q)'
  BY <1>1 DEF MadeByAnother, AtWork
<1>6. BotAccounts'
  <2> SUFFICES ASSUME NEW q \in Requests, Contacting(q)'
               PROVE  /\ ~Exists(call[q].actor)' \/ HasTelegram(call[q].actor)'
                      /\ pc'[q] = "provision" /\ HasTelegram(call[q].actor)' => MadeByAnother(q)'
    BY <1>1 DEF BotAccounts
  <2>1. Contacting(q)
    BY <1>1 DEF Contacting, AtWork
  <2>2. CASE q = r
    BY <1>1, <2>1, <2>2 DEF IndInv, BotAccounts, Exists, HasTelegram
  <2>3. CASE q # r
    BY <1>1, <1>5, <2>1, <2>3 DEF IndInv, BotAccounts, Exists, HasTelegram
  <2> QED
    BY <2>2, <2>3
<1>7. OwnAddresses'
  BY DEF IndInv, OwnAddresses, Exists
<1>8. Conflicts'
  <2> SUFFICES ASSUME NEW q \in Requests, pc'[q] = "conflict"
               PROVE  Explained(q)'
    BY DEF Conflicts
  <2>1. CASE q = r
    BY <1>1, <1>5, <2>1 DEF Explained
  <2>2. CASE q # r
    <3>1. Explained(q)
      BY <1>1, <2>2 DEF IndInv, Conflicts
    <3> QED
      BY <1>1, <1>5, <2>2, <3>1 DEF Explained
  <2> QED
    BY <2>1, <2>2
<1>9. (\A v \in Users : Backed(v) => Backed(v)') /\ LastAdminFallsToAFallen'
  BY <1>1, AdminsStay
<1>10. Backings'
  <2>1. call \in [Requests -> Call]
    BY DEF IndInv, TypeOK
  <2>2. \A q \in Requests : call[q].actor \in Users
    BY <2>1 DEF Call
  <2>3. \A q \in Requests : pc'[q] # "idle" => pc[q] # "idle"
    BY <1>1 DEF AtWork
  <2> QED
    BY <1>1, <1>9, <2>2, <2>3 DEF IndInv, Backings
<1> QED
  BY <1>2, <1>3, <1>4, <1>6, <1>7, <1>8, <1>9, <1>10 DEF IndInv

LEMMA ReadsKeep ==
  ASSUME IndInv, NEW r \in Requests,
         Find(r) \/ Sweep(r) \/ CheckEmail(r) \/ LookUp(r) \/ Abort(r)
  PROVE  IndInv'
<1>1. users # NoValue /\ before \in [Requests -> Table \cup {NoValue}]
  BY ValueAssumption DEF IndInv, TypeOK
<1>2. Fits(r)
  BY DEF IndInv, Labels
<1>3. CASE Find(r)
  BY <1>3, MoveKeeps DEF Find, Goto, AtWork
<1>4. CASE Sweep(r)
  BY <1>4, MoveKeeps DEF Sweep, AtWork
<1>5. CASE CheckEmail(r)
  <2>1. call[r].op \notin AdminOps
    BY <1>2, <1>5 DEF CheckEmail, Fits, AdminOps
  <2>2. before'[r] = users
    BY <1>1, <1>5 DEF CheckEmail
  <2>3. PICK label \in {"conflict", "save"} :
          /\ Goto(r, label)
          /\ label = "conflict" => HeldByAnother(call[r].value, call[r].actor)
    BY <1>5 DEF CheckEmail
  <2> QED
    BY <1>5, <2>1, <2>2, <2>3, MoveKeeps DEF CheckEmail, HeldByAnother, AtWork
<1>6. CASE LookUp(r)
  <2>1. call[r].op \notin AdminOps
    BY <1>2, <1>6 DEF LookUp, Fits, AdminOps
  <2>2. PICK label \in {"provision", "ok", "refused"} :
          Goto(r, label) /\ (label = "provision" => ~HasTelegram(call[r].actor))
    BY <1>6 DEF LookUp
  <2> QED
    BY <1>6, <2>1, <2>2, MoveKeeps DEF LookUp, AtWork
<1>7. CASE Abort(r)
  BY <1>7, MoveKeeps DEF Abort, AtWork
<1> QED
  BY <1>3, <1>4, <1>5, <1>6, <1>7

\* An admin who is written to keeps the conjuncts about admins: who loses the last
\* one's powers was one when let in, and so has fallen, as nobody targets themselves.
LEMMA WriteKeepsAdmins ==
  ASSUME IndInv, NEW r \in Requests, NEW u \in Users, NEW row \in LiveRow,
         pc[r] \in {"update", "save", "provision"}, call' = call,
         users' = [users EXCEPT ![u] = row], before' = [before EXCEPT ![r] = users],
         \/ ActiveAdmin(users, u) => row.active /\ row.role = "ADMIN"
         \/ /\ call[r].op \in AdminOps /\ call[r].target = u /\ call[r].actor # u
            /\ row = NewRow(call[r], users[u])
  PROVE  /\ \A v \in Users : Backed(v) => Backed(v)'
         /\ LastAdminFallsToAFallen'
<1>1. /\ users \in Table /\ users # NoValue /\ call[r].actor \in Users
      /\ before'[r] = users
      /\ \A q \in Requests \ {r} : before'[q] = before[q]
      /\ users'[u] = row
      /\ \A v \in Users \ {u} : users'[v] = users[v]
  BY ValueAssumption DEF IndInv, TypeOK, Table, Call
<1>2. \A q \in Requests : pc[q] # "idle" /\ before[q] # NoValue /\ call[q].op \in AdminOps
                             => before'[q] = before[q]
  <2>1. call[r].op \in AdminOps => before[r] = NoValue
    BY DEF IndInv, Unwritten, Labels, Fits, AdminOps
  <2> QED
    BY <1>1, <2>1
<1>3. /\ \A q \in Requests : Fell(q) => Fell(q)' /\ before'[q] = before[q]
      /\ \A v \in Users : Fallen(v) => Fallen(v)'
  BY <1>2, FallenStay
<1>4. CASE ActiveAdmin(users, u) => row.active /\ row.role = "ADMIN"
  <2>1. \A v \in Users : ActiveAdmin(users, v) => ActiveAdmin(users', v)
    BY <1>1, <1>4 DEF ActiveAdmin
  <2> QED
    BY <1>2, <2>1, AdminsStay
<1>5. CASE /\ ActiveAdmin(users, u) /\ ~(row.active /\ row.role = "ADMIN")
           /\ call[r].op \in AdminOps /\ call[r].target = u /\ call[r].actor # u
           /\ row = NewRow(call[r], users[u])
  <2>1. Fell(r)'
    BY <1>1, <1>5 DEF Fell, Wrote, ActiveAdmin, NewRow
  <2>2. Fallen(u)'
    BY <1>5, <2>1 DEF Fallen
  <2>3. \A v \in Users : Backed(v) => Backed(v)'
    BY <1>1, <1>3, <2>2 DEF Backed, ActiveAdmin
  <2>4. ASSUME \A v \in Users : ~ActiveAdmin(users', v)
        PROVE  \E p, q \in Requests :
                 /\ Fell(p)' /\ ~ActiveAdmin(before'[p], call'[p].actor)
                 /\ Fell(q)' /\ call'[q].target = call'[p].actor
    <3>1. ~ActiveAdmin(users, call[r].actor)
      BY <1>1, <1>5, <2>4 DEF ActiveAdmin
    <3>2. Backed(call[r].actor)
      BY <1>5 DEF IndInv, Backings
    <3>3. PICK q \in Requests : Fell(q) /\ call[q].target = call[r].actor
      BY <3>1, <3>2 DEF Backed, Fallen
    <3> QED
      BY <1>1, <1>3, <2>1, <3>1, <3>3
  <2> QED
    BY <2>3, <2>4 DEF LastAdminFallsToAFallen
<1> QED
  BY <1>4, <1>5

LEMMA WriteKeeps ==
  ASSUME IndInv, NEW r \in Requests, NEW u \in Users, NEW row \in LiveRow,
         NEW label \in {"sweep", "ok"},
         pc[r] \in {"update", "save", "provision"}, Goto(r, label),
         UNCHANGED <<claims, signing, call>>,
         users' = [users EXCEPT ![u] = row], before' = [before EXCEPT ![r] = users],
         label = "sweep" => call[r].op \in AdminOps,
         ~HeldByAnother(row.email, u),
         Exists(u) \/ row.telegram,
         HasTelegram(u) => row.telegram,
         row.telegram /\ ~HasTelegram(u) =>
           label = "ok" /\ call[r].op = "contact" /\ call[r].actor = u,
         \/ ActiveAdmin(users, u) => row.active /\ row.role = "ADMIN"
         \/ /\ call[r].op \in AdminOps /\ call[r].target = u /\ call[r].actor # u
            /\ row = NewRow(call[r], users[u])
  PROVE  IndInv'
<1>1. /\ pc'[r] = label /\ call' = call /\ before'[r] = users
      /\ \A q \in Requests \ {r} : pc'[q] = pc[q] /\ before'[q] = before[q]
      /\ users'[u] = row
      /\ \A v \in Users \ {u} : users'[v] = users[v]
      /\ call \in [Requests -> Call]
  BY DEF IndInv, TypeOK, Goto, Table
<1>2. TypeOK'
  BY DEF IndInv, TypeOK, Goto, Table
<1>3. /\ \A q \in Requests : call[q].actor \in Users /\ call[q].target \in Users
      /\ \A v \in Users : Exists(v) => Exists(v)'
  BY <1>1, RowFacts DEF Call, Exists
<1>4. Labels'
  <2> SUFFICES ASSUME NEW q \in Requests
               PROVE  Fits(q)'
    BY DEF Labels
  <2>1. Fits(q)
    BY DEF IndInv, Labels
  <2>2. CASE q = r
    BY <1>1, <2>2 DEF Fits
  <2>3. CASE q # r
    BY <1>1, <1>3, <2>1, <2>3 DEF Fits
  <2> QED
    BY <2>2, <2>3
<1>5. Unwritten'
  BY <1>1 DEF IndInv, Unwritten
<1>6. \A q \in Requests : MadeByAnother(q) => MadeByAnother(q)'
  BY <1>1 DEF MadeByAnother
<1>7. BotAccounts'
  <2> SUFFICES ASSUME NEW q \in Requests, Contacting(q)'
               PROVE  /\ ~Exists(call[q].actor)' \/ HasTelegram(call[q].actor)'
                      /\ pc'[q] = "provision" /\ HasTelegram(call[q].actor)' => MadeByAnother(q)'
    BY <1>1 DEF BotAccounts
  <2>1. Contacting(q) /\ call[q].actor \in Users
    BY <1>1, <1>3 DEF Contacting
  <2>2. /\ ~Exists(call[q].actor) \/ HasTelegram(call[q].actor)
        /\ pc[q] = "provision" /\ HasTelegram(call[q].actor) => MadeByAnother(q)
    BY <2>1 DEF IndInv, BotAccounts
  <2>3. ~Exists(call[q].actor)' \/ HasTelegram(call[q].actor)'
    BY <1>1, <2>1, <2>2 DEF Exists, HasTelegram
  <2>4. ASSUME pc'[q] = "provision", HasTelegram(call[q].actor)'
        PROVE  MadeByAnother(q)'
    <3>1. q # r /\ pc[q] = "provision"
      BY <1>1, <2>4
    <3>2. CASE HasTelegram(call[q].actor)
      BY <1>6, <2>2, <3>1, <3>2
    <3>3. CASE ~HasTelegram(call[q].actor)
      <4>1. call[q].actor = u /\ row.telegram
        BY <1>1, <2>1, <2>4, <3>3 DEF HasTelegram
      <4> QED
        BY <1>1, <3>1, <3>3, <4>1 DEF MadeByAnother
    <3> QED
      BY <3>2, <3>3
  <2> QED
    BY <2>3, <2>4
<1>8. OwnAddresses'
  <2> SUFFICES ASSUME NEW v \in Users, NEW w \in Users, users'[v].email = users'[w].email,
                      v # w
               PROVE  ~Exists(v)'
    BY DEF OwnAddresses
  <2>1. v # u /\ w # u
    BY <1>1 DEF HeldByAnother
  <2> QED
    BY <1>1, <2>1 DEF IndInv, OwnAddresses, Exists
<1>9. Conflicts'
  <2> SUFFICES ASSUME NEW q \in Requests, pc'[q] = "conflict"
               PROVE  Explained(q)'
    BY DEF Conflicts
  <2>1. q # r /\ Explained(q)
    BY <1>1 DEF IndInv, Conflicts
  <2> QED
    BY <1>1, <1>6, <2>1 DEF Explained
<1>10. (\A v \in Users : Backed(v) => Backed(v)') /\ LastAdminFallsToAFallen'
  BY WriteKeepsAdmins
<1>11. Backings'
  BY <1>1, <1>3, <1>10 DEF IndInv, Backings
<1> QED
  BY <1>2, <1>4, <1>5, <1>7, <1>8, <1>9, <1>10, <1>11 DEF IndInv

LEMMA UpdateKeeps ==
  ASSUME IndInv, NEW r \in Requests, Update(r)
  PROVE  IndInv'
<1> DEFINE u == call[r].target
           row == NewRow(call[r], users[u])
<1>1. /\ pc[r] = "update" /\ Fits(r) /\ call[r] \in Call /\ users \in Table
  BY DEF Update, IndInv, TypeOK, Labels
<1>2. /\ call[r].op \in AdminOps /\ (call[r].op = "changeRole" => call[r].value \in Roles)
      /\ Exists(u) /\ call[r].actor # u /\ u \in Users
  BY <1>1 DEF Fits, MayTarget, Call
<1>3. users[u] \in LiveRow
  BY <1>1, <1>2 DEF Table, Exists
<1>4. row \in LiveRow /\ row.email = users[u].email /\ row.telegram = users[u].telegram
  BY <1>1, <1>2, <1>3, NewRowFacts
<1>5. ~HeldByAnother(row.email, u)
  BY <1>2, <1>4 DEF IndInv, OwnAddresses, HeldByAnother
<1>6. PICK label \in {"sweep", "ok"} : Goto(r, label)
  BY DEF Update
<1>7. /\ users' = [users EXCEPT ![u] = row] /\ before' = [before EXCEPT ![r] = users]
      /\ UNCHANGED <<claims, signing, call>>
  BY DEF Update
<1> HIDE DEF row, u
<1>8. HasTelegram(u) <=> row.telegram
  BY <1>4 DEF HasTelegram
<1>9. call[r].target = u /\ row = NewRow(call[r], users[u])
  BY DEF row, u
<1> QED
  BY <1>1, <1>2, <1>4, <1>5, <1>6, <1>7, <1>8, <1>9, WriteKeeps

LEMMA SaveProfileKeeps ==
  ASSUME IndInv, NEW r \in Requests, SaveProfile(r)
  PROVE  IndInv'
<1> DEFINE u == call[r].actor
           row == [users[u] EXCEPT !.email = call[r].value]
<1>1. /\ pc[r] = "save" /\ Fits(r) /\ call[r] \in Call /\ users \in Table
      /\ before \in [Requests -> Table \cup {NoValue}]
  BY DEF SaveProfile, IndInv, TypeOK, Labels
<1>2. call[r].op = "updateProfile" /\ call[r].value \in Emails /\ Exists(u) /\ u \in Users
  BY <1>1 DEF Fits, Call
<1>3. before'[r] = users /\ UNCHANGED <<claims, signing, call>>
  BY <1>1 DEF SaveProfile
<1>4. CASE HeldByAnother(call[r].value, u)
  <2>1. \E v \in Users \ {u} : before'[r][v].email = call[r].value
    BY <1>3, <1>4 DEF HeldByAnother
  <2>2. /\ Goto(r, "conflict") /\ UNCHANGED users /\ before' = [before EXCEPT ![r] = users]
        /\ call[r].op \notin AdminOps
    BY <1>2, <1>4 DEF SaveProfile, AdminOps
  <2> QED
    BY <1>1, <1>3, <2>1, <2>2, MoveKeeps DEF AtWork
<1>5. CASE ~HeldByAnother(call[r].value, u)
  <2>1. /\ users' = [users EXCEPT ![u] = row] /\ before' = [before EXCEPT ![r] = users]
        /\ Goto(r, "ok")
    BY <1>5 DEF SaveProfile
  <2>2. users[u] \in LiveRow
    BY <1>1, <1>2 DEF Table, Exists
  <2>3. /\ row \in LiveRow /\ row.email = call[r].value /\ row.telegram = users[u].telegram
        /\ row.active = users[u].active /\ row.role = users[u].role
    BY <1>2, <2>2 DEF LiveRow
  <2>4. ~HeldByAnother(row.email, u)
    BY <1>5, <2>3
  <2>5. ActiveAdmin(users, u) => row.active /\ row.role = "ADMIN"
    BY <2>3 DEF ActiveAdmin
  <2>6. HasTelegram(u) <=> row.telegram
    BY <2>3 DEF HasTelegram
  <2>7. PICK label \in {"sweep", "ok"} : label # "sweep" /\ Goto(r, label)
    BY <2>1
  <2> HIDE DEF row, u
  <2> QED
    BY <1>1, <1>2, <1>3, <2>1, <2>3, <2>4, <2>5, <2>6, <2>7, WriteKeeps
<1> QED
  BY <1>4, <1>5

LEMMA ProvisionKeeps ==
  ASSUME IndInv, NEW r \in Requests, Provision(r)
  PROVE  IndInv'
<1> DEFINE u == call[r].actor
           row == Worker(call[r].value, TRUE)
<1>1. /\ pc[r] = "provision" /\ Fits(r) /\ call[r] \in Call /\ users \in Table
      /\ before \in [Requests -> Table \cup {NoValue}]
  BY DEF Provision, IndInv, TypeOK, Labels
<1>2. call[r].op = "contact" /\ call[r].value \in Emails /\ u \in Users
  BY <1>1 DEF Fits, Call
<1>3. /\ ~Exists(u) \/ HasTelegram(u)
      /\ HasTelegram(u) => MadeByAnother(r)
  BY <1>1, <1>2 DEF IndInv, BotAccounts, Contacting
<1>4. /\ before'[r] = users /\ before' = [before EXCEPT ![r] = users]
      /\ UNCHANGED <<claims, signing, call>>
  BY <1>1 DEF Provision
<1>5. CASE HasTelegram(u) \/ HeldByAnother(call[r].value, u)
  <2>1. \/ \E v \in Users \ {u} : before'[r][v].email = call[r].value
        \/ MadeByAnother(r)
    BY <1>3, <1>4, <1>5 DEF HeldByAnother
  <2>2. Goto(r, "conflict") /\ UNCHANGED users /\ call[r].op \notin AdminOps
    BY <1>2, <1>5 DEF Provision, AdminOps
  <2> QED
    BY <1>1, <1>2, <1>4, <2>1, <2>2, MoveKeeps DEF AtWork
<1>6. CASE ~HasTelegram(u) /\ ~HeldByAnother(call[r].value, u)
  <2>1. users' = [users EXCEPT ![u] = row] /\ Goto(r, "ok")
    BY <1>6 DEF Provision
  <2>2. row \in LiveRow /\ row.email = call[r].value /\ row.telegram
    BY <1>2, WorkerFacts
  <2>3. ~HeldByAnother(row.email, u)
    BY <1>6, <2>2
  <2>4. ActiveAdmin(users, u) => row.active /\ row.role = "ADMIN"
    BY <1>3, <1>6, RowFacts DEF ActiveAdmin, Exists
  <2>5. PICK label \in {"sweep", "ok"} : label = "ok" /\ Goto(r, label)
    BY <2>1
  <2>6. /\ Exists(u) \/ row.telegram
        /\ HasTelegram(u) => row.telegram
        /\ row.telegram /\ ~HasTelegram(u) =>
             label = "ok" /\ call[r].op = "contact" /\ call[r].actor = u
        /\ label = "sweep" => call[r].op \in AdminOps
    BY <1>2, <1>6, <2>2, <2>5
  <2> HIDE DEF row, u
  <2> QED
    BY <1>1, <1>2, <1>4, <2>1, <2>2, <2>3, <2>4, <2>5, <2>6, WriteKeeps
<1> QED
  BY <1>5, <1>6

LEMMA InitIndInv == Init => IndInv
<1> SUFFICES ASSUME Init
             PROVE  IndInv
  OBVIOUS
<1>1. PICK someone \in Users : users[someone].role = "ADMIN" /\ users[someone].active
  BY TableAssumption DEF Init
<1>2. (CHOOSE u \in Users : TRUE) \in Users
  BY <1>1
<1>3. TypeOK
  BY <1>2, TableAssumption DEF Init, TypeOK, Call, Ops
<1>4. Labels /\ Unwritten /\ BotAccounts /\ Conflicts
  BY DEF Init, Labels, Fits, Unwritten, BotAccounts, Contacting, Conflicts
<1>5. OwnAddresses
  BY TableAssumption DEF Init, OwnAddresses, Exists
<1>6. Backings
  BY DEF Init, Backings
<1>7. LastAdminFallsToAFallen
  BY <1>1 DEF LastAdminFallsToAFallen, ActiveAdmin
<1> QED
  BY <1>3, <1>4, <1>5, <1>6, <1>7 DEF IndInv

LEMMA NextIndInv == IndInv /\ [Next]_vars => IndInv'
<1> SUFFICES ASSUME IndInv, [Next]_vars
             PROVE  IndInv'
  OBVIOUS
<1>1. ASSUME NEW u \in Users, SignIns(u) \/ Register(u)
      PROVE  IndInv'
  BY <1>1, SignInsKeep, RegisterKeeps
<1>2. ASSUME NEW r \in Requests, Begin(r) \/ Contact(r) \/ Proceed(r) \/ Abort(r)
      PROVE  IndInv'
  BY <1>2, BeginKeeps, ContactKeeps, ReadsKeep, UpdateKeeps, SaveProfileKeeps,
     ProvisionKeeps DEF Proceed
<1>3. CASE UNCHANGED vars
  <2>1. TypeOK' /\ Labels' /\ Unwritten' /\ BotAccounts' /\ OwnAddresses' /\ Conflicts'
    BY <1>3 DEF vars, IndInv, TypeOK, Labels, Fits, Exists, Unwritten, BotAccounts, Contacting,
                HasTelegram, MadeByAnother, OwnAddresses, Conflicts, Explained
  <2>2. (\A v \in Users : Backed(v) => Backed(v)') /\ LastAdminFallsToAFallen'
    BY <1>3, AdminsStay DEF vars
  <2>3. call \in [Requests -> Call]
    BY DEF IndInv, TypeOK
  <2>4. \A r \in Requests : call[r].actor \in Users
    BY <2>3 DEF Call
  <2>5. Backings'
    BY <1>3, <2>2, <2>4 DEF vars, IndInv, Backings
  <2> QED
    BY <2>1, <2>2, <2>5 DEF IndInv
<1> QED
  BY <1>1, <1>2, <1>3 DEF Next

-----------------------------------------------------------------------------
(* The theorems. *)

\* The invariant holds in every behaviour, whatever requests overlap or fail.
THEOREM Invariance == Spec => []IndInv
BY InitIndInv, NextIndInv, PTL DEF Spec

\* Every variable keeps its type: in particular, no update by id is made to an
\* account that is not there.
THEOREM TypesHold == Spec => []TypeOK
<1>1. IndInv => TypeOK
  BY DEF IndInv
<1> QED
  BY <1>1, Invariance, PTL

\* If no active admin is left, one lost their powers to somebody who had lost their
\* own: two requests overlapped, or a token outlived a demotion.
THEOREM LastAdminsFallTogether == Spec => []LastAdminFallsToAFallen
<1>1. IndInv => LastAdminFallsToAFallen
  BY DEF IndInv
<1> QED
  BY <1>1, Invariance, PTL

\* Whoever is told of a conflict met somebody else's address, or their own account made
\* by an overlapping first contact; and no address has two owners.
THEOREM ConflictsHaveCauses == Spec => []ConflictsAreReal
<1>1. IndInv => ConflictsAreReal
  BY DEF IndInv, Conflicts, Explained, MadeByAnother, OwnAddresses, ConflictsAreReal
<1> QED
  BY <1>1, Invariance, PTL

\* A role that a user does not have is not read by any sign-in or refresh, and no token
\* comes to claim it but through one that had read it before: whatever overlaps, what is
\* left of a lost role only dwindles.  It is what DemotionReachesClaims needs besides
\* time going on.
THEOREM LostRolesFade ==
  Spec => [][\A u \in Users, role \in Roles : users[u].role # role =>
               /\ role \in signing'[u] => role \in signing[u]
               /\ role \in claims'[u] => role \in claims[u] \cup signing[u]]_vars
<1> DEFINE Fades == \A u \in Users, role \in Roles : users[u].role # role =>
             /\ role \in signing'[u] => role \in signing[u]
             /\ role \in claims'[u] => role \in claims[u] \cup signing[u]
<1>1. IndInv /\ [Next]_vars => Fades
  <2> SUFFICES ASSUME IndInv, [Next]_vars,
                      NEW u \in Users, NEW role \in Roles, users[u].role # role
               PROVE  /\ role \in signing'[u] => role \in signing[u]
                      /\ role \in claims'[u] => role \in claims[u] \cup signing[u]
    OBVIOUS
  <2>1. claims \in [Users -> SUBSET Roles] /\ signing \in [Users -> SUBSET Roles]
    BY DEF IndInv, TypeOK
  <2>2. ASSUME NEW v \in Users, SignIns(v)
        PROVE  /\ role \in signing'[u] => role \in signing[u]
               /\ role \in claims'[u] => role \in claims[u] \cup signing[u]
    BY <2>1, <2>2 DEF SignIns, ReadUser, Sign, GiveUp, Expire
  <2>3. CASE UNCHANGED <<claims, signing>>
    BY <2>3
  <2>4. ASSUME NEW v \in Users, Register(v)
        PROVE  UNCHANGED <<claims, signing>>
    BY <2>4 DEF Register
  <2>5. ASSUME NEW r \in Requests, Begin(r) \/ Contact(r) \/ Proceed(r) \/ Abort(r)
        PROVE  UNCHANGED <<claims, signing>>
    BY <2>5 DEF Begin, Contact, Proceed, Abort, Find, Update, Sweep, CheckEmail,
                SaveProfile, LookUp, Provision
  <2> QED
    BY <2>2, <2>3, <2>4, <2>5 DEF Next, vars
<1> HIDE DEF Fades
<1>2. Spec => [][Fades]_vars
  BY <1>1, Invariance, PTL DEF Spec
<1> QED
  BY <1>2 DEF Fades
=============================================================================
