---------------------------- MODULE SessionsProofs ----------------------------
(***************************************************************************)
(* Machine-checked proofs about Sessions, for any number of users and      *)
(* requests and any choice of operations, crashes included.                *)
(***************************************************************************)
EXTENDS Sessions, TLAPS

-----------------------------------------------------------------------------
(* The inductive invariant. *)

\* Which operation can be at which label; only a request that answered with
\* tokens has issued one.
Labels ==
  \A r \in Requests :
    /\ pc[r] \in {"email", "create"} => call[r].op = "register"
    /\ pc[r] = "user" => call[r].op \in {"login", "refresh"}
    /\ pc[r] \in {"lookup", "consume"} => call[r].op \in {"refresh", "logout"}
    /\ pc[r] = "issue" => call[r].op \in {"register", "login", "refresh"}
    /\ pc[r] \in {"set", "sweep"} => call[r].op \in {"logoutAll", "block", "unblock"}
    /\ Issued(r) => pc[r] = "ok" /\ call[r].op \in {"register", "login", "refresh"}

\* refresh and logout are about a token somebody else issued.
TakesToken(r) == pc[r] # "idle" /\ call[r].op \in {"refresh", "logout"}
TokenArguments ==
  \A r \in Requests : TakesToken(r) => /\ call[r].token \in Requests \ {r}
                                       /\ Issued(call[r].token)

\* A token descends from a sign-in that issued one.
Roots ==
  \A r \in Requests : /\ Issued(r) => Issued(root[r])
                      /\ ~Issued(r) => root[r] = r

\* A refresh that got past the delete: its token is gone and it alone has it.
Spent(r) == call[r].op = "refresh" /\ (pc[r] = "issue" \/ Issued(r))
SpentIsGone == \A r \in Requests : Spent(r) => row[call[r].token] = "gone"
SpentOnce ==
  \A p, q \in Requests : Spent(p) /\ Spent(q) /\ call[p].token = call[q].token => p = q

\* What a sign-in lives on: a live token, or a refresh about to issue the next.
Carries(r, s) ==
  \/ row[r] = "live" /\ root[r] = s
  \/ pc[r] = "issue" /\ call[r].op = "refresh" /\ root[call[r].token] = s
OneCarrier ==
  \A p, q, s \in Requests : Carries(p, s) /\ Carries(q, s) => p = q

\* What a blocked user has or may still get is known since the last sweep.
SweepsCover ==
  \A r \in Requests :
    account[call[r].user] = "blocked" /\ (row[r] = "live" \/ Passing(r))
      => r \in spared[call[r].user]

IndInv ==
  /\ TypeOK
  /\ Labels
  /\ TokenArguments
  /\ Roots
  /\ SpentIsGone
  /\ SpentOnce
  /\ OneCarrier
  /\ SweepsCover

-----------------------------------------------------------------------------
(* Every step keeps the invariant. *)

\* A request arrives.
LEMMA EnterKeeps ==
  ASSUME IndInv, NEW r \in Requests, NEW op \in AllOps, NEW u \in Users,
         NEW t \in Requests \cup {NoRequest},
         NEW label \in {"email", "user", "lookup", "sweep", "set", "refused"},
         Enter(r, op, u, t, label),
         label = "email" => op = "register",
         label = "user" => op = "login",
         label = "lookup" => op \in {"refresh", "logout"},
         label \in {"set", "sweep"} => op \in {"logoutAll", "block", "unblock"},
         op \in {"refresh", "logout"} => t \in Requests /\ Issued(t)
  PROVE  IndInv'
<1> USE DEF IndInv
<1>1. /\ pc[r] = "idle"
      /\ call' = [call EXCEPT ![r] = [op |-> op, user |-> u, token |-> t]]
      /\ pc' = [pc EXCEPT ![r] = label]
      /\ UNCHANGED <<account, row, expired, root, spared>>
  BY DEF Enter, Goto, history
<1>2. TypeOK'
  BY <1>1 DEF TypeOK, Call
<1>3. /\ pc'[r] = label /\ call'[r].op = op /\ call'[r].user = u /\ call'[r].token = t
      /\ \A q \in Requests \ {r} : pc'[q] = pc[q] /\ call'[q] = call[q]
      /\ ~Issued(r)
      /\ \A q \in Requests : Issued(q)' = Issued(q)
  BY <1>1 DEF TypeOK, Labels, Issued
<1>4. Labels'
  BY <1>3 DEF Labels
<1>5. TokenArguments'
  BY <1>3 DEF TokenArguments, TakesToken
<1>6. Roots'
  <2>1. \A q \in Requests : root'[q] = root[q] /\ root[q] \in Requests
    BY <1>1 DEF TypeOK
  <2> QED
    BY <1>3, <2>1 DEF Roots, Issued
<1>7. \A q \in Requests : Spent(q)' => q # r /\ Spent(q)
  BY <1>3 DEF Spent
<1>8. SpentIsGone' /\ SpentOnce'
  BY <1>1, <1>3, <1>7 DEF SpentIsGone, SpentOnce
<1>9. \A q, s \in Requests : Carries(q, s)' => Carries(q, s)
  BY <1>1, <1>3 DEF Carries, Issued
<1>10. OneCarrier'
  BY <1>9 DEF OneCarrier
<1>11. SweepsCover'
  BY <1>1, <1>3 DEF SweepsCover, Passing, Issued
<1> QED
  BY <1>2, <1>4, <1>5, <1>6, <1>8, <1>10, <1>11

LEMMA BeginKeeps ==
  ASSUME IndInv, NEW r \in Requests, Begin(r)
  PROVE  IndInv'
<1>1. CASE BeginRegister(r)
  BY <1>1, EnterKeeps DEF BeginRegister, AllOps
<1>2. CASE BeginLogin(r)
  BY <1>2, EnterKeeps DEF BeginLogin, AllOps
<1>3. CASE BeginRefresh(r)
  <2>1. PICK t \in Requests :
          /\ Issued(t)
          /\ Enter(r, "refresh", call[t].user, t, IF t \in expired THEN "refused" ELSE "lookup")
    BY <1>3 DEF BeginRefresh
  <2>2. PICK label \in {"refused", "lookup"} : Enter(r, "refresh", call[t].user, t, label)
    BY <2>1
  <2>3. call[t].user \in Users
    BY DEF IndInv, TypeOK, Call
  <2> QED
    BY <2>1, <2>2, <2>3, EnterKeeps DEF AllOps
<1>4. CASE BeginLogout(r)
  <2>1. PICK t \in Requests :
          Issued(t) /\ Enter(r, "logout", call[t].user, t, "lookup")
    BY <1>4 DEF BeginLogout
  <2>2. call[t].user \in Users
    BY DEF IndInv, TypeOK, Call
  <2> QED
    BY <2>1, <2>2, EnterKeeps DEF AllOps
<1>5. CASE BeginLogoutAll(r)
  <2>1. PICK u \in Users, label \in {"sweep", "refused"} :
          Enter(r, "logoutAll", u, NoRequest, label)
    BY <1>5 DEF BeginLogoutAll
  <2> QED
    BY <2>1, EnterKeeps DEF AllOps
<1>6. CASE BeginSetActive(r)
  <2>1. PICK u \in Users, op \in {"block", "unblock"}, label \in {"refused", "set"} :
          Enter(r, op, u, NoRequest, label)
    BY <1>6 DEF BeginSetActive
  <2> QED
    BY <2>1, EnterKeeps DEF AllOps
<1> QED
  BY <1>1, <1>2, <1>3, <1>4, <1>5, <1>6 DEF Begin

\* A request stops in flight, or goes on without touching anything else: no
\* token changes, and the request is not past a check it was not past before.
LEMMA MoveKeeps ==
  ASSUME IndInv, NEW r \in Requests,
         NEW label \in {"create", "user", "consume", "ok", "refused", "failed", "crashed"},
         InFlight(r), Goto(r, label),
         UNCHANGED <<account, row, expired, call, root, spared>>,
         label = "create" => call[r].op = "register",
         label = "user" => call[r].op \in {"login", "refresh"},
         label = "consume" => call[r].op = "logout"
  PROVE  IndInv'
<1> USE DEF IndInv
<1>1. TypeOK'
  BY DEF TypeOK, Goto
<1>2. /\ pc'[r] = label
      /\ pc[r] # "idle"
      /\ \A q \in Requests \ {r} : pc'[q] = pc[q]
      /\ ~Issued(r)
      /\ \A q \in Requests : Issued(q)' = Issued(q)
  BY DEF TypeOK, Goto, InFlight, Finished, Labels, Issued
<1>3. Labels'
  BY <1>2 DEF Labels
<1>4. TokenArguments'
  BY <1>2 DEF TokenArguments, TakesToken
<1>5. Roots'
  BY <1>2 DEF Roots, Issued
<1>6. SpentIsGone' /\ SpentOnce'
  <2>1. \A q \in Requests : Spent(q)' => Spent(q)
    BY <1>2 DEF Spent
  <2> QED
    BY <2>1 DEF SpentIsGone, SpentOnce
<1>7. OneCarrier'
  <2>1. \A q, s \in Requests : Carries(q, s)' => Carries(q, s)
    BY <1>2 DEF Carries
  <2> QED
    BY <2>1 DEF OneCarrier
<1>8. SweepsCover'
  BY <1>2 DEF SweepsCover, Passing
<1> QED
  BY <1>1, <1>3, <1>4, <1>5, <1>6, <1>7, <1>8

LEMMA CheckEmailKeeps ==
  ASSUME IndInv, NEW r \in Requests, CheckEmail(r)
  PROVE  IndInv'
<1>1. PICK label \in {"create", "refused"} : Goto(r, label)
  BY DEF CheckEmail
<1>2. call[r].op = "register" /\ InFlight(r)
  BY DEF CheckEmail, IndInv, Labels, InFlight, Finished
<1> QED
  BY <1>1, <1>2, MoveKeeps DEF CheckEmail, history

LEMMA FindTokenKeeps ==
  ASSUME IndInv, NEW r \in Requests, FindToken(r)
  PROVE  IndInv'
<1>1. call[r].op \in {"refresh", "logout"} /\ InFlight(r)
  BY DEF FindToken, IndInv, Labels, InFlight, Finished
<1>2. CASE call[r].op = "refresh"
  <2>1. PICK label \in {"user", "refused"} : Goto(r, label)
    BY <1>2 DEF FindToken
  <2> QED
    BY <1>1, <1>2, <2>1, MoveKeeps DEF FindToken, history
<1>3. CASE call[r].op = "logout"
  <2>1. PICK label \in {"consume", "ok"} : Goto(r, label)
    BY <1>3 DEF FindToken
  <2> QED
    BY <1>1, <1>3, <2>1, MoveKeeps DEF FindToken, history
<1> QED
  BY <1>1, <1>2, <1>3

LEMMA AbortKeeps ==
  ASSUME IndInv, NEW r \in Requests, Abort(r)
  PROVE  IndInv'
BY MoveKeeps DEF Abort, history

\* register's insert and the active check of login and refresh: the request now
\* vouches for its user, who is not blocked.
LEMMA VouchKeeps ==
  ASSUME IndInv, NEW r \in Requests, NEW label \in {"issue", "consume"},
         pc[r] \in {"create", "user"},
         Goto(r, label),
         account' = [account EXCEPT ![call[r].user] = "active"],
         UNCHANGED <<row, expired, call, root, spared>>,
         label = "issue" => call[r].op \in {"register", "login"},
         label = "consume" => call[r].op = "refresh"
  PROVE  IndInv'
<1> USE DEF IndInv
<1> DEFINE u == call[r].user
<1>1. u \in Users
  BY DEF TypeOK, Call
<1>2. TypeOK'
  BY <1>1 DEF TypeOK, Goto
<1>3. /\ pc'[r] = label
      /\ \A q \in Requests \ {r} : pc'[q] = pc[q]
      /\ account'[u] = "active"
      /\ \A v \in Users \ {u} : account'[v] = account[v]
      /\ ~Issued(r)
      /\ \A q \in Requests : Issued(q)' = Issued(q)
  BY <1>1 DEF TypeOK, Goto, Labels, Issued
<1>4. Labels'
  BY <1>3 DEF Labels
<1>5. TokenArguments'
  BY <1>3 DEF TokenArguments, TakesToken
<1>6. Roots'
  BY <1>3 DEF Roots, Issued
<1>7. SpentIsGone' /\ SpentOnce'
  <2>1. \A q \in Requests : Spent(q)' => Spent(q)
    BY <1>3 DEF Spent
  <2> QED
    BY <2>1 DEF SpentIsGone, SpentOnce
<1>8. OneCarrier'
  <2>1. \A q, s \in Requests : Carries(q, s)' => Carries(q, s)
    BY <1>3 DEF Carries
  <2> QED
    BY <2>1 DEF OneCarrier
<1>9. SweepsCover'
  <2>1. ASSUME NEW q \in Requests, account'[call[q].user] = "blocked"
        PROVE  /\ q # r /\ account[call[q].user] = "blocked"
               /\ Passing(q)' <=> Passing(q)
    <3>1. call[q].user \in Users /\ call[q].user # u
      BY <1>3, <2>1 DEF TypeOK, Call
    <3> QED
      BY <1>3, <2>1, <3>1 DEF Passing
  <2> QED
    BY <2>1 DEF SweepsCover
<1> QED
  BY <1>2, <1>4, <1>5, <1>6, <1>7, <1>8, <1>9

LEMMA CreateAccountKeeps ==
  ASSUME IndInv, NEW r \in Requests, CreateAccount(r)
  PROVE  IndInv'
<1>1. call[r].op = "register" /\ InFlight(r)
  BY DEF CreateAccount, IndInv, Labels, InFlight, Finished
<1>2. CASE account[call[r].user] = "none"
  BY <1>1, <1>2, VouchKeeps DEF CreateAccount, history
<1>3. CASE account[call[r].user] # "none"
  BY <1>1, <1>3, MoveKeeps DEF CreateAccount, history
<1> QED
  BY <1>2, <1>3

LEMMA CheckUserKeeps ==
  ASSUME IndInv, NEW r \in Requests, CheckUser(r)
  PROVE  IndInv'
<1>1. call[r].op \in {"login", "refresh"} /\ InFlight(r)
  BY DEF CheckUser, IndInv, Labels, InFlight, Finished
<1>2. CASE account[call[r].user] = "active"
  <2>1. PICK label \in {"issue", "consume"} :
          /\ Goto(r, label)
          /\ label = "issue" => call[r].op = "login"
          /\ label = "consume" => call[r].op = "refresh"
    BY <1>1, <1>2 DEF CheckUser
  <2>2. account' = [account EXCEPT ![call[r].user] = "active"]
    BY <1>2 DEF CheckUser, IndInv, TypeOK, Call
  <2> QED
    BY <1>2, <2>1, <2>2, VouchKeeps DEF CheckUser, history
<1>3. CASE account[call[r].user] # "active"
  BY <1>1, <1>3, MoveKeeps DEF CheckUser, history
<1> QED
  BY <1>2, <1>3

\* The delete of refresh and logout takes one token away and, for refresh, makes
\* the request the one that carries the sign-in on.
LEMMA ConsumeKeeps ==
  ASSUME IndInv, NEW r \in Requests, Consume(r)
  PROVE  IndInv'
<1> USE DEF IndInv
<1> DEFINE t == call[r].token
<1>1. call[r].op \in {"refresh", "logout"} /\ InFlight(r) /\ pc[r] = "consume"
  BY DEF Consume, Labels, InFlight, Finished
<1>2. CASE row[t] # "live"
  BY <1>1, <1>2, MoveKeeps DEF Consume, history
<1>3. CASE row[t] = "live"
  <2>1. t \in Requests \ {r} /\ ~Issued(r)
    BY <1>1 DEF TokenArguments, TakesToken, Labels
  <2>2. PICK label \in {"issue", "ok"} :
          /\ Goto(r, label)
          /\ label = "issue" <=> call[r].op = "refresh"
    BY <1>1, <1>3 DEF Consume, AfterConsume
  <2>3. /\ row' = [row EXCEPT ![t] = "gone"]
        /\ UNCHANGED <<account, expired, call, root, spared>>
    BY <1>3 DEF Consume, history
  <2>4. TypeOK'
    BY <2>2, <2>3 DEF TypeOK, Goto
  <2>5. /\ pc'[r] = label
        /\ \A q \in Requests \ {r} : pc'[q] = pc[q]
        /\ row'[t] = "gone"
        /\ \A q \in Requests \ {t} : row'[q] = row[q]
        /\ \A q \in Requests : Issued(q)' = Issued(q)
    BY <1>3, <2>1, <2>2, <2>3 DEF TypeOK, Goto, Issued
  <2>6. Labels'
    BY <1>1, <2>1, <2>2, <2>3, <2>5 DEF Labels
  <2>7. TokenArguments'
    BY <1>1, <2>3, <2>5 DEF TokenArguments, TakesToken
  <2>8. Roots'
    <3>1. \A q \in Requests : root[q] \in Requests
      BY DEF TypeOK
    <3> QED
      BY <2>3, <2>5, <3>1 DEF Roots
  <2>9. SpentIsGone'
    <3> SUFFICES ASSUME NEW q \in Requests, Spent(q)'
                 PROVE  row'[call[q].token] = "gone"
      BY <2>3 DEF SpentIsGone
    <3>1. CASE q = r
      BY <2>5, <3>1
    <3>2. CASE q # r
      <4>1. Spent(q) /\ call[q].token \in Requests
        BY <2>3, <2>5, <3>2 DEF Spent, TokenArguments, TakesToken, Labels
      <4> QED
        BY <2>5, <4>1 DEF SpentIsGone
    <3> QED
      BY <3>1, <3>2
  <2>10. SpentOnce'
    \* nobody else has spent t, which was live until now
    <3>1. \A q \in Requests \ {r} : Spent(q)' => Spent(q)
      BY <2>3, <2>5 DEF Spent
    <3>2. \A q \in Requests \ {r} : Spent(q) => call[q].token # t
      BY <1>3 DEF SpentIsGone
    <3> QED
      BY <2>3, <3>1, <3>2 DEF SpentOnce
  <2>11. OneCarrier'
    \* r carries what t carried
    <3>1. \A q, s \in Requests : q # r /\ Carries(q, s)' => q # t /\ Carries(q, s)
      BY <2>1, <2>3, <2>5, <1>1 DEF Carries, Labels, Issued
    <3>2. \A s \in Requests : Carries(r, s)' => Carries(t, s)
      BY <1>3, <2>1, <2>2, <2>3, <2>5 DEF Carries, Issued
    <3> QED
      BY <2>1, <3>1, <3>2 DEF OneCarrier
  <2>12. SweepsCover'
    <3>1. \A q \in Requests : Passing(q)' => Passing(q)
      BY <1>1, <2>2, <2>3, <2>5 DEF Passing
    <3>2. \A q \in Requests : row'[q] = "live" => row[q] = "live"
      BY <2>5
    <3> QED
      BY <2>3, <3>1, <3>2 DEF SweepsCover
  <2> QED
    BY <2>4, <2>6, <2>7, <2>8, <2>9, <2>10, <2>11, <2>12
<1> QED
  BY <1>2, <1>3

\* The insert of generateTokens hands the sign-in on to the new token.
LEMMA IssueKeeps ==
  ASSUME IndInv, NEW r \in Requests, Issue(r)
  PROVE  IndInv'
<1> USE DEF IndInv
<1>1. /\ pc[r] = "issue"
      /\ ~Issued(r)
      /\ call[r].op \in {"register", "login", "refresh"}
      /\ UNCHANGED <<account, expired, call, spared>>
  BY DEF Issue, Labels
<1>2. PICK s \in Requests :
        /\ root' = [root EXCEPT ![r] = s]
        /\ call[r].op = "refresh" => /\ call[r].token \in Requests \ {r}
                                     /\ Issued(call[r].token)
                                     /\ s = root[call[r].token]
        /\ call[r].op # "refresh" => s = r
  <2>1. CASE call[r].op = "refresh"
    <3>1. call[r].token \in Requests \ {r} /\ Issued(call[r].token)
      BY <1>1, <2>1 DEF TokenArguments, TakesToken
    <3>2. root[call[r].token] \in Requests
      BY <3>1 DEF TypeOK
    <3> QED
      BY <2>1, <3>1, <3>2 DEF Issue
  <2>2. CASE call[r].op # "refresh"
    BY <2>2 DEF Issue
  <2> QED
    BY <2>1, <2>2
<1>3. TypeOK'
  BY <1>1, <1>2 DEF TypeOK, Issue, Goto
<1>4. /\ pc'[r] = "ok" /\ row'[r] = "live" /\ root'[r] = s
      /\ \A q \in Requests \ {r} : pc'[q] = pc[q] /\ row'[q] = row[q] /\ root'[q] = root[q]
      /\ Issued(r)'
      /\ \A q \in Requests \ {r} : Issued(q)' = Issued(q)
  BY <1>1, <1>2 DEF TypeOK, Issue, Goto, Issued
<1>5. Labels'
  BY <1>1, <1>4 DEF Labels
<1>6. TokenArguments'
  <2>1. \A q \in Requests : TakesToken(q)' => TakesToken(q)
    BY <1>1, <1>4 DEF TakesToken
  <2> QED
    BY <1>1, <1>4, <2>1 DEF TokenArguments
<1>7. Issued(s)'
  <2>1. CASE call[r].op = "refresh"
    BY <1>1, <1>2, <1>4, <2>1 DEF Roots
  <2>2. CASE call[r].op # "refresh"
    BY <1>2, <1>4, <2>2
  <2> QED
    BY <2>1, <2>2
<1>8. Roots'
  <2>1. \A q \in Requests \ {r} : Issued(q) => root[q] # r /\ root[q] \in Requests
    BY <1>1 DEF Roots, TypeOK
  <2> QED
    BY <1>4, <1>7, <2>1 DEF Roots
<1>9. SpentIsGone' /\ SpentOnce'
  <2>1. \A q \in Requests : Spent(q)' <=> Spent(q)
    BY <1>1, <1>4 DEF Spent
  <2>2. \A q \in Requests : Spent(q) => call[q].token \in Requests \ {r}
    BY <1>1 DEF Spent, TokenArguments, TakesToken, Labels
  <2> QED
    BY <1>1, <1>4, <2>1, <2>2 DEF SpentIsGone, SpentOnce
<1>10. OneCarrier'
  <2>1. \A q, z \in Requests : q # r /\ Carries(q, z)' => Carries(q, z)
    <3>1. \A q \in Requests \ {r} :
            pc[q] = "issue" /\ call[q].op = "refresh"
              => call[q].token \in Requests \ {r}
      BY <1>1 DEF TokenArguments, TakesToken
    <3> QED
      BY <1>1, <1>4, <3>1 DEF Carries
  <2>2. \A z \in Requests : Carries(r, z)' => z = s
    BY <1>4 DEF Carries
  <2>3. \A q \in Requests \ {r} : ~Carries(q, s)
    <3>1. CASE call[r].op = "refresh"
      BY <1>1, <1>2, <3>1 DEF OneCarrier, Carries
    <3>2. CASE call[r].op # "refresh"
      \* a fresh sign-in, of which nothing can descend yet
      BY <1>1, <1>2, <3>2 DEF Carries, Roots, TokenArguments, TakesToken, Issued
    <3> QED
      BY <3>1, <3>2
  <2> QED
    BY <2>1, <2>2, <2>3 DEF OneCarrier
<1>11. SweepsCover'
  <2>1. \A q \in Requests : row'[q] = "live" \/ Passing(q)' => row[q] = "live" \/ Passing(q)
    BY <1>1, <1>4 DEF Passing
  <2> QED
    BY <1>1, <2>1 DEF SweepsCover
<1> QED
  BY <1>3, <1>5, <1>6, <1>8, <1>9, <1>10, <1>11

\* Writing is_active: after a block nothing is known until its sweep.
LEMMA SwitchKeeps ==
  ASSUME IndInv, NEW r \in Requests, NEW u \in Users, u = call[r].user,
         NEW label \in {"sweep", "ok"}, NEW now \in {"active", "blocked"},
         pc[r] = "set",
         Goto(r, label),
         account' = [account EXCEPT ![u] = now],
         spared' = spared \/ spared' = [spared EXCEPT ![u] = Requests],
         now = "blocked" => spared'[u] = Requests,
         UNCHANGED <<row, expired, call, root>>
  PROVE  IndInv'
<1> USE DEF IndInv
<1>1. call[r].op \in {"logoutAll", "block", "unblock"} /\ ~Issued(r)
  BY DEF Labels
<1>2. TypeOK'
  BY DEF TypeOK, Goto
<1>3. /\ pc'[r] = label
      /\ \A q \in Requests \ {r} : pc'[q] = pc[q]
      /\ \A q \in Requests : Issued(q)' = Issued(q)
  BY <1>1 DEF TypeOK, Goto, Issued
<1>4. Labels'
  BY <1>1, <1>3 DEF Labels
<1>5. TokenArguments'
  BY <1>1, <1>3 DEF TokenArguments, TakesToken
<1>6. Roots'
  BY <1>1, <1>3 DEF Roots, Issued
<1>7. SpentIsGone' /\ SpentOnce'
  <2>1. \A q \in Requests : Spent(q)' => Spent(q)
    BY <1>1, <1>3 DEF Spent
  <2> QED
    BY <1>1, <2>1 DEF SpentIsGone, SpentOnce
<1>8. OneCarrier'
  <2>1. \A q, s \in Requests : Carries(q, s)' => Carries(q, s)
    BY <1>1, <1>3 DEF Carries
  <2> QED
    BY <2>1 DEF OneCarrier
<1>9. SweepsCover'
  <2> SUFFICES ASSUME NEW q \in Requests, account'[call[q].user] = "blocked",
                      row[q] = "live" \/ Passing(q)'
               PROVE  q \in spared'[call[q].user]
    BY DEF SweepsCover
  <2>1. Passing(q)' => Passing(q)
    BY <1>1, <1>3 DEF Passing
  <2>2. call[q].user \in Users
    BY DEF TypeOK, Call
  <2>3. CASE call[q].user = u
    BY <2>3 DEF TypeOK
  <2>4. CASE call[q].user # u
    BY <2>1, <2>2, <2>4 DEF TypeOK, SweepsCover
  <2> QED
    BY <2>3, <2>4
<1> QED
  BY <1>2, <1>4, <1>5, <1>6, <1>7, <1>8, <1>9

LEMMA SetActiveKeeps ==
  ASSUME IndInv, NEW r \in Requests, SetActive(r)
  PROVE  IndInv'
<1>1. PICK u \in Users : u = call[r].user
  BY DEF IndInv, TypeOK, Call
<1>2. spared \in [Users -> SUBSET Requests] /\ pc[r] = "set"
  BY DEF SetActive, IndInv, TypeOK
<1>3. CASE call[r].op = "block"
  BY <1>1, <1>2, <1>3, SwitchKeeps DEF SetActive
<1>4. CASE call[r].op # "block"
  BY <1>1, <1>2, <1>4, SwitchKeeps DEF SetActive
<1> QED
  BY <1>3, <1>4

\* A sweep only ends tokens.
LEMMA SweepKeeps ==
  ASSUME IndInv, NEW r \in Requests, Sweep(r)
  PROVE  IndInv'
<1> USE DEF IndInv
<1>1. /\ pc[r] = "sweep"
      /\ call[r].op \in {"logoutAll", "block", "unblock"}
      /\ ~Issued(r)
      /\ UNCHANGED <<account, expired, call, root>>
  BY DEF Sweep, Labels
<1>2. TypeOK'
  <2>1. spared' \in [Users -> SUBSET Requests]
    BY DEF TypeOK, Sweep
  <2> QED
    BY <1>1, <2>1 DEF TypeOK, Sweep, Goto
<1>3. /\ pc'[r] = "ok"
      /\ \A q \in Requests \ {r} : pc'[q] = pc[q]
      /\ \A q \in Requests : row'[q] = row[q] \/ (row[q] = "live" /\ row'[q] = "gone")
  BY DEF TypeOK, Sweep, Swept, Goto
<1>4. \A q \in Requests : Issued(q)' = Issued(q)
  BY <1>3 DEF Issued
<1>5. Labels'
  BY <1>1, <1>3, <1>4 DEF Labels
<1>6. TokenArguments'
  BY <1>1, <1>3, <1>4 DEF TokenArguments, TakesToken
<1>7. Roots'
  <2>1. \A q \in Requests : root[q] \in Requests
    BY DEF TypeOK
  <2> QED
    BY <1>1, <1>4, <2>1 DEF Roots
<1>8. SpentIsGone' /\ SpentOnce'
  <2>1. \A q \in Requests : Spent(q)' => Spent(q)
    BY <1>1, <1>3, <1>4 DEF Spent
  <2>2. \A q \in Requests : Spent(q) => call[q].token \in Requests
    BY DEF Spent, TokenArguments, TakesToken, Labels
  <2> QED
    BY <1>1, <1>3, <2>1, <2>2 DEF SpentIsGone, SpentOnce
<1>9. OneCarrier'
  <2>1. \A q, s \in Requests : Carries(q, s)' => Carries(q, s)
    BY <1>1, <1>3 DEF Carries
  <2> QED
    BY <2>1 DEF OneCarrier
<1>10. SweepsCover'
  <2> SUFFICES ASSUME NEW q \in Requests, account[call[q].user] = "blocked",
                      row'[q] = "live" \/ Passing(q)'
               PROVE  q \in spared'[call[q].user]
    BY <1>1 DEF SweepsCover
  <2>1. row[q] = "live" \/ Passing(q)
    BY <1>1, <1>3 DEF Passing
  <2>2. q \in spared[call[q].user] /\ call[q].user \in Users /\ call[r].user \in Users
    BY <2>1 DEF SweepsCover, TypeOK, Call
  <2>3. CASE call[r].op = "block" /\ call[q].user = call[r].user
    <3>1. row'[q] # "live"
      BY <2>3 DEF Sweep, Swept
    <3>2. Passing(q)
      BY <1>1, <1>3, <3>1 DEF Passing
    <3>3. spared'[call[r].user] = {p \in Requests : Passing(p) /\ call[p].user = call[r].user}
      BY <2>2, <2>3 DEF Sweep, TypeOK
    <3> QED
      BY <2>3, <3>2, <3>3
  <2>4. CASE call[r].op # "block" \/ call[q].user # call[r].user
    BY <2>2, <2>4 DEF Sweep, TypeOK
  <2> QED
    BY <2>3, <2>4
<1> QED
  BY <1>2, <1>5, <1>6, <1>7, <1>8, <1>9, <1>10

LEMMA ExpireKeeps ==
  ASSUME IndInv, NEW t \in Requests, Expire(t)
  PROVE  IndInv'
<1> USE DEF IndInv
<1>1. UNCHANGED <<account, row, pc, call, root, spared>>
  BY DEF Expire, history
<1>2. TypeOK'
  BY DEF TypeOK, Expire, history
<1>3. Labels' /\ TokenArguments' /\ Roots'
  BY <1>1 DEF Labels, TokenArguments, TakesToken, Roots, Issued
<1>4. SpentIsGone' /\ SpentOnce' /\ OneCarrier' /\ SweepsCover'
  BY <1>1 DEF SpentIsGone, SpentOnce, Spent, OneCarrier, Carries, SweepsCover, Passing, Issued
<1> QED
  BY <1>2, <1>3, <1>4

LEMMA InitIndInv == Init => IndInv
<1> SUFFICES ASSUME Init PROVE IndInv
  OBVIOUS
<1>1. PICK u \in Users :
        call = [r \in Requests |-> [op |-> "login", user |-> u, token |-> NoRequest]]
  <2>1. (CHOOSE u \in Users : TRUE) \in Users
    BY OpsAssumption
  <2> QED
    BY <2>1 DEF Init
<1>2. TypeOK
  <2>1. [op |-> "login", user |-> u, token |-> NoRequest] \in Call
    BY DEF Call, AllOps
  <2>2. call \in [Requests -> Call]
    BY <1>1, <2>1
  <2> QED
    BY <2>2 DEF Init, TypeOK
<1>3. \A r \in Requests : pc[r] = "idle" /\ ~Issued(r) /\ root[r] = r /\ row[r] = "none"
  BY DEF Init, Issued
<1>4. Labels /\ TokenArguments /\ Roots
  BY <1>3 DEF Labels, TokenArguments, TakesToken, Roots
<1>5. SpentIsGone /\ SpentOnce /\ OneCarrier /\ SweepsCover
  BY <1>3 DEF SpentIsGone, SpentOnce, Spent, OneCarrier, Carries, SweepsCover, Passing
<1> QED
  BY <1>2, <1>4, <1>5 DEF IndInv

LEMMA NextIndInv == IndInv /\ [Next]_vars => IndInv'
<1> SUFFICES ASSUME IndInv, [Next]_vars PROVE IndInv'
  OBVIOUS
<1>1. ASSUME NEW r \in Requests, Begin(r) PROVE IndInv'
  BY <1>1, BeginKeeps
<1>2. ASSUME NEW r \in Requests, Proceed(r) PROVE IndInv'
  BY <1>2, CheckEmailKeeps, CreateAccountKeeps, FindTokenKeeps, CheckUserKeeps,
     ConsumeKeeps, IssueKeeps, SetActiveKeeps, SweepKeeps DEF Proceed
<1>3. ASSUME NEW r \in Requests, Expire(r) PROVE IndInv'
  BY <1>3, ExpireKeeps
<1>4. ASSUME NEW r \in Requests, Abort(r) PROVE IndInv'
  BY <1>4, AbortKeeps
<1>5. CASE UNCHANGED vars
  <2>1. TypeOK' /\ Labels' /\ TokenArguments' /\ Roots'
    BY <1>5 DEF vars, IndInv, TypeOK, Labels, TokenArguments, TakesToken, Roots, Issued
  <2>2. SpentIsGone' /\ SpentOnce' /\ OneCarrier' /\ SweepsCover'
    BY <1>5 DEF vars, IndInv, SpentIsGone, SpentOnce, Spent, OneCarrier, Carries,
                SweepsCover, Passing, Issued
  <2> QED
    BY <2>1, <2>2 DEF IndInv
<1> QED
  BY <1>1, <1>2, <1>3, <1>4, <1>5 DEF Next, AllAnswered

-----------------------------------------------------------------------------
(* The theorems. *)

\* The invariant holds in every behaviour of the service, crashes included.
THEOREM Invariance == Spec => []IndInv
BY InitIndInv, NextIndInv, PTL DEF Spec

\* Every variable keeps its type.
THEOREM TypesHold == Spec => []TypeOK
<1>1. IndInv => TypeOK
  BY DEF IndInv
<1> QED
  BY <1>1, Invariance, PTL

\* However many refreshes of one token race, at most one of them issues a pair.
THEOREM TokensAreSingleUse == Spec => []SingleUse
<1>1. IndInv => SingleUse
  BY DEF IndInv, SpentOnce, Spent, SingleUse
<1> QED
  BY <1>1, Invariance, PTL

\* No interleaving of refresh, logout and crashes turns one sign-in into two
\* usable tokens.
THEOREM OneSessionPerSignIn == Spec => []OneTokenPerSignIn
<1>1. IndInv => OneTokenPerSignIn
  <2> SUFFICES ASSUME IndInv, NEW p \in Requests, NEW q \in Requests,
                      row[p] = "live", row[q] = "live", root[p] = root[q]
               PROVE  p = q
    BY DEF OneTokenPerSignIn
  <2>1. root[p] \in Requests
    BY DEF IndInv, TypeOK
  <2> QED
    BY <2>1 DEF IndInv, OneCarrier, Carries
<1> QED
  BY <1>1, Invariance, PTL

\* What a blocked user still has comes from requests that the sweep came too early for.
THEOREM BlocksSpareOnlyOverlapping == Spec => []BlockSparesOnlyOverlapping
<1>1. IndInv => BlockSparesOnlyOverlapping
  BY DEF IndInv, SweepsCover, BlockSparesOnlyOverlapping
<1> QED
  BY <1>1, Invariance, PTL

-----------------------------------------------------------------------------
(* What becomes of a sign-in. *)

\* Some refresh got a successor out of the token.
Rotated(t) == \E q \in Requests : call[q].op = "refresh" /\ call[q].token = t /\ Issued(q)

\* logout leaves no row of the token it was given.
LogoutsDone ==
  \A r \in Requests : call[r].op = "logout" /\ pc[r] = "ok" => row[call[r].token] = "gone"

\* Once a token is gone, its sign-in lives on only in a refresh of that token, until
\* one has issued the next.
OnlySuccessors ==
  \A t \in Requests : row[t] = "gone" /\ ~Rotated(t) =>
    \A p \in Requests :
      Carries(p, root[t]) => pc[p] = "issue" /\ call[p].op = "refresh" /\ call[p].token = t

\* A token is used by, and descends from, requests of its user.
Owners ==
  \A r \in Requests :
    /\ TakesToken(r) => call[r].user = call[call[r].token].user
    /\ Issued(r) => call[root[r]].user = call[r].user

\* Only logoutAll and a block end all sessions of a user.
SweepsAsked == \A r \in Requests : pc[r] = "sweep" => call[r].op \in {"logoutAll", "block"}

\* A sign-in nobody ended is carried on.
Survivors ==
  NothingCrashed =>
    \A s \in Requests :
      Issued(s) /\ root[s] = s /\ Undisturbed(call[s].user)
        => \E t \in Requests : Carries(t, s)

Descent ==
  /\ LogoutsDone
  /\ OnlySuccessors
  /\ Owners
  /\ SweepsAsked
  /\ Survivors

\* A request arrives.
LEMMA EnterDescends ==
  ASSUME IndInv, Descent, NEW r \in Requests, NEW op \in AllOps, NEW u \in Users,
         NEW t \in Requests \cup {NoRequest},
         NEW label \in {"email", "user", "lookup", "sweep", "set", "refused"},
         Enter(r, op, u, t, label),
         label = "sweep" => op = "logoutAll",
         op \in {"refresh", "logout"} => t \in Requests /\ Issued(t) /\ u = call[t].user
  PROVE  Descent'
<1> USE DEF IndInv, Descent
<1>1. /\ pc[r] = "idle" /\ ~Issued(r)
      /\ call' = [call EXCEPT ![r] = [op |-> op, user |-> u, token |-> t]]
      /\ pc' = [pc EXCEPT ![r] = label]
      /\ UNCHANGED <<row, root>>
  BY DEF Enter, Goto, history, Labels
<1>2. /\ pc'[r] = label /\ call'[r].op = op /\ call'[r].user = u /\ call'[r].token = t
      /\ \A q \in Requests \ {r} : pc'[q] = pc[q] /\ call'[q] = call[q]
      /\ \A q \in Requests : Issued(q)' = Issued(q)
  BY <1>1 DEF TypeOK, Issued
<1>3. \A q, s \in Requests : Carries(q, s)' <=> Carries(q, s)
  BY <1>1, <1>2 DEF Carries, Issued
<1>4. LogoutsDone' /\ SweepsAsked'
  BY <1>1, <1>2 DEF LogoutsDone, SweepsAsked
<1>5. OnlySuccessors'
  <2>1. \A x \in Requests : Rotated(x) => Rotated(x)'
    BY <1>1, <1>2 DEF Rotated
  <2>2. \A p \in Requests : pc[p] = "issue" => p # r
    BY <1>1
  <2>3. \A x \in Requests : root'[x] = root[x] /\ root[x] \in Requests /\ row'[x] = row[x]
    BY <1>1 DEF TypeOK
  <2> QED
    BY <1>2, <1>3, <2>1, <2>2, <2>3 DEF OnlySuccessors
<1>6. Owners'
  <2>1. \A q \in Requests \ {r} : TakesToken(q)' => TakesToken(q) /\ call[q].token \in Requests \ {r}
    BY <1>1, <1>2 DEF TakesToken, TokenArguments
  <2>2. \A q \in Requests : Issued(q) => q # r /\ root[q] \in Requests \ {r}
    BY <1>1 DEF Roots, TypeOK
  <2>3. TakesToken(r)' => t \in Requests \ {r} /\ u = call[t].user
    BY <1>1, <1>2 DEF TakesToken
  <2> QED
    BY <1>1, <1>2, <2>1, <2>2, <2>3 DEF Owners
<1>7. Survivors'
  <2> SUFFICES ASSUME NothingCrashed', NEW s \in Requests, Issued(s)', root'[s] = s,
                      Undisturbed(call[s].user)'
               PROVE  \E c \in Requests : Carries(c, s)'
    BY <1>1, <1>2 DEF Survivors
  <2>1. s # r /\ Issued(s) /\ root[s] = s /\ call'[s] = call[s]
    BY <1>1, <1>2
  <2>2. NothingCrashed
    BY <1>1, <1>2 DEF NothingCrashed
  <2>3. Undisturbed(call[s].user)
    BY <1>1, <1>2, <2>1 DEF Undisturbed
  <2> QED
    BY <1>3, <2>1, <2>2, <2>3 DEF Survivors
<1> QED
  BY <1>4, <1>5, <1>6, <1>7

LEMMA BeginDescends ==
  ASSUME IndInv, Descent, NEW r \in Requests, Begin(r)
  PROVE  Descent'
<1>1. CASE BeginRegister(r)
  BY <1>1, EnterDescends DEF BeginRegister, AllOps
<1>2. CASE BeginLogin(r)
  BY <1>2, EnterDescends DEF BeginLogin, AllOps
<1>3. CASE BeginRefresh(r) \/ BeginLogout(r)
  <2>1. PICK t \in Requests, op \in {"refresh", "logout"}, label \in {"refused", "lookup"} :
          Issued(t) /\ Enter(r, op, call[t].user, t, label)
    BY <1>3 DEF BeginRefresh, BeginLogout
  <2>2. call[t].user \in Users
    BY DEF IndInv, TypeOK, Call
  <2> QED
    BY <2>1, <2>2, EnterDescends DEF AllOps
<1>4. CASE BeginLogoutAll(r)
  <2>1. PICK u \in Users, label \in {"sweep", "refused"} :
          Enter(r, "logoutAll", u, NoRequest, label)
    BY <1>4 DEF BeginLogoutAll
  <2> QED
    BY <2>1, EnterDescends DEF AllOps
<1>5. CASE BeginSetActive(r)
  <2>1. PICK u \in Users, op \in {"block", "unblock"}, label \in {"refused", "set"} :
          Enter(r, op, u, NoRequest, label)
    BY <1>5 DEF BeginSetActive
  <2> QED
    BY <2>1, EnterDescends DEF AllOps
<1> QED
  BY <1>1, <1>2, <1>3, <1>4, <1>5 DEF Begin

\* A step that changes no token and hands no sign-in on, but may lose one in a crash.
LEMMA QuietDescends ==
  ASSUME IndInv, Descent, NEW r \in Requests,
         UNCHANGED <<row, call, root>>,
         InFlight(r), pc'[r] # "idle",
         \A q \in Requests \ {r} : pc'[q] = pc[q],
         pc[r] = "issue" => pc'[r] = "crashed",
         pc'[r] = "issue" => call[r].op # "refresh",
         pc'[r] = "ok" /\ call[r].op = "logout" => row[call[r].token] = "gone",
         pc'[r] = "sweep" => call[r].op \in {"logoutAll", "block"}
  PROVE  Descent'
<1> USE DEF IndInv, Descent
<1>1. pc[r] # "idle" /\ pc[r] # "crashed"
  BY DEF InFlight, Finished
<1>2. \A q \in Requests : Issued(q)' = Issued(q) /\ TakesToken(q)' = TakesToken(q)
  BY <1>1 DEF Issued, TakesToken
<1>3. \A q, s \in Requests : /\ Carries(q, s)' => Carries(q, s)
                             /\ Carries(q, s) /\ pc'[r] # "crashed" => Carries(q, s)'
  BY DEF Carries
<1>4. LogoutsDone' /\ SweepsAsked'
  BY DEF LogoutsDone, SweepsAsked
<1>5. OnlySuccessors'
  <2> SUFFICES ASSUME NEW t \in Requests, row[t] = "gone", ~Rotated(t)',
                      NEW p \in Requests, Carries(p, root[t])'
               PROVE  pc'[p] = "issue" /\ call[p].op = "refresh" /\ call[p].token = t
    BY DEF OnlySuccessors
  <2>1. ~Rotated(t) /\ root[t] \in Requests
    BY <1>2 DEF Rotated, TypeOK
  <2>2. pc[p] = "issue" /\ call[p].op = "refresh" /\ call[p].token = t
    BY <1>3, <2>1 DEF OnlySuccessors
  <2>3. ~Issued(p)
    BY <2>2 DEF Labels
  <2> QED
    BY <2>2, <2>3 DEF Carries, Issued
<1>6. Owners'
  BY <1>2 DEF Owners
<1>7. Survivors'
  <2>1. NothingCrashed' => NothingCrashed /\ pc'[r] # "crashed"
    BY <1>1 DEF NothingCrashed
  <2>2. \A u \in Users : Undisturbed(u)' => Undisturbed(u)
    BY <1>1 DEF Undisturbed
  <2>3. \A s \in Requests : call[s].user \in Users
    BY DEF TypeOK, Call
  <2> QED
    BY <1>2, <1>3, <2>1, <2>2, <2>3 DEF Survivors
<1> QED
  BY <1>4, <1>5, <1>6, <1>7

\* The delete of refresh hands the sign-in on, that of logout ends it.
LEMMA ConsumeDescends ==
  ASSUME IndInv, Descent, NEW r \in Requests, Consume(r)
  PROVE  Descent'
<1> USE DEF IndInv, Descent
<1> DEFINE t == call[r].token
<1>1. /\ call[r].op \in {"refresh", "logout"} /\ InFlight(r) /\ pc[r] = "consume"
      /\ ~Issued(r)
  BY DEF Consume, Labels, InFlight, Finished
<1>2. CASE row[t] # "live"
  BY <1>1, <1>2, QuietDescends DEF Consume, history, Goto, TypeOK
<1>3. CASE row[t] = "live"
  <2>1. t \in Requests \ {r} /\ Issued(t) /\ pc[t] = "ok" /\ root[t] \in Requests
    BY <1>1 DEF TokenArguments, TakesToken, Labels, TypeOK
  <2>z. PICK z \in Requests : z = root[t]
    BY <2>1
  <2>2. /\ UNCHANGED <<call, root>>
        /\ \A q \in Requests \ {r} : pc'[q] = pc[q]
        /\ pc'[r] = IF call[r].op = "refresh" THEN "issue" ELSE "ok"
        /\ row'[t] = "gone"
        /\ \A q \in Requests \ {t} : row'[q] = row[q]
    BY <1>3, <2>1 DEF Consume, Goto, AfterConsume, history, TypeOK
  <2>3. \A q \in Requests : Issued(q)' = Issued(q) /\ TakesToken(q)' = TakesToken(q)
    BY <1>1, <2>1, <2>2 DEF Issued, TakesToken
  <2>4. \A q, s \in Requests : q # r /\ Carries(q, s)' => q # t /\ Carries(q, s)
    BY <2>1, <2>2 DEF Carries
  <2>5. \A s \in Requests :
          /\ Carries(r, s)' => call[r].op = "refresh" /\ pc'[r] = "issue" /\ s = z
          /\ Carries(t, s) => s = z
          /\ ~Carries(r, s)
    BY <1>1, <2>1, <2>z, <2>2, <2>3 DEF Carries, Issued
  <2>6. \A q, s \in Requests : q \notin {r, t} /\ Carries(q, s) => Carries(q, s)'
    BY <2>2 DEF Carries
  <2>7. Carries(t, z) /\ (call[r].op = "refresh" => Carries(r, z)')
    BY <1>3, <2>z, <2>2 DEF Carries
  <2>8. LogoutsDone'
    <3>1. \A q \in Requests : call[q].op = "logout" /\ pc[q] = "ok"
                              => call[q].token \in Requests
      BY DEF TokenArguments, TakesToken
    <3> QED
      BY <1>1, <2>2, <3>1 DEF LogoutsDone
  <2>9. OnlySuccessors'
    <3> SUFFICES ASSUME NEW x \in Requests, row'[x] = "gone", ~Rotated(x)',
                        NEW p \in Requests, NEW y \in Requests, y = root[x],
                        Carries(p, y)'
                 PROVE  pc'[p] = "issue" /\ call[p].op = "refresh" /\ call[p].token = x
      <4>1. \A x \in Requests : root'[x] = root[x] /\ root[x] \in Requests
        BY <2>2 DEF TypeOK
      <4> QED
        BY <2>2, <4>1 DEF OnlySuccessors
    <3>1. ~Rotated(x)
      BY <2>2, <2>3 DEF Rotated
    <3>2. CASE x = t
      BY <2>1, <2>z, <2>2, <2>4, <2>5, <2>7, <3>2 DEF OneCarrier
    <3>3. CASE x # t /\ p # r
      BY <2>2, <2>4, <3>1, <3>3 DEF OnlySuccessors
    <3>4. CASE x # t /\ p = r
      <4>1. Carries(t, y) /\ row[x] = "gone"
        BY <2>2, <2>5, <2>7, <3>1, <3>4
      <4> QED
        BY <2>1, <3>1, <4>1 DEF OnlySuccessors
    <3> QED
      BY <3>2, <3>3, <3>4
  <2>10. Owners'
    BY <2>2, <2>3 DEF Owners
  <2>11. SweepsAsked'
    BY <2>2 DEF SweepsAsked
  <2>12. Survivors'
    <3> SUFFICES ASSUME NothingCrashed', NEW s \in Requests, Issued(s), root[s] = s,
                        Undisturbed(call[s].user)'
                 PROVE  \E c \in Requests : Carries(c, s)'
      BY <2>2, <2>3 DEF Survivors
    <3>1. NothingCrashed
      BY <1>1, <2>2 DEF NothingCrashed
    <3>2. pc'[r] # "idle"
      BY <2>2
    <3>3. Undisturbed(call[s].user)
      BY <2>2, <3>2 DEF Undisturbed
    <3>4. PICK c \in Requests : Carries(c, s)
      BY <3>1, <3>3 DEF Survivors
    <3>5. CASE c # t
      BY <2>5, <2>6, <3>4, <3>5
    <3>6. CASE c = t
      <4>1. s = z
        BY <2>5, <3>4, <3>6
      <4>2. call[r].user = call[s].user
        BY <1>1, <2>1, <2>z, <4>1 DEF Owners, TakesToken
      <4>3. call[r].op = "refresh"
        BY <1>1, <2>2, <3>2, <4>2 DEF Undisturbed
      <4> QED
        BY <2>7, <4>1, <4>3
    <3> QED
      BY <3>5, <3>6
  <2> QED
    BY <2>8, <2>9, <2>10, <2>11, <2>12
<1> QED
  BY <1>2, <1>3

\* The insert carries the sign-in on, or begins one.
LEMMA IssueDescends ==
  ASSUME IndInv, Descent, NEW r \in Requests, Issue(r)
  PROVE  Descent'
<1> USE DEF IndInv, Descent
<1> DEFINE t == call[r].token
<1>1. /\ pc[r] = "issue" /\ ~Issued(r) /\ call[r].op \in {"register", "login", "refresh"}
      /\ call' = call
  BY DEF Issue, Labels
<1>2. call[r].op = "refresh" => TakesToken(r) /\ t \in Requests \ {r} /\ Issued(t)
  BY <1>1 DEF TokenArguments, TakesToken
<1>3. PICK s \in Requests : s = IF call[r].op = "refresh" THEN root[t] ELSE r
  BY <1>2 DEF TypeOK
<1>4. /\ pc'[r] = "ok" /\ row'[r] = "live" /\ root'[r] = s
      /\ \A q \in Requests \ {r} : pc'[q] = pc[q] /\ row'[q] = row[q] /\ root'[q] = root[q]
  BY <1>3 DEF Issue, Goto, TypeOK
<1>5. Issued(r)' /\ \A q \in Requests \ {r} : Issued(q)' = Issued(q)
  BY <1>4 DEF Issued
<1>6. \A q \in Requests : TakesToken(q)' = TakesToken(q)
  BY <1>1, <1>4 DEF TakesToken
<1>7. \A q \in Requests : TakesToken(q) => call[q].token \in Requests \ {r}
  BY <1>1 DEF TokenArguments
<1>8. \A q, z \in Requests : q # r => (Carries(q, z)' <=> Carries(q, z))
  <2>1. \A q \in Requests \ {r} :
          pc[q] = "issue" /\ call[q].op = "refresh" => root'[call[q].token] = root[call[q].token]
    BY <1>4, <1>7 DEF TakesToken
  <2> QED
    BY <1>1, <1>4, <2>1 DEF Carries
<1>9. \A z \in Requests : /\ Carries(r, z)' <=> z = s
                          /\ Carries(r, z) => call[r].op = "refresh" /\ z = s
  BY <1>1, <1>3, <1>4 DEF Carries, Issued
<1>10. LogoutsDone' /\ SweepsAsked'
  <2>1. \A q \in Requests : call[q].op = "logout" /\ pc'[q] = "ok"
                              => q # r /\ call[q].token \in Requests \ {r}
    BY <1>1, <1>4, <1>7 DEF TakesToken
  <2> QED
    BY <1>1, <1>4, <2>1 DEF LogoutsDone, SweepsAsked
<1>11. OnlySuccessors'
  <2> SUFFICES ASSUME NEW x \in Requests, row'[x] = "gone", ~Rotated(x)',
                      NEW p \in Requests, NEW y \in Requests, y = root[x],
                        Carries(p, y)'
               PROVE  pc'[p] = "issue" /\ call[p].op = "refresh" /\ call[p].token = x
    <3>1. \A x \in Requests : row'[x] = "gone" => root'[x] = root[x] /\ root[x] \in Requests
      BY <1>4 DEF TypeOK
    <3> QED
      BY <1>1, <3>1 DEF OnlySuccessors
  <2>1. x # r /\ row[x] = "gone" /\ Issued(x)
    BY <1>4 DEF Issued
  <2>2. ~Rotated(x) /\ ~(call[r].op = "refresh" /\ t = x)
    BY <1>1, <1>5 DEF Rotated
  <2>3. CASE p # r
    BY <1>4, <1>8, <2>1, <2>2, <2>3 DEF OnlySuccessors
  <2>4. CASE p = r
    <3>1. y = s
      BY <1>9, <2>1, <2>4
    <3>2. CASE call[r].op = "refresh"
      <4>1. Carries(r, y)
        BY <1>1, <1>3, <3>1, <3>2 DEF Carries
      <4> QED
        BY <2>1, <2>2, <3>2, <4>1 DEF OnlySuccessors
    <3>3. CASE call[r].op # "refresh"
      BY <1>1, <1>3, <2>1, <3>1, <3>3 DEF Roots
    <3> QED
      BY <3>2, <3>3
  <2> QED
    BY <2>3, <2>4
<1>12. Owners'
  <2>1. call[s].user = call[r].user
    BY <1>2, <1>3 DEF Owners
  <2> QED
    BY <1>1, <1>4, <1>5, <1>6, <2>1 DEF Owners
<1>13. Survivors'
  <2> SUFFICES ASSUME NothingCrashed', NEW z \in Requests, Issued(z)', root'[z] = z,
                      Undisturbed(call[z].user)'
               PROVE  \E c \in Requests : Carries(c, z)'
    BY <1>1 DEF Survivors
  <2>1. CASE z = r
    BY <1>4, <1>9, <2>1
  <2>2. CASE z # r
    <3>1. Issued(z) /\ root[z] = z
      BY <1>4, <1>5, <2>2
    <3>2. NothingCrashed
      BY <1>1, <1>4 DEF NothingCrashed
    <3>3. Undisturbed(call[z].user)
      BY <1>1, <1>4 DEF Undisturbed
    <3>4. PICK c \in Requests : Carries(c, z)
      BY <3>1, <3>2, <3>3 DEF Survivors
    <3> QED
      BY <1>8, <1>9, <3>4
  <2> QED
    BY <2>1, <2>2
<1> QED
  BY <1>10, <1>11, <1>12, <1>13

\* A sweep ends the sign-ins of one user, who is not undisturbed then.
LEMMA SweepDescends ==
  ASSUME IndInv, Descent, NEW r \in Requests, Sweep(r)
  PROVE  Descent'
<1> USE DEF IndInv, Descent
<1>1. /\ pc[r] = "sweep" /\ ~Issued(r) /\ call[r].op \in {"logoutAll", "block"}
      /\ UNCHANGED <<call, root>>
  BY DEF Sweep, Swept, Labels, SweepsAsked, history
<1>2. /\ pc'[r] = "ok"
      /\ \A q \in Requests \ {r} : pc'[q] = pc[q]
      /\ \A q \in Requests :
           \/ row'[q] = row[q]
           \/ row[q] = "live" /\ row'[q] = "gone" /\ call[q].user = call[r].user
  BY DEF TypeOK, Sweep, Swept, Goto
<1>3. \A q \in Requests : Issued(q)' = Issued(q) /\ TakesToken(q)' = TakesToken(q)
  BY <1>1, <1>2 DEF Issued, TakesToken
<1>4. \A q, s \in Requests : Carries(q, s)' => Carries(q, s)
  BY <1>1, <1>2 DEF Carries
<1>5. LogoutsDone'
  <2>1. \A q \in Requests : call[q].op = "logout" /\ pc'[q] = "ok"
                              => pc[q] = "ok" /\ call[q].token \in Requests
    BY <1>1, <1>2 DEF TokenArguments, TakesToken
  <2> QED
    BY <1>1, <1>2, <2>1 DEF LogoutsDone
<1>6. OnlySuccessors'
  <2> SUFFICES ASSUME NEW x \in Requests, row'[x] = "gone", ~Rotated(x)',
                      NEW p \in Requests, NEW y \in Requests, y = root[x],
                        Carries(p, y)'
               PROVE  pc'[p] = "issue" /\ call[p].op = "refresh" /\ call[p].token = x
    <3>1. \A x \in Requests : root'[x] = root[x] /\ root[x] \in Requests
      BY <1>1 DEF TypeOK
    <3> QED
      BY <1>1, <3>1 DEF OnlySuccessors
  <2>1. ~Rotated(x) /\ Carries(p, y)
    BY <1>1, <1>3, <1>4 DEF Rotated
  <2>2. CASE row[x] = "gone"
    BY <1>1, <1>2, <2>1, <2>2 DEF OnlySuccessors
  <2>3. CASE row[x] = "live"
    <3>1. p = x
      BY <2>1, <2>3 DEF OneCarrier, Carries
    <3>2. pc'[x] # "issue"
      BY <1>2, <2>3 DEF Labels, Issued
    <3> QED
      BY <1>1, <3>1, <3>2 DEF Carries
  <2> QED
    BY <1>2, <2>2, <2>3
<1>7. Owners' /\ SweepsAsked'
  BY <1>1, <1>2, <1>3 DEF Owners, SweepsAsked
<1>8. Survivors'
  <2> SUFFICES ASSUME NothingCrashed', NEW s \in Requests, Issued(s), root[s] = s,
                      Undisturbed(call[s].user)'
               PROVE  \E c \in Requests : Carries(c, s)'
    BY <1>1, <1>3 DEF Survivors
  <2>1. NothingCrashed
    BY <1>1, <1>2 DEF NothingCrashed
  <2>2. Undisturbed(call[s].user) /\ call[r].user # call[s].user
    BY <1>1, <1>2 DEF Undisturbed
  <2>3. PICK c \in Requests : Carries(c, s)
    BY <2>1, <2>2 DEF Survivors
  <2>4. CASE row[c] = "live" /\ root[c] = s
    <3>1. call[c].user = call[s].user
      BY <2>4 DEF Owners, Issued
    <3> QED
      BY <1>1, <1>2, <2>2, <2>4, <3>1 DEF Carries
  <2>5. CASE pc[c] = "issue" /\ call[c].op = "refresh" /\ root[call[c].token] = s
    BY <1>1, <1>2, <2>5 DEF Carries
  <2> QED
    BY <2>3, <2>4, <2>5 DEF Carries
<1> QED
  BY <1>5, <1>6, <1>7, <1>8

LEMMA DescentInit == Init => Descent
<1> SUFFICES ASSUME Init PROVE Descent
  OBVIOUS
<1>1. \A r \in Requests : pc[r] = "idle" /\ row[r] = "none" /\ ~Issued(r) /\ ~TakesToken(r)
  BY DEF Init, Issued, TakesToken
<1> QED
  BY <1>1 DEF Descent, LogoutsDone, OnlySuccessors, Owners, SweepsAsked, Survivors

LEMMA DescentStep ==
  ASSUME IndInv, Descent, [Next]_vars
  PROVE  Descent'
<1>1. ASSUME NEW r \in Requests, Begin(r) PROVE Descent'
  BY <1>1, BeginDescends
<1>2. ASSUME NEW r \in Requests, Proceed(r) PROVE Descent'
  <2>1. CASE CheckEmail(r) \/ CreateAccount(r) \/ CheckUser(r)
    <3>1. /\ UNCHANGED <<row, call, root>> /\ InFlight(r)
          /\ pc[r] # "issue" /\ pc'[r] \notin {"idle", "ok", "sweep"}
          /\ \A q \in Requests \ {r} : pc'[q] = pc[q]
          /\ pc'[r] = "issue" => call[r].op # "refresh"
      BY <2>1 DEF CheckEmail, CreateAccount, CheckUser, Goto, history, InFlight, Finished,
                  IndInv, TypeOK, Labels
    <3> QED
      BY <3>1, QuietDescends
  <2>2. CASE FindToken(r)
    <3>1. /\ UNCHANGED <<row, call, root>> /\ InFlight(r)
          /\ pc[r] = "lookup" /\ pc'[r] \in {"user", "refused", "consume", "ok"}
          /\ \A q \in Requests \ {r} : pc'[q] = pc[q]
          /\ pc'[r] = "ok" => row[call[r].token] # "live"
      BY <2>2 DEF FindToken, Goto, history, InFlight, Finished, IndInv, TypeOK
    <3>2. row[call[r].token] \in {"live", "gone"}
      BY <3>1 DEF IndInv, TokenArguments, TakesToken, Labels, Issued, TypeOK
    <3> QED
      BY <3>1, <3>2, QuietDescends
  <2>3. CASE SetActive(r)
    <3>1. /\ UNCHANGED <<row, call, root>> /\ InFlight(r)
          /\ pc[r] = "set" /\ pc'[r] \in {"sweep", "ok"}
          /\ \A q \in Requests \ {r} : pc'[q] = pc[q]
          /\ pc'[r] = "sweep" => call[r].op = "block"
          /\ call[r].op # "logout"
      BY <2>3 DEF SetActive, Goto, InFlight, Finished, IndInv, TypeOK, Labels
    <3> QED
      BY <3>1, QuietDescends
  <2> QED
    BY <1>2, <2>1, <2>2, <2>3, ConsumeDescends, IssueDescends, SweepDescends DEF Proceed
<1>3. ASSUME NEW r \in Requests, Abort(r) PROVE Descent'
  <2>1. /\ UNCHANGED <<row, call, root>> /\ InFlight(r) /\ pc'[r] = "crashed"
        /\ \A q \in Requests \ {r} : pc'[q] = pc[q]
    BY <1>3 DEF Abort, Goto, history, IndInv, TypeOK
  <2> QED
    BY <2>1, QuietDescends
<1>4. ASSUME UNCHANGED <<row, pc, call, root>> PROVE Descent'
  BY <1>4 DEF Descent, LogoutsDone, OnlySuccessors, Rotated, Owners, SweepsAsked, Survivors,
              NothingCrashed, Undisturbed, Carries, Issued, TakesToken
<1> QED
  BY <1>1, <1>2, <1>3, <1>4 DEF Next, AllAnswered, Expire, history, vars

THEOREM SignInsDescend == Spec => [](IndInv /\ Descent)
<1>1. IndInv /\ Descent /\ [Next]_vars => (IndInv /\ Descent)'
  BY NextIndInv, DescentStep
<1> QED
  BY <1>1, InitIndInv, DescentInit, PTL DEF Spec

\* Handing in the newest token of a sign-in signs out, whatever races with it.
THEOREM NewestTokensSignOut == Spec => []NewestTokenSignsOut
<1>1. IndInv /\ Descent => NewestTokenSignsOut
  <2> SUFFICES ASSUME IndInv, Descent, NEW r \in Requests, NEW p \in Requests,
                      call[r].op = "logout", pc[r] = "ok", ~Rotated(call[r].token),
                      row[p] = "live", root[p] = root[call[r].token]
               PROVE  FALSE
    BY DEF NewestTokenSignsOut, Rotated
  <2>1. call[r].token \in Requests /\ row[call[r].token] = "gone"
    BY DEF IndInv, TokenArguments, TakesToken, Descent, LogoutsDone
  <2>2. pc[p] = "issue"
    BY <2>1 DEF Descent, OnlySuccessors, Carries
  <2> QED
    BY <2>2 DEF IndInv, Labels, Issued
<1> QED
  BY <1>1, SignInsDescend, PTL

\* Rotation signs nobody out.
THEOREM SessionsOutliveRotation == Spec => []SessionsSurviveRotation
<1>1. IndInv /\ Descent => SessionsSurviveRotation
  BY DEF Descent, Survivors, SessionsSurviveRotation, Carries, Idle, InFlight, Finished
<1> QED
  BY <1>1, SignInsDescend, PTL

-----------------------------------------------------------------------------
(* The refinement: every step is one of SessionChains, or none. *)

\* The abstract state, as the INSTANCE Chains defines it.
AbsToken == [t \in {r \in Requests : Issued(r)} |->
               [signIn |-> root[t], owner |-> call[t].user]]
AbsCurrent == {t \in Requests : row[t] = "live"}
                \cup {call[r].token : r \in {q \in Requests : Rotating(q)}}

LEMMA ChainsInit == Init => Chains!Init
<1> SUFFICES ASSUME Init PROVE Chains!Init
  OBVIOUS
<1>1. \A r \in Requests : ~Issued(r) /\ row[r] # "live" /\ ~Rotating(r)
  BY DEF Init, Issued, Rotating
<1>2. {r \in Requests : Issued(r)} = {}
  BY <1>1
<1>3. AbsCurrent = {} /\ AbsToken = [t \in {} |-> t]
  BY <1>1, <1>2 DEF AbsCurrent, AbsToken
<1> QED
  BY <1>3 DEF Chains!Init, AbsCurrent, AbsToken

\* The token of a rotation is not in the table any more, and nobody else rotates it.
LEMMA RotationsHold ==
  ASSUME IndInv, NEW r \in Requests, Rotating(r)
  PROVE  /\ call[r].token \in Requests \ {r} /\ Issued(call[r].token)
         /\ row[call[r].token] = "gone" /\ ~Issued(r)
         /\ \A q \in Requests : Rotating(q) /\ call[q].token = call[r].token => q = r
<1>1. Spent(r) /\ TakesToken(r) /\ \A q \in Requests : Rotating(q) => Spent(q)
  BY DEF Rotating, Spent, TakesToken
<1> QED
  BY <1>1 DEF IndInv, TokenArguments, SpentIsGone, SpentOnce, Labels, Rotating

\* What is current is issued, and what is known of it is in the table of tokens.
LEMMA CurrentIsKnown ==
  ASSUME IndInv, NEW t \in AbsCurrent
  PROVE  t \in Requests /\ Issued(t) /\ AbsToken[t] = [signIn |-> root[t], owner |-> call[t].user]
BY RotationsHold DEF AbsCurrent, AbsToken, Issued

\* No token is issued, and those known stay as they are.
LEMMA TokensStay ==
  ASSUME IndInv, UNCHANGED root,
         \A t \in Requests : Issued(t)' = Issued(t) /\ (Issued(t) => call'[t] = call[t])
  PROVE  AbsToken' = AbsToken
<1>1. {r \in Requests : Issued(r)}' = {r \in Requests : Issued(r)}
  OBVIOUS
<1>2. AbsToken' = [t \in {r \in Requests : Issued(r)}' |->
                     [signIn |-> root'[t], owner |-> call'[t].user]]
  BY DEF AbsToken
<1> QED
  BY <1>1, <1>2 DEF AbsToken

\* A step that neither writes a token nor begins or ends a rotation.
LEMMA OtherStepsStutterOnChains ==
  ASSUME IndInv, UNCHANGED <<row, root>>,
         \A t \in Requests : Issued(t) => call'[t] = call[t],
         \A q \in Requests : /\ Rotating(q)' = Rotating(q)
                             /\ Rotating(q) => call'[q] = call[q]
  PROVE  UNCHANGED <<AbsToken, AbsCurrent>>
<1>1. AbsToken' = AbsToken
  BY TokensStay DEF Issued
<1>2. AbsCurrent' = AbsCurrent
  <2>1. AbsCurrent' = {t \in Requests : row'[t] = "live"}
                        \cup {call'[r].token : r \in {q \in Requests : Rotating(q)'}}
    BY DEF AbsCurrent
  <2>2. {q \in Requests : Rotating(q)'} = {q \in Requests : Rotating(q)}
    OBVIOUS
  <2> QED
    BY <2>1, <2>2 DEF AbsCurrent
<1> QED
  BY <1>1, <1>2

LEMMA BeginStutters ==
  ASSUME IndInv, NEW r \in Requests, Begin(r)
  PROVE  UNCHANGED <<AbsToken, AbsCurrent>>
<1>1. PICK op, u, t, label : Enter(r, op, u, t, label) /\ label # "issue"
  BY DEF Begin, BeginRegister, BeginLogin, BeginRefresh, BeginLogout, BeginLogoutAll,
         BeginSetActive
<1>2. /\ pc[r] = "idle" /\ pc'[r] = label /\ UNCHANGED <<row, root>>
      /\ \A q \in Requests \ {r} : pc'[q] = pc[q] /\ call'[q] = call[q]
  BY <1>1 DEF Enter, Goto, history, IndInv, TypeOK
<1>3. ~Issued(r) /\ ~Rotating(r) /\ ~Rotating(r)'
  BY <1>1, <1>2 DEF IndInv, Labels, Rotating
<1>4. \A q \in Requests : Rotating(q)' = Rotating(q)
  BY <1>2, <1>3 DEF Rotating
<1> QED
  BY <1>2, <1>3, <1>4, OtherStepsStutterOnChains

\* Tokens of one user are current no longer.
LEMMA EndsSome ==
  ASSUME IndInv, NEW u \in Users, NEW gone \in SUBSET AbsCurrent,
         \A t \in gone : call[t].user = u,
         AbsCurrent' = AbsCurrent \ gone, AbsToken' = AbsToken
  PROVE  Chains!Next
<1>1. gone \in SUBSET {t \in AbsCurrent : AbsToken[t].owner = u}
  <2> SUFFICES ASSUME NEW t \in gone PROVE AbsToken[t].owner = u
    OBVIOUS
  <2>1. AbsToken[t] = [signIn |-> root[t], owner |-> call[t].user]
    BY CurrentIsKnown
  <2> QED
    BY <2>1
<1>2. Chains!End(u)
  BY <1>1 DEF Chains!End, AbsCurrent, AbsToken
<1> QED
  BY <1>2 DEF Chains!Next

\* A rotation takes its token with it; a logout ends the chain.
LEMMA ConsumeImplements ==
  ASSUME IndInv, Descent, NEW r \in Requests, Consume(r)
  PROVE  [Chains!Next]_<<AbsToken, AbsCurrent>>
<1> DEFINE t == call[r].token
<1>1. /\ pc[r] = "consume" /\ call[r].op \in {"refresh", "logout"} /\ ~Issued(r)
      /\ TakesToken(r) /\ t \in Requests \ {r} /\ call[t].user = call[r].user
      /\ UNCHANGED <<call, root>> /\ call[r].user \in Users
  BY DEF Consume, history, IndInv, Labels, TokenArguments, TakesToken, Descent, Owners,
         TypeOK, Call
<1>2. \A q \in Requests \ {r} : pc'[q] = pc[q] /\ Rotating(q)' = Rotating(q)
  BY <1>1 DEF Consume, Goto, Rotating, IndInv, TypeOK
<1>3. CASE row[t] # "live"
  <2>1. UNCHANGED row /\ ~Rotating(r) /\ ~Rotating(r)'
    BY <1>1, <1>3 DEF Consume, Goto, Rotating, IndInv, TypeOK
  <2>2. \A q \in Requests : Rotating(q)' = Rotating(q)
    BY <1>1, <1>2, <2>1 DEF Rotating
  <2>3. UNCHANGED <<AbsToken, AbsCurrent>>
    BY <1>1, <2>1, <2>2, OtherStepsStutterOnChains
  <2> QED
    BY <2>3
<1>4. CASE row[t] = "live"
  <2>1. /\ row' = [row EXCEPT ![t] = "gone"] /\ ~Rotating(r)
        /\ Rotating(r)' <=> call[r].op = "refresh"
    BY <1>1, <1>4 DEF Consume, Goto, Rotating, AfterConsume, IndInv, TypeOK
  <2>2. /\ row'[t] = "gone" /\ \A q \in Requests \ {t} : row'[q] = row[q]
        /\ \A q \in Requests : Issued(q)' = Issued(q)
    BY <1>1, <1>4, <2>1 DEF Issued, IndInv, TypeOK
  <2>3. AbsToken' = AbsToken
    BY <1>1, <2>2, TokensStay
  <2>4. \A q \in Requests : Rotating(q) => call[q].token # t
    BY <1>4, RotationsHold
  <2>5. AbsCurrent' = {x \in Requests : row'[x] = "live"}
                        \cup {call[q].token : q \in {p \in Requests : Rotating(p)'}}
    BY <1>1 DEF AbsCurrent
  <2>6. {x \in Requests : row'[x] = "live"} = {x \in Requests : row[x] = "live"} \ {t}
    BY <1>1, <2>2
  <2>7. CASE call[r].op = "refresh"
    <3>1. {p \in Requests : Rotating(p)'} = {p \in Requests : Rotating(p)} \cup {r}
      BY <1>2, <2>1, <2>7
    <3>2. AbsCurrent' = AbsCurrent
      BY <1>1, <1>4, <2>5, <2>6, <3>1 DEF AbsCurrent
    <3> QED
      BY <2>3, <3>2
  <2>8. CASE call[r].op = "logout"
    <3>1. {p \in Requests : Rotating(p)'} = {p \in Requests : Rotating(p)}
      BY <1>2, <2>1, <2>8
    <3>2. AbsCurrent' = AbsCurrent \ {t} /\ t \in AbsCurrent
      BY <1>1, <1>4, <2>4, <2>5, <2>6, <3>1 DEF AbsCurrent
    <3> QED
      BY <1>1, <2>3, <3>2, EndsSome
  <2> QED
    BY <1>1, <2>7, <2>8
<1> QED
  BY <1>3, <1>4

\* The insert makes the new token known, as the next of its chain or the first of one.
LEMMA IssueImplements ==
  ASSUME IndInv, Descent, NEW r \in Requests, Issue(r)
  PROVE  Chains!Next
<1>0. call[r].user \in Users /\ call[r].token \in Requests \cup {NoRequest}
  BY DEF IndInv, TypeOK, Call
<1>p. PICK u, t, s, about :
        /\ u \in Users /\ u = call[r].user /\ t = call[r].token
        /\ s = (IF call[r].op = "refresh" THEN root[t] ELSE r)
        /\ about = [signIn |-> s, owner |-> u]
  BY <1>0
<1>1. /\ pc[r] = "issue" /\ ~Issued(r) /\ call[r].op \in {"register", "login", "refresh"}
      /\ UNCHANGED call
      /\ row' = [row EXCEPT ![r] = "live"] /\ root' = [root EXCEPT ![r] = s]
  BY <1>p DEF Issue, IndInv, Labels, TypeOK, Call
<1>2. /\ Issued(r)' /\ row'[r] = "live" /\ root'[r] = s
      /\ \A q \in Requests \ {r} : /\ Issued(q)' = Issued(q) /\ root'[q] = root[q]
                                   /\ row'[q] = row[q] /\ Rotating(q)' = Rotating(q)
      /\ ~Rotating(r)'
  BY <1>1 DEF Issue, Goto, Issued, Rotating, IndInv, TypeOK
<1>3. Chains!Add(r, about)
  <2>1. {q \in Requests : Issued(q)'} = {q \in Requests : Issued(q)} \cup {r}
    BY <1>2
  <2>2. AbsToken' = [x \in {q \in Requests : Issued(q)'} |->
                       [signIn |-> root'[x], owner |-> call[x].user]]
    BY <1>1 DEF AbsToken
  <2>3. DOMAIN AbsToken = {q \in Requests : Issued(q)}
    BY DEF AbsToken
  <2>4. \A x \in {q \in Requests : Issued(q)} \cup {r} :
          [signIn |-> root'[x], owner |-> call[x].user]
            = IF x = r THEN about ELSE AbsToken[x]
    BY <1>p, <1>2 DEF AbsToken
  <2>5. AbsToken' = [x \in DOMAIN AbsToken \cup {r} |-> IF x = r THEN about ELSE AbsToken[x]]
    BY <2>1, <2>2, <2>3, <2>4
  <2>6. r \notin DOMAIN AbsToken
    BY <1>1, <2>3
  <2> QED
    BY <2>5, <2>6 DEF Chains!Add, AbsToken
<1>4. {x \in Requests : row'[x] = "live"} = {x \in Requests : row[x] = "live"} \cup {r}
  BY <1>2
<1>5. AbsCurrent' = {x \in Requests : row'[x] = "live"}
                      \cup {call[q].token : q \in {p \in Requests : Rotating(p)'}}
  BY <1>1 DEF AbsCurrent
<1>6. CASE call[r].op = "refresh"
  <2>1. Rotating(r)
    BY <1>1, <1>6 DEF Rotating
  <2>2. /\ t \in Requests \ {r} /\ Issued(t) /\ row[t] = "gone"
        /\ \A q \in Requests : Rotating(q) /\ call[q].token = t => q = r
    BY <1>p, <2>1, RotationsHold
  <2>3. {p \in Requests : Rotating(p)'} = {p \in Requests : Rotating(p)} \ {r}
    BY <1>2
  <2>4. t \in AbsCurrent /\ AbsToken[t] = [signIn |-> root[t], owner |-> call[t].user]
    BY <1>p, <2>1, <2>2, CurrentIsKnown DEF AbsCurrent
  <2>5. AbsCurrent' = (AbsCurrent \ {t}) \cup {r}
    BY <1>p, <1>4, <1>5, <2>1, <2>2, <2>3 DEF AbsCurrent
  <2>6. call[t].user = u
    BY <1>p, <1>1, <1>6 DEF Descent, Owners, TakesToken
  <2>7. about = AbsToken[t]
    BY <1>p, <1>6, <2>4, <2>6
  <2>8. Chains!Rotate(t, r)
    <3>1. /\ r \notin DOMAIN AbsToken
          /\ AbsToken' = [x \in DOMAIN AbsToken \cup {r} |->
                            IF x = r THEN AbsToken[t] ELSE AbsToken[x]]
      BY <1>3, <2>7 DEF Chains!Add, AbsToken
    <3> QED
      BY <2>4, <2>5, <3>1 DEF Chains!Rotate, Chains!Add, AbsCurrent, AbsToken
  <2> QED
    BY <2>4, <2>8 DEF Chains!Next, AbsCurrent
<1>7. CASE call[r].op # "refresh"
  <2>1. {p \in Requests : Rotating(p)'} = {p \in Requests : Rotating(p)}
    BY <1>2, <1>7 DEF Rotating
  <2>2. AbsCurrent' = AbsCurrent \cup {r}
    BY <1>4, <1>5, <2>1 DEF AbsCurrent
  <2>3. about = [signIn |-> r, owner |-> u]
    BY <1>p, <1>7
  <2>4. Chains!SignIn(r, u)
    BY <1>3, <2>2, <2>3 DEF Chains!SignIn, AbsCurrent, AbsToken
  <2> QED
    BY <1>p, <2>4 DEF Chains!Next
<1> QED
  BY <1>6, <1>7

\* The sweep ends all chains of a user but those that are in a rotation.
LEMMA SweepImplements ==
  ASSUME IndInv, Descent, NEW r \in Requests, Sweep(r)
  PROVE  Chains!Next
<1>0. call[r].user \in Users
  BY DEF IndInv, TypeOK, Call
<1>p. PICK u, gone :
        u \in Users /\ u = call[r].user /\ gone = {t \in Requests : row[t] = "live" /\ call[t].user = u}
  BY <1>0
<1>1. /\ pc[r] = "sweep" /\ UNCHANGED <<call, root>>
      /\ \A t \in Requests : row'[t] = IF t \in gone THEN "gone" ELSE row[t]
  BY <1>p DEF Sweep, Swept, history, IndInv, TypeOK
<1>2. \A q \in Requests : /\ Rotating(q)' = Rotating(q)
                          /\ Issued(q)' = Issued(q)
  BY <1>1 DEF Sweep, Swept, Goto, Rotating, Issued, IndInv, TypeOK
<1>3. AbsToken' = AbsToken
  BY <1>1, <1>2, TokensStay
<1>4. AbsCurrent' = AbsCurrent \ gone
  <2>1. AbsCurrent' = {x \in Requests : row'[x] = "live"}
                        \cup {call[q].token : q \in {p \in Requests : Rotating(p)'}}
    BY <1>1 DEF AbsCurrent
  <2>2. {p \in Requests : Rotating(p)'} = {p \in Requests : Rotating(p)}
    BY <1>2
  <2>3. {x \in Requests : row'[x] = "live"} = {x \in Requests : row[x] = "live"} \ gone
    BY <1>p, <1>1
  <2>4. \A q \in Requests : Rotating(q) => call[q].token \notin gone
    BY <1>p, RotationsHold
  <2> QED
    BY <2>1, <2>2, <2>3, <2>4 DEF AbsCurrent
<1>5. gone \in SUBSET AbsCurrent /\ \A t \in gone : call[t].user = u
  BY <1>p DEF AbsCurrent
<1> QED
  BY <1>p, <1>3, <1>4, <1>5, EndsSome

\* A rotation that is cut short ends its chain.
LEMMA AbortImplements ==
  ASSUME IndInv, Descent, NEW r \in Requests, Abort(r)
  PROVE  [Chains!Next]_<<AbsToken, AbsCurrent>>
<1> DEFINE t == call[r].token
<1>1. /\ UNCHANGED <<row, call, root>> /\ pc'[r] = "crashed"
      /\ \A q \in Requests \ {r} : pc'[q] = pc[q]
      /\ call[r].user \in Users
  BY DEF Abort, Goto, history, IndInv, TypeOK, Call
<1>2. /\ ~Rotating(r)'
      /\ \A q \in Requests \ {r} : Rotating(q)' = Rotating(q)
      /\ \A q \in Requests : Issued(q)' = Issued(q)
  BY <1>1 DEF Rotating, Issued
<1>3. CASE ~Rotating(r)
  <2>1. \A q \in Requests : Rotating(q)' = Rotating(q)
    BY <1>1, <1>2, <1>3 DEF Rotating
  <2>2. UNCHANGED <<AbsToken, AbsCurrent>>
    BY <1>1, <2>1, OtherStepsStutterOnChains
  <2> QED
    BY <2>2
<1>4. CASE Rotating(r)
  <2>1. /\ t \in Requests \ {r} /\ Issued(t) /\ row[t] = "gone"
        /\ \A q \in Requests : Rotating(q) /\ call[q].token = t => q = r
    BY <1>4, RotationsHold
  <2>2. call[t].user = call[r].user
    BY <1>4 DEF Descent, Owners, TakesToken, Rotating
  <2>3. AbsToken' = AbsToken
    BY <1>1, <1>2, TokensStay
  <2>4. AbsCurrent' = AbsCurrent \ {t}
    <3>1. AbsCurrent' = {x \in Requests : row[x] = "live"}
                          \cup {call[q].token : q \in {p \in Requests : Rotating(p)'}}
      BY <1>1 DEF AbsCurrent
    <3>2. {p \in Requests : Rotating(p)'} = {p \in Requests : Rotating(p)} \ {r}
      BY <1>2
    <3> QED
      BY <2>1, <3>1, <3>2 DEF AbsCurrent
  <2>5. t \in AbsCurrent
    BY <1>4 DEF AbsCurrent
  <2> QED
    BY <1>1, <2>2, <2>3, <2>4, <2>5, EndsSome
<1> QED
  BY <1>3, <1>4

LEMMA StepImplementsChains ==
  ASSUME IndInv, Descent, [Next]_vars
  PROVE  [Chains!Next]_<<AbsToken, AbsCurrent>>
<1>1. ASSUME NEW r \in Requests, Begin(r) PROVE UNCHANGED <<AbsToken, AbsCurrent>>
  BY <1>1, BeginStutters
<1>2. ASSUME NEW r \in Requests,
             CheckEmail(r) \/ CreateAccount(r) \/ FindToken(r) \/ CheckUser(r) \/ SetActive(r)
      PROVE  UNCHANGED <<AbsToken, AbsCurrent>>
  <2>1. /\ UNCHANGED <<row, call, root>> /\ pc[r] # "issue"
        /\ pc'[r] = "issue" => call[r].op # "refresh"
        /\ \A q \in Requests \ {r} : pc'[q] = pc[q]
    BY <1>2 DEF CheckEmail, CreateAccount, FindToken, CheckUser, SetActive, Goto, history,
                IndInv, TypeOK, Labels
  <2>2. \A q \in Requests : Rotating(q)' = Rotating(q)
    BY <2>1 DEF Rotating
  <2> QED
    BY <2>1, <2>2, OtherStepsStutterOnChains
<1>3. ASSUME UNCHANGED <<row, call, root, pc>> PROVE UNCHANGED <<AbsToken, AbsCurrent>>
  BY <1>3, OtherStepsStutterOnChains DEF Rotating
<1> QED
  BY <1>1, <1>2, <1>3, ConsumeImplements, IssueImplements, SweepImplements, AbortImplements
     DEF Next, Proceed, Expire, AllAnswered, history, vars

\* The sessions of the service are chains of tokens that are handed on once and do not
\* come back, whatever refreshes, logouts, blocks and crashes overlap.
THEOREM SessionsImplementChains == Spec => ImplementsChains
<1>1. IndInv /\ Descent /\ [Next]_vars => [Chains!Next]_(Chains!vars)
  BY StepImplementsChains DEF Chains!vars, AbsToken, AbsCurrent
<1> QED
  BY <1>1, ChainsInit, SignInsDescend, PTL DEF Spec, ImplementsChains, Chains!Spec
===============================================================================
