------------------------------- MODULE Sessions -------------------------------
(***************************************************************************)
(* Accounts and refresh tokens: AuthService.register, login, refresh,      *)
(* logout and logoutAll, and the two ways an admin ends a user's sessions, *)
(* UsersService.toggleActive and softDeleteUser.                           *)
(*                                                                         *)
(* As in OrdersService, every awaited database call is a step and a        *)
(* request is used once.  A request issues at most one refresh token, so   *)
(* the token a request issued is named by the request.                     *)
(*                                                                         *)
(* Passwords are right here (LoginLockout is about wrong ones) and access  *)
(* tokens are whatever the caller has: they are never stored.              *)
(***************************************************************************)
EXTENDS Integers

CONSTANTS
  Users,     \* email addresses, each the key of at most one account
  Requests,  \* every call the server will ever receive
  Ops,       \* which of the operations below are called
  NoRequest  \* "no token" in a call that takes none

AllOps == {"register", "login", "refresh", "logout", "logoutAll", "block", "unblock"}

ASSUME OpsAssumption == Ops \subseteq AllOps /\ Users # {}
ASSUME NullAssumption == NoRequest \notin Requests

VARIABLES
  account,  \* users: "none" before registration, then is_active
  row,      \* refresh_tokens: the row of the token each request issued
  expired,  \* the tokens whose lifetime is over
  pc,       \* where each request is
  call,     \* what it was asked to do
  root,     \* history: the sign-in the token of a request descends from
  spared    \* history: the requests that the sweep of a user's last block came too
            \* early for; any of them, until it has run

vars == <<account, row, expired, pc, call, root, spared>>
history == <<root, spared>>

Call == [op : AllOps, user : Users, token : Requests \cup {NoRequest}]

TypeOK ==
  /\ account \in [Users -> {"none", "active", "blocked"}]
  /\ row \in [Requests -> {"none", "live", "gone"}]
  /\ expired \subseteq Requests
  /\ pc \in [Requests -> {"idle", "email", "create", "lookup", "user", "consume",
                          "issue", "set", "sweep", "ok", "refused", "failed", "crashed"}]
  /\ call \in [Requests -> Call]
  /\ root \in [Requests -> Requests]
  /\ spared \in [Users -> SUBSET Requests]

Init ==
  /\ account = [u \in Users |-> "none"]
  /\ row = [r \in Requests |-> "none"]
  /\ expired = {}
  /\ pc = [r \in Requests |-> "idle"]
  /\ call = [r \in Requests |-> [op |-> "login", user |-> CHOOSE u \in Users : TRUE,
                                 token |-> NoRequest]]
  /\ root = [r \in Requests |-> r]
  /\ spared = [u \in Users |-> Requests]

Finished(r) == pc[r] \in {"ok", "refused", "failed", "crashed"}
InFlight(r) == pc[r] # "idle" /\ ~Finished(r)
Goto(r, label) == pc' = [pc EXCEPT ![r] = label]
Issued(t) == row[t] # "none"

\* A request that found its user active, and has not inserted its token yet.
Passing(r) == pc[r] \in {"consume", "issue"} /\ call[r].op # "logout"

\* A refresh that has deleted the old token and is about to insert the new one.
Rotating(r) == pc[r] = "issue" /\ call[r].op = "refresh"

-----------------------------------------------------------------------------
(* A request arrives. *)

Enter(r, op, user, token, label) ==
  /\ pc[r] = "idle" /\ op \in Ops
  /\ call' = [call EXCEPT ![r] = [op |-> op, user |-> user, token |-> token]]
  /\ Goto(r, label)
  /\ UNCHANGED <<account, row, expired, history>>

BeginRegister(r) == \E u \in Users : Enter(r, "register", u, NoRequest, "email")
BeginLogin(r) == \E u \in Users : Enter(r, "login", u, NoRequest, "user")

\* jwtService.verify refuses an expired token before the database is asked.
BeginRefresh(r) ==
  \E t \in Requests :
    /\ Issued(t)
    /\ Enter(r, "refresh", call[t].user, t, IF t \in expired THEN "refused" ELSE "lookup")
BeginLogout(r) ==
  \E t \in Requests : Issued(t) /\ Enter(r, "logout", call[t].user, t, "lookup")

\* JwtAccessStrategy lets an active user in.
BeginLogoutAll(r) ==
  \E u \in Users : Enter(r, "logoutAll", u, NoRequest,
                         IF account[u] = "active" THEN "sweep" ELSE "refused")

\* The findUnique of toggleActive and softDeleteUser: the user has to exist,
\* which users never cease to do.
BeginSetActive(r) ==
  \E u \in Users, op \in {"block", "unblock"} :
    Enter(r, op, u, NoRequest, IF account[u] = "none" THEN "refused" ELSE "set")

Begin(r) ==
  \/ BeginRegister(r) \/ BeginLogin(r) \/ BeginRefresh(r)
  \/ BeginLogout(r) \/ BeginLogoutAll(r) \/ BeginSetActive(r)

-----------------------------------------------------------------------------
(* The database calls. *)

\* register: findUnique by email.
CheckEmail(r) ==
  /\ pc[r] = "email"
  /\ Goto(r, IF account[call[r].user] = "none" THEN "create" ELSE "refused")
  /\ UNCHANGED <<account, row, expired, call, history>>

\* register: users.create; the unique index on email throws for a second one.
CreateAccount(r) ==
  LET u == call[r].user IN
  /\ pc[r] = "create"
  /\ IF account[u] = "none"
     THEN /\ account' = [account EXCEPT ![u] = "active"]
          /\ Goto(r, "issue")
     ELSE Goto(r, "failed") /\ UNCHANGED account
  /\ UNCHANGED <<row, expired, call, history>>

\* Fault: logout does not delete what it finds.
FindTokenOnly(r) ==
  /\ pc[r] = "lookup"
  /\ Goto(r, IF call[r].op = "logout" THEN "ok"
             ELSE IF row[call[r].token] = "live" THEN "user" ELSE "refused")
  /\ UNCHANGED <<account, row, expired, call, history>>

\* refresh and logout: findFirst by hash.  refresh looks at the expiry too;
\* logout of a token that is not there is a success.
FindToken(r) ==
  LET t == call[r].token IN
  /\ pc[r] = "lookup"
  /\ IF call[r].op = "refresh"
     THEN Goto(r, IF row[t] = "live" /\ t \notin expired THEN "user" ELSE "refused")
     ELSE Goto(r, IF row[t] = "live" THEN "consume" ELSE "ok")
  /\ UNCHANGED <<account, row, expired, call, history>>

\* login and refresh: findUnique of the user, who has to be active.
CheckUser(r) ==
  /\ pc[r] = "user"
  /\ Goto(r, IF account[call[r].user] # "active" THEN "refused"
             ELSE IF call[r].op = "refresh" THEN "consume" ELSE "issue")
  /\ UNCHANGED <<account, row, expired, call, history>>

\* refresh goes on to generateTokens, logout is done.
AfterConsume(r) == IF call[r].op = "refresh" THEN "issue" ELSE "ok"

\* Faults: deleteMany for delete, which does not mind that the row is gone; the
\* old row is kept.
ConsumeAny(r) ==
  /\ pc[r] = "consume"
  /\ row' = [row EXCEPT ![call[r].token] = "gone"]
  /\ Goto(r, AfterConsume(r))
  /\ UNCHANGED <<account, expired, call, history>>
ConsumeNothing(r) ==
  /\ pc[r] = "consume"
  /\ Goto(r, AfterConsume(r))
  /\ UNCHANGED <<account, row, expired, call, history>>

\* refresh and logout: refreshTokens.delete by id, which throws when the row is
\* gone already.
Consume(r) ==
  LET t == call[r].token IN
  /\ pc[r] = "consume"
  /\ IF row[t] = "live"
     THEN /\ row' = [row EXCEPT ![t] = "gone"]
          /\ Goto(r, AfterConsume(r))
     ELSE Goto(r, "failed") /\ UNCHANGED row
  /\ UNCHANGED <<account, expired, call, history>>

\* Fault: refresh answers without recording the new token.
IssueUnrecorded(r) ==
  /\ pc[r] = "issue"
  /\ Goto(r, "ok")
  /\ row' = [row EXCEPT ![r] = IF call[r].op = "refresh" THEN @ ELSE "live"]
  /\ UNCHANGED <<account, expired, call, history>>

\* generateTokens: refreshTokens.create, and the answer.
Issue(r) ==
  /\ pc[r] = "issue"
  /\ row' = [row EXCEPT ![r] = "live"]
  /\ root' = [root EXCEPT ![r] = IF call[r].op = "refresh" THEN root[call[r].token] ELSE r]
  /\ Goto(r, "ok")
  /\ UNCHANGED <<account, expired, call, spared>>

\* toggleActive and softDeleteUser: users.update.
SetActive(r) ==
  LET u == call[r].user IN
  /\ pc[r] = "set"
  /\ IF call[r].op = "block"
     THEN /\ account' = [account EXCEPT ![u] = "blocked"]
          /\ spared' = [spared EXCEPT ![u] = Requests]
          /\ Goto(r, "sweep")
     ELSE /\ account' = [account EXCEPT ![u] = "active"]
          /\ Goto(r, "ok")
          /\ UNCHANGED spared
  /\ UNCHANGED <<row, expired, call, root>>

\* Fault: only the tokens whose lifetime is over.
SweptExpired(t, u) == row[t] = "live" /\ call[t].user = u /\ t \in expired

\* The tokens of the user.
Swept(t, u) == row[t] = "live" /\ call[t].user = u

\* logoutAll and blocking: refreshTokens.deleteMany of the user.
Sweep(r) ==
  LET u == call[r].user IN
  /\ pc[r] = "sweep"
  /\ row' = [t \in Requests |-> IF Swept(t, u) THEN "gone" ELSE row[t]]
  /\ IF call[r].op = "block"
     THEN spared' = [spared EXCEPT ![u] = {q \in Requests : Passing(q) /\ call[q].user = u}]
     ELSE UNCHANGED spared
  /\ Goto(r, "ok")
  /\ UNCHANGED <<account, expired, call, root>>

Proceed(r) ==
  \/ CheckEmail(r) \/ CreateAccount(r) \/ FindToken(r) \/ CheckUser(r)
  \/ Consume(r) \/ Issue(r) \/ SetActive(r) \/ Sweep(r)

\* The process stops, or a database call throws, before the next statement.
Abort(r) ==
  /\ InFlight(r)
  /\ Goto(r, "crashed")
  /\ UNCHANGED <<account, row, expired, call, history>>

\* JWT_REFRESH_EXPIRES_IN has passed.  The row stays: nothing purges it.
Expire(t) ==
  /\ Issued(t)
  /\ expired' = expired \cup {t}
  /\ UNCHANGED <<account, row, pc, call, history>>

AllAnswered == (\A r \in Requests : Finished(r)) /\ UNCHANGED vars

Next ==
  \/ \E r \in Requests : Begin(r) \/ Proceed(r) \/ Abort(r) \/ Expire(r)
  \/ AllAnswered

Spec == Init /\ [][Next]_vars

-----------------------------------------------------------------------------
(* Properties. *)

Idle == \A r \in Requests : ~InFlight(r)

\* A refresh token buys one new pair, however many refreshes of it race: the
\* delete by id decides which of them gets it.
SingleUse ==
  \A p, q \in Requests :
    /\ call[p].op = "refresh" /\ Issued(p)
    /\ call[q].op = "refresh" /\ Issued(q)
    /\ call[p].token = call[q].token
    => p = q

\* One sign-in keeps one usable refresh token through any number of rotations:
\* no interleaving of refresh, logout and crashes makes one session into two.
OneTokenPerSignIn ==
  \A p, q \in Requests :
    row[p] = "live" /\ row[q] = "live" /\ root[p] = root[q] => p = q

\* A block that has been answered leaves its user only tokens of requests it
\* overlapped: of those that had found the user active and not inserted their token
\* when the sweep ran.  Whatever is tried afterwards, no other token of theirs is
\* there while they are blocked, also if they were let back in between and blocked
\* again.  A block that is cut short before its sweep leaves them all.
BlockSparesOnlyOverlapping ==
  \A t \in Requests :
    row[t] = "live" /\ account[call[t].user] = "blocked" => t \in spared[call[t].user]

\* logout ends the session of the newest token of a sign-in: if no refresh got a
\* successor out of the token that was handed in, nothing of its sign-in is left
\* once logout has answered, whatever raced with it.
NewestTokenSignsOut ==
  \A r \in Requests :
    LET t == call[r].token IN
    /\ call[r].op = "logout" /\ pc[r] = "ok"
    /\ ~\E q \in Requests : call[q].op = "refresh" /\ call[q].token = t /\ Issued(q)
    => ~\E p \in Requests : row[p] = "live" /\ root[p] = root[t]

\* A session nobody ended is still there: at rest, and if no request was cut
\* short, each sign-in of a user for whom no logout, logoutAll or block was ever
\* asked has a live token.  Rotation is a delete and an insert, and several
\* rotations of one token may race; whichever wins, nobody is signed out.
Undisturbed(u) ==
  \A q \in Requests :
    pc[q] # "idle" /\ call[q].user = u => call[q].op \notin {"logout", "logoutAll", "block"}
NothingCrashed == \A r \in Requests : pc[r] # "crashed"
SessionsSurviveRotation ==
  Idle /\ NothingCrashed =>
    \A s \in Requests :
      Issued(s) /\ root[s] = s /\ Undisturbed(call[s].user)
        => \E t \in Requests : row[t] = "live" /\ root[t] = s

\* Each sign-in is one chain of tokens: at any time it lives on one of them, the row
\* or the rotation that has deleted it; every token is handed on once at most; and a
\* sign-in that was ended, or lost to a crash between delete and insert, is never
\* revived by whatever was under way.
Chains ==
  INSTANCE SessionChains WITH
    Tokens <- Requests,
    token <- [t \in {r \in Requests : Issued(r)} |->
                [signIn |-> root[t], owner |-> call[t].user]],
    current <- {t \in Requests : row[t] = "live"}
                 \cup {call[r].token : r \in {q \in Requests : Rotating(q)}}
ImplementsChains == Chains!Spec
===============================================================================
