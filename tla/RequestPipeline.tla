--------------------------- MODULE RequestPipeline ---------------------------
(***************************************************************************)
(* What a call goes through before and after the handler of its route:     *)
(* middlewares, CustomThrottlerGuard, JwtAuthGuard, RolesGuard, the        *)
(* validation pipe, the handler, the interceptors and AllExceptionsFilter. *)
(*                                                                         *)
(* The throttler is a global guard and so comes first, before anybody has  *)
(* looked at the token.  Its counters are in memory: up to the look-up of  *)
(* the user nothing waits for anything outside, and a request gets there   *)
(* in one step.  Updates from Telegram go through the global parts too.    *)
(* What a handler does is the business of the other modules: here it       *)
(* returns or throws.                                                      *)
(***************************************************************************)
EXTENDS Integers, Sequences, FiniteSets

CONSTANTS
  Requests,    \* every call the server will receive
  Calls,       \* what they may be, a subset of Call
  Addresses,   \* req.ip
  Emails,      \* body.email, in lower case
  Windows,     \* throttlerConfig.throttlers, sorted by ttl
  AuthLimits,  \* RATE_LIMIT_CUSTOM.auth
  Outcomes,    \* what handlers do, a subset of Endings
  MaxClock,    \* bound: how long the server is watched
  None         \* no body.email; no token; no answer yet; not come yet

Roles == {"ADMIN", "MANAGER", "WORKER"}
Privileged == {"ADMIN", "MANAGER"}
Rule == [ttl : Nat \ {0}, limit : Nat \ {0}]

-----------------------------------------------------------------------------
(* The routes: who is let in by the guards named at the controller and at the *)
(* handler.  `roles` is empty where there is no JwtAuthGuard.                  *)

Route(controller, handler, roles) ==
  [controller |-> controller, handler |-> handler, roles |-> roles]

OrderReads == {Route("orders", h, Roles) : h \in {"findAll", "getStats", "findOne"}}

\* Fault: only admins assign, as the heading of the method has it for delete.
OrderWritesStrict ==
  {Route("orders", h, Roles) : h \in {"update", "changeStatus", "cancel"}}
    \cup {Route("orders", h, {"ADMIN"}) : h \in {"assign", "remove"}}

OrderWrites ==
  {Route("orders", h, Roles) : h \in {"update", "changeStatus", "cancel"}}
    \cup {Route("orders", "assign", Privileged), Route("orders", "remove", {"ADMIN"})}
OrderCreate == {Route("orders", "create", Privileged)}

UserReads ==
  {Route("users", "getProfile", Roles), Route("users", "getUserById", Roles),
   Route("users", "getUsers", Privileged)}
UserWrites ==
  {Route("users", "updateProfile", Roles)}
    \cup {Route("users", h, {"ADMIN"}) : h \in {"changeRole", "toggleActive"}}
UserEnds == {Route("users", h, {"ADMIN"}) : h \in {"getUsersStats", "softDeleteUser"}}

AuditLists ==
  {Route("audit", h, {"ADMIN"}) : h \in {"getLogs", "getUserLogs"}}
    \cup {Route("audit", "getOrderLogs", Privileged), Route("audit", "getMyActivity", Roles)}
AuditFigures ==
  {Route("audit", h, {"ADMIN"}) : h \in {"getStats", "cleanupOldLogs"}}
    \cup {Route("audit", h, Privileged) : h \in {"getRecentLogs", "getFieldHistory"}}

AuthRoutes ==
  {Route("auth", h, {}) : h \in {"register", "login", "refresh", "logout"}}
    \cup {Route("auth", h, Roles) : h \in {"logoutAll", "getProfile"}}
HealthRoutes == {Route("health", h, {}) : h \in {"check", "live", "ready", "detailed"}}
BotRoutes == {Route("bot", "update", {})}

Routes ==
  OrderReads \cup OrderWrites \cup OrderCreate \cup UserReads \cup UserWrites \cup UserEnds
    \cup AuditLists \cup AuditFigures \cup AuthRoutes \cup HealthRoutes \cup BotRoutes

\* context.getType().
Http(route) == route.controller # "bot"

\* claim: the role of a bearer token that passport accepts.  probe: the URL, which is
\* the path and the query, has /health or /metrics in it somewhere.
Call ==
  {c \in [route : Routes, ip : Addresses, email : Emails \cup {None},
          claim : Roles \cup {None}, probe : BOOLEAN] :
     c.route.controller = "health" => c.probe}

\* AllExceptionsFilter: what it tells apart.  A handler "returns", or throws:
\* "refused" is an HttpException of its service, "invalid" one of the validation pipe,
\* "prisma" a failure of the database, "error" anything else.
Endings ==
  {"returns", "limited", "unauthorized", "forbidden", "invalid", "refused", "prisma", "error"}

ASSUME CallsAssumption == Calls \subseteq Call /\ Calls # {}
\* What the guards throw, the handlers do not.
ASSUME OutcomesAssumption ==
  Outcomes \subseteq Endings \ {"limited", "unauthorized", "forbidden"}
ASSUME RequestsAssumption == IsFiniteSet(Requests)
ASSUME LimitsAssumption ==
  Windows \in Seq(Rule) /\ AuthLimits \in [{"register", "refresh"} -> Rule]
ASSUME ClockAssumption == MaxClock \in Nat /\ None \notin Roles \cup Emails \cup Nat \cup Endings

VARIABLES
  clock,   \* Date.now()
  pc,      \* where each request is
  call,    \* what it is
  came,    \* when it came, or None
  counted, \* how many throttlers counted it: the first of them
  outcome  \* what it came to, or None

vars == <<clock, pc, call, came, counted, outcome>>

Throttlers == 1..Len(Windows)

TypeOK ==
  /\ clock \in 0..MaxClock
  /\ pc \in [Requests -> {"idle", "token", "handler", "answered", "rethrown"}]
  /\ call \in [Requests -> Call]
  /\ came \in [Requests -> 0..MaxClock \cup {None}]
  /\ counted \in [Requests -> 0..Len(Windows)]
  /\ outcome \in [Requests -> Endings \cup {None}]

Init ==
  /\ clock = 0
  /\ pc = [r \in Requests |-> "idle"]
  /\ call = [r \in Requests |-> CHOOSE c \in Calls : TRUE]
  /\ came = [r \in Requests |-> None]
  /\ counted = [r \in Requests |-> 0]
  /\ outcome = [r \in Requests |-> None]

Goto(r, label) == pc' = [pc EXCEPT ![r] = label]

\* AllExceptionsFilter.catch answers HTTP, and leaves what is not HTTP to the caller.
End(route) == IF Http(route) THEN "answered" ELSE "rethrown"

Throw(r, c, what) ==
  /\ outcome' = [outcome EXCEPT ![r] = what]
  /\ Goto(r, End(c.route))

-----------------------------------------------------------------------------
(* CustomThrottlerGuard. *)

\* shouldSkip.  It looks for the names of the probes anywhere in the URL, whatever the
\* route.  Its exemption of admins is for requests that have a user, and no guard has
\* set req.user yet.
ShouldSkip(c) == ~Http(c.route) \/ c.probe

\* getTracker: there is no user yet, so the address and the account the body names.
Tracker(c) == <<c.ip, c.email>>

\* Fault: an override keyed `default`, a name no throttler has.
StrictDefault(rule) == Windows

\* strictThrottle: one rule for every throttler.
Strict(rule) == [n \in Throttlers |-> rule]

Rules(route) ==
  IF route.controller = "auth" /\ route.handler \in DOMAIN AuthLimits
  THEN Strict(AuthLimits[route.handler]) ELSE Windows

\* The library: the requests to a handler with the same key count until ttl after
\* they came, whether they were refused or not.
Counting(c, n) ==
  {q \in Requests : /\ call[q].route = c.route /\ Tracker(call[q]) = Tracker(c)
                    /\ n <= counted[q]
                    /\ clock - came[q] < Rules(c.route)[n].ttl}

Exceeded(c, n) == Cardinality(Counting(c, n)) + 1 > Rules(c.route)[n].limit

\* The middlewares, and the throttlers in turn: each counts the request and then
\* refuses it if that is one too many, so those behind it do not count it.
Count(r, c, last) ==
  /\ pc[r] = "idle"
  /\ call' = [call EXCEPT ![r] = c]
  /\ came' = [came EXCEPT ![r] = clock]
  /\ counted' = [counted EXCEPT ![r] = last]
  /\ UNCHANGED clock

LetIn(r, c) ==
  /\ ShouldSkip(c) \/ \A n \in Throttlers : ~Exceeded(c, n)
  /\ Count(r, c, IF ShouldSkip(c) THEN 0 ELSE Len(Windows))
  /\ Goto(r, "token") /\ UNCHANGED outcome

TurnAway(r, c) ==
  \E last \in Throttlers :
    /\ ~ShouldSkip(c)
    /\ Exceeded(c, last) /\ \A n \in 1..(last - 1) : ~Exceeded(c, n)
    /\ Count(r, c, last)
    /\ Throw(r, c, "limited")

Arrive(r) == \E c \in Calls : LetIn(r, c) \/ TurnAway(r, c)

-----------------------------------------------------------------------------
(* The guards of the route, the handler, the answer. *)

\* JwtAuthGuard: passport checks the token, and JwtAccessStrategy.validate looks
\* the user up, who may be gone or deactivated; or the look-up fails.  Then
\* RolesGuard.
Authenticate(r) ==
  LET c == call[r] IN
  /\ pc[r] = "token"
  /\ \/ c.route.roles = {} /\ Goto(r, "handler") /\ UNCHANGED outcome
     \/ /\ c.route.roles # {} /\ c.claim # None
        /\ \/ c.claim \in c.route.roles /\ Goto(r, "handler") /\ UNCHANGED outcome
           \/ c.claim \notin c.route.roles /\ Throw(r, c, "forbidden")
     \/ /\ c.route.roles # {}
        /\ Throw(r, c, "unauthorized") \/ (c.claim # None /\ Throw(r, c, "error"))
  /\ UNCHANGED <<clock, call, came, counted>>

\* TransformInterceptor: what a handler of HTTP returns is wrapped and answered; for
\* the bot the handler has answered in the chat.
Return(r) ==
  /\ outcome' = [outcome EXCEPT ![r] = "returns"]
  /\ Goto(r, "answered")

\* LoggingInterceptor is around the validation pipe and the handler: it logs what is
\* returned, and logs what is thrown and throws it again.
Work(r) ==
  /\ pc[r] = "handler"
  /\ \/ "returns" \in Outcomes /\ Return(r)
     \/ \E what \in Outcomes \ {"returns"} : Throw(r, call[r], what)
  /\ UNCHANGED <<clock, call, came, counted>>

Tick ==
  /\ clock < MaxClock
  /\ clock' = clock + 1
  /\ UNCHANGED <<pc, call, came, counted, outcome>>

\* Every call has been answered, and every update of the bot has got to its handler:
\* nothing stops anywhere else.
AllAnswered ==
  /\ \A r \in Requests :
       /\ pc[r] = "answered" \/ (pc[r] = "rethrown" /\ ~Http(call[r].route))
       /\ ~Http(call[r].route) => outcome[r] \in Outcomes
  /\ UNCHANGED vars

Next ==
  \/ Tick \/ AllAnswered
  \/ \E r \in Requests : Arrive(r) \/ Authenticate(r) \/ Work(r)

Spec == Init /\ [][Next]_vars

-----------------------------------------------------------------------------
(* Properties. *)

Passed(r, n) == came[r] # None /\ (outcome[r] = "limited" => n < counted[r])

\* What the documentation promises for a route (README.md:482-490).
Promised(route, n) ==
  IF route.controller = "auth" /\ route.handler \in DOMAIN AuthLimits
  THEN AuthLimits[route.handler] ELSE Windows[n]

\* However requests of one caller overlap, and wherever a window of a rule's
\* length begins, no more than the rule's limit of them get past its throttler.  Of
\* requests whose URL names a probe nothing is said, to whatever route they go: the
\* guard does not count them (custom-throttler.guard.ts:28).
LimitsHold ==
  \A r \in Requests, n \in Throttlers, from \in 0..MaxClock :
    LET rule == Promised(call[r].route, n) IN
    Cardinality({q \in Requests :
                   /\ call[q].route = call[r].route /\ Http(call[q].route) /\ ~call[q].probe
                   /\ call[q].ip = call[r].ip /\ call[q].email = call[r].email
                   /\ Passed(q, n)
                   /\ came[q] \in from .. from + rule.ttl - 1}) <= rule.limit

\* The role checks that OrdersService makes itself: of who calls, whatever the order is.
\* (assign reads the order first, and refuses a role it does not serve whatever it read.)
ServiceAdmits(handler, role) ==
  CASE handler \in {"create", "assign"} -> role \in Privileged
    [] handler = "remove" -> role = "ADMIN"
    [] OTHER -> TRUE

\* The RolesGuard in front of orders and the service behind it agree: the guard
\* refuses nobody the service would serve, and serves nobody it would refuse.
GuardAndServiceAgree ==
  \A r \in Requests : call[r].route.controller = "orders" =>
    /\ outcome[r] = "forbidden" => ~ServiceAdmits(call[r].route.handler, call[r].claim)
    /\ pc[r] = "handler" => ServiceAdmits(call[r].route.handler, call[r].claim)
===============================================================================
