------------------------ MODULE RequestPipelineProofs ------------------------
(***************************************************************************)
(* Machine-checked proofs about RequestPipeline, for any number of         *)
(* requests, any limits and windows, and any calls.                        *)
(***************************************************************************)
EXTENDS RequestPipeline, FiniteSetTheorems, TLAPS

-----------------------------------------------------------------------------
(* Facts about rules and routes. *)

LEMMA RulesAreRules ==
  ASSUME NEW c \in Call, NEW n \in Throttlers
  PROVE  /\ Rules(c.route)[n] \in Rule
         /\ Promised(c.route, n) = Rules(c.route)[n]
         /\ Promised(c.route, n).limit \in Nat \ {0} /\ Promised(c.route, n).ttl \in Nat \ {0}
<1>1. Windows[n] \in Rule
  BY LimitsAssumption DEF Throttlers
<1>2. \A h \in {"register", "refresh"} : AuthLimits[h] \in Rule
  BY LimitsAssumption
<1>3. DOMAIN AuthLimits = {"register", "refresh"}
  BY LimitsAssumption
<1>4. Rules(c.route)[n] \in Rule /\ Promised(c.route, n) = Rules(c.route)[n]
  BY <1>1, <1>2, <1>3 DEF Rules, Promised, Strict
<1> QED
  BY <1>4 DEF Rule

\* The decorators of OrdersController against the checks of OrdersService.
LEMMA OrderRoles ==
  ASSUME NEW route \in Routes, route.controller = "orders", NEW role \in Roles
  PROVE  /\ route.roles # {}
         /\ role \in route.roles <=> ServiceAdmits(route.handler, role)
<1> USE DEF Route, ServiceAdmits, Roles, Privileged
<1>1. CASE route \in OrderReads
  BY <1>1 DEF OrderReads
<1>2. CASE route \in OrderWrites
  BY <1>2 DEF OrderWrites
<1>3. CASE route \in OrderCreate
  BY <1>3 DEF OrderCreate
<1>4. route \in OrderReads \cup OrderWrites \cup OrderCreate
  BY DEF Routes, UserReads, UserWrites, UserEnds, AuditLists, AuditFigures, AuthRoutes,
         HealthRoutes, BotRoutes
<1> QED
  BY <1>1, <1>2, <1>3, <1>4

-----------------------------------------------------------------------------
(* The inductive invariant. *)

\* A request has an outcome when it has been through, and a time when it has come.
Stages ==
  \A r \in Requests :
    /\ pc[r] = "idle" => came[r] = None /\ counted[r] = 0
    /\ pc[r] # "idle" => came[r] \in 0..clock
    /\ pc[r] \in {"idle", "token", "handler"} => outcome[r] = None

\* Who was neither refused nor exempt has been counted by every throttler.
AllCounted ==
  \A r \in Requests :
    pc[r] # "idle" /\ outcome[r] # "limited" /\ ~ShouldSkip(call[r]) => counted[r] = Len(Windows)

\* The guard of the roles has been asked on the way to a handler.
Guarded ==
  \A r \in Requests :
    /\ outcome[r] = "forbidden" => call[r].claim \in Roles \ call[r].route.roles
    /\ pc[r] = "handler" =>
         call[r].route.roles = {} \/ call[r].claim \in call[r].route.roles \cap Roles

\* Of the requests of any caller in a window, no more than the limit have passed.
Same(c, d) == c.route = d.route /\ c.ip = d.ip /\ c.email = d.email
Within(c, n, from) ==
  {q \in Requests : /\ Same(call[q], c) /\ ~ShouldSkip(call[q]) /\ Passed(q, n)
                    /\ came[q] \in from .. from + Promised(c.route, n).ttl - 1}
Limited ==
  \A c \in Call, n \in Throttlers, from \in 0..MaxClock :
    Cardinality(Within(c, n, from)) <= Promised(c.route, n).limit

IndInv ==
  /\ TypeOK
  /\ Stages
  /\ AllCounted
  /\ Guarded
  /\ Limited

-----------------------------------------------------------------------------
(* Every step keeps the invariant. *)

LEMMA CountingFacts ==
  ASSUME NEW c \in Call, NEW n \in Throttlers
  PROVE  IsFiniteSet(Counting(c, n)) /\ Cardinality(Counting(c, n)) \in Nat
<1>1. Counting(c, n) \subseteq Requests
  BY DEF Counting
<1> QED
  BY <1>1, RequestsAssumption, FS_Subset, FS_CardinalityType

LEMMA WithinFacts ==
  ASSUME NEW c \in Call, NEW n \in Throttlers, NEW from \in 0..MaxClock
  PROVE  /\ Within(c, n, from) \subseteq Requests
         /\ IsFiniteSet(Within(c, n, from)) /\ Cardinality(Within(c, n, from)) \in Nat
<1>1. Within(c, n, from) \subseteq Requests
  BY DEF Within
<1> QED
  BY <1>1, RequestsAssumption, FS_Subset, FS_CardinalityType

\* Who is let by throttler n has no more than limit - 1 requests of their own in the
\* window that ends now, so none of the windows it is in is overdrawn.
LEMMA PassingKeepsLimits ==
  ASSUME IndInv, NEW r \in Requests, NEW c \in Call, NEW last \in Nat,
         pc[r] = "idle", Count(r, c, last),
         \A n \in Throttlers : ~ShouldSkip(c) /\ Passed(r, n)' => ~Exceeded(c, n),
         \A q \in Requests \ {r} : outcome'[q] = outcome[q]
  PROVE  Limited'
<1> SUFFICES ASSUME NEW d \in Call, NEW n \in Throttlers, NEW from \in 0..MaxClock
             PROVE  Cardinality(Within(d, n, from)') <= Promised(d.route, n).limit
  BY DEF Limited, Promised
<1>1. /\ clock' = clock /\ clock \in 0..MaxClock /\ MaxClock \in Nat
      /\ call'[r] = c /\ came'[r] = clock
      /\ \A q \in Requests \ {r} : /\ call'[q] = call[q] /\ came'[q] = came[q]
                                   /\ counted'[q] = counted[q]
  BY ClockAssumption DEF Count, IndInv, TypeOK
<1>2. \A q \in Requests \ {r} : q \in Within(d, n, from)' <=> q \in Within(d, n, from)
  BY <1>1 DEF Within, Passed, Promised, ShouldSkip
<1>3. r \notin Within(d, n, from)
  BY DEF Within, Passed, IndInv, Stages
<1>4. CASE r \notin Within(d, n, from)'
  <2>1. Within(d, n, from)' = Within(d, n, from)
    BY <1>2, <1>3, <1>4 DEF Within
  <2> QED
    BY <2>1 DEF IndInv, Limited
<1>5. CASE r \in Within(d, n, from)'
  <2>1. /\ Same(c, d) /\ ~ShouldSkip(c) /\ Passed(r, n)'
        /\ clock \in from .. from + Promised(d.route, n).ttl - 1
    BY <1>1, <1>5 DEF Within, Passed, Promised, ShouldSkip
  <2>2. ~Exceeded(c, n)
    BY <2>1
  <2>3. Promised(d.route, n) = Rules(c.route)[n] /\ Rules(c.route)[n] \in Rule
    BY <2>1, RulesAreRules DEF Same
  <2>4. Within(d, n, from) \subseteq Counting(c, n)
    <3> SUFFICES ASSUME NEW q \in Within(d, n, from)
                 PROVE  q \in Counting(c, n)
      OBVIOUS
    <3>1. /\ q \in Requests /\ Same(call[q], d) /\ ~ShouldSkip(call[q]) /\ Passed(q, n)
          /\ came[q] # None /\ came[q] \in from .. from + Promised(d.route, n).ttl - 1
      BY DEF Within, Passed
    <3>2. pc[q] # "idle" /\ came[q] \in 0..clock
      BY <3>1 DEF IndInv, Stages
    <3>3. n <= counted[q]
      <4>1. n \in 1..Len(Windows) /\ Len(Windows) \in Nat /\ counted[q] \in 0..Len(Windows)
        BY <3>1, LimitsAssumption DEF Throttlers, IndInv, TypeOK
      <4>2. CASE outcome[q] = "limited"
        BY <3>1, <4>1, <4>2 DEF Passed
      <4>3. CASE outcome[q] # "limited"
        BY <3>1, <3>2, <4>1, <4>3 DEF IndInv, AllCounted
      <4> QED
        BY <4>2, <4>3
    <3>4. clock - came[q] < Rules(c.route)[n].ttl
      BY <1>1, <2>1, <2>3, <3>1, <3>2 DEF Rule
    <3> QED
      BY <2>1, <3>1, <3>3, <3>4 DEF Counting, Tracker, Same
  <2>5. Within(d, n, from)' = Within(d, n, from) \cup {r}
    BY <1>2, <1>5 DEF Within
  <2>6. Cardinality(Within(d, n, from)') = Cardinality(Within(d, n, from)) + 1
    BY <1>3, <2>5, WithinFacts, FS_AddElement
  <2>7. Cardinality(Within(d, n, from)) <= Cardinality(Counting(c, n))
    BY <2>4, CountingFacts, FS_Subset
  <2>8. Cardinality(Counting(c, n)) + 1 <= Promised(d.route, n).limit
    <3>1. Cardinality(Counting(c, n)) \in Nat /\ Rules(c.route)[n].limit \in Nat
      BY <2>3, CountingFacts DEF Rule
    <3> QED
      BY <2>2, <2>3, <3>1 DEF Exceeded
  <2> QED
    BY <2>3, <2>6, <2>7, <2>8, WithinFacts, CountingFacts DEF Rule
<1> QED
  BY <1>4, <1>5

LEMMA EndingFacts ==
  /\ {"limited", "unauthorized", "forbidden", "error"} \subseteq Endings
  /\ None \notin Endings /\ None # "limited" /\ None # "forbidden"
  /\ \A t \in 0..MaxClock : t # None
BY ClockAssumption DEF Endings

\* A request arrives, and is let in or turned away.
LEMMA ArriveKeeps ==
  ASSUME IndInv, NEW r \in Requests, Arrive(r)
  PROVE  IndInv'
<1>1. PICK c \in Calls : LetIn(r, c) \/ TurnAway(r, c)
  BY DEF Arrive
<1>2. c \in Call
  BY CallsAssumption
<1>3. Len(Windows) \in Nat /\ Throttlers = 1..Len(Windows)
  BY LimitsAssumption DEF Throttlers
<1>4. PICK last \in 0..Len(Windows) :
        /\ Count(r, c, last)
        /\ \/ /\ Goto(r, "token") /\ UNCHANGED outcome
              /\ ~ShouldSkip(c) => last = Len(Windows) /\ \A n \in Throttlers : ~Exceeded(c, n)
           \/ /\ last \in Throttlers /\ \A n \in 1..(last - 1) : ~Exceeded(c, n)
              /\ Throw(r, c, "limited")
  <2>1. CASE LetIn(r, c)
    <3> DEFINE all == IF ShouldSkip(c) THEN 0 ELSE Len(Windows)
    <3>1. all \in 0..Len(Windows)
      BY <1>3
    <3>2. /\ Count(r, c, all) /\ Goto(r, "token") /\ UNCHANGED outcome
          /\ ~ShouldSkip(c) => all = Len(Windows) /\ \A n \in Throttlers : ~Exceeded(c, n)
      BY <2>1 DEF LetIn
    <3> HIDE DEF all
    <3> QED
      BY <3>1, <3>2
  <2>2. CASE TurnAway(r, c)
    BY <1>3, <2>2 DEF TurnAway
  <2> QED
    BY <1>1, <2>1, <2>2
<1>5. /\ pc[r] = "idle" /\ outcome[r] = None /\ clock' = clock /\ clock \in 0..MaxClock
      /\ call'[r] = c /\ came'[r] = clock /\ counted'[r] = last
      /\ \A q \in Requests \ {r} : /\ call'[q] = call[q] /\ came'[q] = came[q]
                                   /\ counted'[q] = counted[q]
      /\ call' \in [Requests -> Call]
      /\ came' \in [Requests -> 0..MaxClock \cup {None}]
      /\ counted' \in [Requests -> 0..Len(Windows)]
  BY <1>2, <1>4 DEF Count, IndInv, TypeOK, Stages
<1>6. /\ \A q \in Requests \ {r} : pc'[q] = pc[q] /\ outcome'[q] = outcome[q]
      /\ \/ /\ pc'[r] = "token" /\ outcome'[r] = None
            /\ ~ShouldSkip(c) => last = Len(Windows)
         \/ pc'[r] \in {"answered", "rethrown"} /\ outcome'[r] = "limited"
      /\ pc' \in [Requests -> {"idle", "token", "handler", "answered", "rethrown"}]
      /\ outcome' \in [Requests -> Endings \cup {None}]
  <2>1. End(c.route) \in {"answered", "rethrown"}
    BY DEF End
  <2>2. CASE Goto(r, "token") /\ UNCHANGED outcome /\ (~ShouldSkip(c) => last = Len(Windows))
    BY <1>5, <2>2 DEF Goto, IndInv, TypeOK
  <2>3. CASE Throw(r, c, "limited")
    BY <2>1, <2>3, EndingFacts DEF Throw, Goto, IndInv, TypeOK
  <2> QED
    BY <1>4, <2>2, <2>3
<1>7. TypeOK'
  BY <1>5, <1>6 DEF IndInv, TypeOK
<1>8. Stages'
  <2>1. clock \in 0..clock
    BY <1>5, ClockAssumption
  <2>2. /\ pc'[r] # "idle" /\ came'[r] \in 0..clock'
        /\ pc'[r] \in {"idle", "token", "handler"} => outcome'[r] = None
    BY <1>5, <1>6, <2>1
  <2>3. \A q \in Requests \ {r} :
          /\ pc'[q] = "idle" => came'[q] = None /\ counted'[q] = 0
          /\ pc'[q] # "idle" => came'[q] \in 0..clock'
          /\ pc'[q] \in {"idle", "token", "handler"} => outcome'[q] = None
    BY <1>5, <1>6 DEF IndInv, Stages
  <2> QED
    BY <2>2, <2>3 DEF Stages
<1>9. AllCounted'
  BY <1>5, <1>6, EndingFacts DEF IndInv, AllCounted, ShouldSkip
<1>10. Guarded'
  BY <1>5, <1>6, EndingFacts DEF IndInv, Guarded
<1>11. Limited'
  <2>1. ASSUME NEW n \in Throttlers, ~ShouldSkip(c), Passed(r, n)'
        PROVE  ~Exceeded(c, n)
    <3>1. CASE \A m \in Throttlers : ~Exceeded(c, m)
      BY <3>1
    <3>2. CASE /\ last \in Throttlers /\ \A m \in 1..(last - 1) : ~Exceeded(c, m)
               /\ Throw(r, c, "limited")
      <4>1. outcome'[r] = "limited"
        BY <3>2 DEF Throw, IndInv, TypeOK
      <4>2. n < last
        BY <1>5, <2>1, <4>1 DEF Passed
      <4> QED
        BY <1>3, <3>2, <4>2
    <3> QED
      BY <1>4, <2>1, <3>1, <3>2
  <2>2. /\ pc[r] = "idle" /\ c \in Call /\ last \in Nat /\ Count(r, c, last)
        /\ \A q \in Requests \ {r} : outcome'[q] = outcome[q]
    BY <1>2, <1>3, <1>4, <1>5, <1>6
  <2>3. \A n \in Throttlers : ~ShouldSkip(c) /\ Passed(r, n)' => ~Exceeded(c, n)
    BY <2>1
  <2> QED
    BY <2>2, <2>3, PassingKeepsLimits
<1> QED
  BY <1>7, <1>8, <1>9, <1>10, <1>11 DEF IndInv

\* A request that is past the throttlers changes nothing of what they go by.
LEMMA LimitsStay ==
  ASSUME IndInv, UNCHANGED <<call, came, counted>>,
         \A q \in Requests : outcome'[q] = "limited" <=> outcome[q] = "limited"
  PROVE  Limited'
<1>1. \A q \in Requests, n \in Throttlers : Passed(q, n)' <=> Passed(q, n)
  BY DEF Passed
<1>2. \A c \in Call, n \in Throttlers, from \in 0..MaxClock :
        Within(c, n, from)' = Within(c, n, from)
  BY <1>1 DEF Within, Promised, ShouldSkip
<1> QED
  BY <1>2 DEF IndInv, Limited, Promised

LEMMA AuthenticateKeeps ==
  ASSUME IndInv, NEW r \in Requests, Authenticate(r)
  PROVE  IndInv'
<1>1. /\ UNCHANGED <<clock, call, came, counted>> /\ pc[r] = "token" /\ call[r] \in Call
      /\ outcome[r] = None
  BY DEF Authenticate, IndInv, TypeOK, Stages
<1>2. End(call[r].route) \in {"answered", "rethrown"}
  BY DEF End
<1>3. /\ pc' \in [Requests -> {"idle", "token", "handler", "answered", "rethrown"}]
      /\ outcome' \in [Requests -> Endings \cup {None}]
      /\ \A q \in Requests \ {r} : pc'[q] = pc[q] /\ outcome'[q] = outcome[q]
      /\ \/ /\ pc'[r] = "handler" /\ outcome'[r] = None
            /\ call[r].route.roles = {} \/ call[r].claim \in call[r].route.roles \ {None}
         \/ /\ pc'[r] \in {"answered", "rethrown"}
            /\ \/ outcome'[r] \in {"unauthorized", "error"}
               \/ /\ outcome'[r] = "forbidden"
                  /\ call[r].claim \notin call[r].route.roles \cup {None}
  <2>1. CASE Goto(r, "handler") /\ UNCHANGED outcome
    BY <1>1, <2>1, EndingFacts DEF Authenticate, Goto, Throw, IndInv, TypeOK
  <2>2. ASSUME NEW what \in {"unauthorized", "error", "forbidden"}, Throw(r, call[r], what),
               what = "forbidden" => call[r].claim \notin call[r].route.roles \cup {None}
        PROVE  <1>3!:
    BY <1>2, <2>2, EndingFacts DEF Goto, Throw, IndInv, TypeOK
  <2> QED
    BY <1>1, <2>1, <2>2 DEF Authenticate
<1>4. call[r].claim \in Roles \cup {None}
  BY <1>1 DEF Call
<1>5. TypeOK' /\ Stages' /\ AllCounted' /\ Guarded'
  <2>1. TypeOK'
    BY <1>1, <1>3 DEF IndInv, TypeOK
  <2>2. Stages'
    BY <1>1, <1>3 DEF IndInv, Stages
  <2>3. AllCounted'
    BY <1>1, <1>3, EndingFacts DEF IndInv, AllCounted, ShouldSkip
  <2>4. Guarded'
    BY <1>1, <1>3, <1>4, EndingFacts DEF IndInv, Guarded
  <2> QED
    BY <2>1, <2>2, <2>3, <2>4
<1>6. Limited'
  BY <1>1, <1>3, EndingFacts, LimitsStay
<1> QED
  BY <1>5, <1>6 DEF IndInv

LEMMA WorkKeeps ==
  ASSUME IndInv, NEW r \in Requests, Work(r)
  PROVE  IndInv'
<1>1. /\ UNCHANGED <<clock, call, came, counted>> /\ pc[r] = "handler"
      /\ outcome[r] = None
  BY DEF Work, IndInv, TypeOK, Stages
<1>2. PICK what \in Endings \ {"limited", "forbidden"},
           label \in {"answered", "rethrown"} :
        outcome' = [outcome EXCEPT ![r] = what] /\ Goto(r, label)
  <2>1. End(call[r].route) \in {"answered", "rethrown"}
    BY DEF End
  <2> QED
    BY <2>1, OutcomesAssumption DEF Work, Return, Throw
<1>3. /\ pc' \in [Requests -> {"idle", "token", "handler", "answered", "rethrown"}]
      /\ outcome' \in [Requests -> Endings \cup {None}]
      /\ \A q \in Requests \ {r} : pc'[q] = pc[q] /\ outcome'[q] = outcome[q]
      /\ pc'[r] = label /\ outcome'[r] = what
  BY <1>2 DEF Goto, IndInv, TypeOK
<1>4. TypeOK' /\ Stages' /\ AllCounted' /\ Guarded'
  BY <1>1, <1>3, EndingFacts DEF IndInv, TypeOK, Stages, AllCounted, ShouldSkip, Guarded
<1>5. Limited'
  BY <1>1, <1>3, EndingFacts, LimitsStay
<1> QED
  BY <1>4, <1>5 DEF IndInv

LEMMA IdleStepKeeps ==
  ASSUME IndInv, Tick \/ UNCHANGED vars
  PROVE  IndInv'
<1>1. /\ UNCHANGED <<pc, call, came, counted, outcome>>
      /\ clock \in 0..MaxClock /\ clock' \in 0..MaxClock /\ clock <= clock'
  BY ClockAssumption DEF Tick, vars, IndInv, TypeOK
<1>2. TypeOK' /\ AllCounted' /\ Guarded'
  BY <1>1 DEF IndInv, TypeOK, AllCounted, ShouldSkip, Guarded
<1>3. Stages'
  BY <1>1, ClockAssumption DEF IndInv, Stages
<1>4. Limited'
  BY <1>1, LimitsStay
<1> QED
  BY <1>2, <1>3, <1>4 DEF IndInv

LEMMA InitIndInv == Init => IndInv
<1> SUFFICES ASSUME Init
             PROVE  IndInv
  OBVIOUS
<1>1. (CHOOSE c \in Calls : TRUE) \in Call
  BY CallsAssumption
<1>2. TypeOK
  <2>1. clock \in 0..MaxClock /\ 0 \in 0..Len(Windows)
    BY ClockAssumption, LimitsAssumption DEF Init
  <2> QED
    BY <1>1, <2>1 DEF Init, TypeOK
<1>3. Stages /\ AllCounted /\ Guarded
  BY EndingFacts DEF Init, Stages, AllCounted, Guarded
<1>4. Limited
  <2> SUFFICES ASSUME NEW c \in Call, NEW n \in Throttlers, NEW from \in 0..MaxClock
               PROVE  Cardinality(Within(c, n, from)) <= Promised(c.route, n).limit
    BY DEF Limited
  <2>1. Within(c, n, from) = {}
    BY DEF Init, Within, Passed
  <2> QED
    BY <2>1, RulesAreRules, FS_EmptySet
<1> QED
  BY <1>2, <1>3, <1>4 DEF IndInv

LEMMA NextIndInv == IndInv /\ [Next]_vars => IndInv'
BY ArriveKeeps, AuthenticateKeeps, WorkKeeps, IdleStepKeeps DEF Next, AllAnswered

-----------------------------------------------------------------------------
(* The theorems. *)

\* The invariant holds in every behaviour.
THEOREM Invariance == Spec => []IndInv
BY InitIndInv, NextIndInv, PTL DEF Spec

\* Every variable keeps its type.
THEOREM TypesHold == Spec => []TypeOK
<1>1. IndInv => TypeOK
  BY DEF IndInv
<1> QED
  BY <1>1, Invariance, PTL

\* Wherever a window of a rule's length begins, no more than its limit of requests
\* of one caller to one handler get past its throttler, those left out whose URL has
\* the name of a probe in it: the guard does not count them.
THEOREM WindowsHold == Spec => []LimitsHold
<1>1. IndInv => LimitsHold
  <2> SUFFICES ASSUME IndInv, NEW r \in Requests, NEW n \in Throttlers, NEW from \in 0..MaxClock
               PROVE  LET rule == Promised(call[r].route, n) IN
                      Cardinality({q \in Requests :
                         /\ call[q].route = call[r].route /\ Http(call[q].route) /\ ~call[q].probe
                         /\ call[q].ip = call[r].ip /\ call[q].email = call[r].email
                         /\ Passed(q, n)
                         /\ came[q] \in from .. from + rule.ttl - 1}) <= rule.limit
    BY DEF LimitsHold
  <2>1. call[r] \in Call
    BY DEF IndInv, TypeOK
  <2>2. Cardinality(Within(call[r], n, from)) <= Promised(call[r].route, n).limit
    BY <2>1 DEF IndInv, Limited
  <2>3. Within(call[r], n, from) = {q \in Requests :
                         /\ call[q].route = call[r].route /\ Http(call[q].route) /\ ~call[q].probe
                         /\ call[q].ip = call[r].ip /\ call[q].email = call[r].email
                         /\ Passed(q, n)
                         /\ came[q] \in from .. from + Promised(call[r].route, n).ttl - 1}
    BY DEF Within, Same, ShouldSkip
  <2> QED
    BY <2>2, <2>3
<1> QED
  BY <1>1, Invariance, PTL

\* On the routes of orders the guard and the service let in the same roles.
THEOREM GuardsMatchServices == Spec => []GuardAndServiceAgree
<1>1. IndInv => GuardAndServiceAgree
  <2> SUFFICES ASSUME IndInv, NEW r \in Requests, call[r].route.controller = "orders"
               PROVE  /\ outcome[r] = "forbidden" =>
                           ~ServiceAdmits(call[r].route.handler, call[r].claim)
                      /\ pc[r] = "handler" => ServiceAdmits(call[r].route.handler, call[r].claim)
    BY DEF GuardAndServiceAgree
  <2>1. call[r] \in Call
    BY DEF IndInv, TypeOK
  <2>2. call[r].route \in Routes
    BY <2>1 DEF Call
  <2>3. call[r].route.roles # {}
    BY <2>2, OrderRoles DEF Roles
  <2> QED
    BY <2>2, <2>3, OrderRoles DEF IndInv, Guarded
<1> QED
  BY <1>1, Invariance, PTL
===============================================================================
