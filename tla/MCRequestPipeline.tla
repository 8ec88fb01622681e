-------------------------- MODULE MCRequestPipeline --------------------------
(* A small instance of RequestPipeline: calls of each kind, and limits scaled
   down to what three requests can reach. *)
EXTENDS RequestPipeline, TLC

CONSTANTS r1, r2, r3, home, office, ann, bob

The(controller, handler) ==
  CHOOSE route \in Routes : route.controller = controller /\ route.handler = handler
Req(route, ip, email, claim) ==
  [route |-> route, ip |-> ip, email |-> email, claim |-> claim,
   probe |-> route.controller = "health"]

SomeCalls ==
  {Req(The("auth", "login"), office, ann, None), Req(The("auth", "login"), office, bob, None),
   Req(The("auth", "refresh"), home, None, None),
   Req(The("orders", "assign"), home, None, "MANAGER"),
   Req(The("orders", "create"), home, None, "WORKER"),
   [Req(The("orders", "assign"), home, None, "MANAGER") EXCEPT !.probe = TRUE],
   Req(The("health", "check"), home, None, None), Req(The("bot", "update"), home, None, None)}

\* Two windows: a short one and a long one.
SomeWindows == <<[ttl |-> 1, limit |-> 1], [ttl |-> 3, limit |-> 2]>>
SomeLimits == [register |-> [ttl |-> 3, limit |-> 1], refresh |-> [ttl |-> 2, limit |-> 1]]

Symmetry == Permutations(Requests)
===============================================================================
