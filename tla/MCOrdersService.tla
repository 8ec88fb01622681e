--------------------------- MODULE MCOrdersService ---------------------------
(***************************************************************************)
(* Small instances of OrdersService: one order, an admin, its creator, and *)
(* two workers.  The creator presents a MANAGER token or, after a          *)
(* demotion, a WORKER one.                                                 *)
(***************************************************************************)
EXTENDS OrdersService, TLC

CONSTANTS o1, adm, crea, wrk, oth, r1, r2, r3, r4

MCUsers == {adm, crea, wrk, oth}
MCOrders == {o1}
FourRequests == {r1, r2, r3, r4}
ThreeRequests == {r1, r2, r3}
Symmetry == Permutations(Requests)

By(op, user, role, assignee, status) ==
  [op |-> op, order |-> o1, user |-> user, role |-> role,
   assignee |-> assignee, status |-> status]

Create == By("create", crea, "MANAGER", wrk, "NEW")
CreateUnassigned == By("create", crea, "MANAGER", Nobody, "NEW")
Edit == By("update", crea, "WORKER", Nobody, "NEW")
Hand(u) == By("assign", adm, "ADMIN", u, "NEW")
Start(u) == By("status", u, "WORKER", Nobody, "IN_PROGRESS")
Complete(u) == By("status", u, "WORKER", Nobody, "DONE")
Drop(u) == By("status", u, "WORKER", Nobody, "CANCELLED")
Cancel == By("cancel", crea, "WORKER", Nobody, "NEW")
Delete == By("remove", adm, "ADMIN", Nobody, "NEW")

\* Every method, by everyone who may use it, and two calls that are refused.
AllCalls ==
  {Create, CreateUnassigned, Edit, Hand(oth), Hand(Nobody), Hand(Omitted), Start(wrk), Start(oth),
   Complete(wrk), Drop(wrk), Cancel, Delete,
   By("create", wrk, "WORKER", Nobody, "NEW"), By("remove", crea, "MANAGER", Nobody, "NEW")}

\* The life of an order, and what may collide with its end.
LifeCalls ==
  {Create, Start(wrk), Complete(wrk), Drop(wrk), Cancel, Hand(oth), Edit, Delete}

\* The users whose is_active changes.
NoBlocks == {}
OneBlock == {oth}
==============================================================================
