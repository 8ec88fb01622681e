---------------------------- MODULE OrderHistory ----------------------------
(***************************************************************************)
(* What is left of the lifecycle of an order when requests overlap in any  *)
(* way: a request may act on a status the order no longer has, but only on *)
(* one it had.  A row is still born once, as NEW, and once it is removed   *)
(* the order is gone for good.  OrdersService implements it, crashes and   *)
(* maintenance of the trail included; without overlaps it implements       *)
(* OrderLifecycle, where the status an order had is the one it has.        *)
(***************************************************************************)

CONSTANT Orders

VARIABLES status, \* status of each order, "ABSENT" before and after its row
          had     \* the statuses each order ever had

vars == <<status, had>>

\* STATUS_TRANSITIONS: where each status may lead.
Transitions ==
  [NEW         |-> {"IN_PROGRESS", "CANCELLED"},
   IN_PROGRESS |-> {"DONE", "CANCELLED"},
   DONE        |-> {},
   CANCELLED   |-> {}]

Init ==
  /\ status = [o \in Orders |-> "ABSENT"]
  /\ had = [o \in Orders |-> {}]

Become(o, s) ==
  /\ status' = [status EXCEPT ![o] = s]
  /\ had' = [had EXCEPT ![o] = @ \cup {s}]

Create(o) == had[o] = {} /\ Become(o, "NEW")

Move(o) ==
  /\ status[o] # "ABSENT"
  /\ \E before \in had[o] : \E s \in Transitions[before] : Become(o, s)

Remove(o) ==
  /\ status[o] # "ABSENT"
  /\ status' = [status EXCEPT ![o] = "ABSENT"]
  /\ UNCHANGED had

Next == \E o \in Orders : Create(o) \/ Move(o) \/ Remove(o)

Spec == Init /\ [][Next]_vars
=============================================================================
