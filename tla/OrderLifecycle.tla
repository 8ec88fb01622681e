--------------------------- MODULE OrderLifecycle ---------------------------
(***************************************************************************)
(* What the service promises about one order, with every request taken as  *)
(* a single step: the status machine of STATUS_TRANSITIONS, an assignee    *)
(* that freezes when the order is closed, and a row that is born once and  *)
(* removed at most once.  OrdersService implements it when no two requests *)
(* overlap, and the runs show what is left when they do.                   *)
(***************************************************************************)

CONSTANTS Orders, Users, Nobody

VARIABLES status,    \* status of each order, "ABSENT" before and after its row
          assignee,  \* who works on it, or Nobody
          born       \* the orders that ever had a row

vars == <<status, assignee, born>>

Statuses == {"NEW", "IN_PROGRESS", "DONE", "CANCELLED"}
Closed == {"DONE", "CANCELLED"}

\* STATUS_TRANSITIONS: where each status may lead.
Transitions ==
  [NEW         |-> {"IN_PROGRESS", "CANCELLED"},
   IN_PROGRESS |-> {"DONE", "CANCELLED"},
   DONE        |-> {},
   CANCELLED   |-> {}]

Open(o) == status[o] \in Statuses \ Closed

Init ==
  /\ status = [o \in Orders |-> "ABSENT"]
  /\ assignee = [o \in Orders |-> Nobody]
  /\ born = {}

Create(o) ==
  /\ o \notin born
  /\ born' = born \cup {o}
  /\ status' = [status EXCEPT ![o] = "NEW"]
  /\ \E u \in Users \cup {Nobody} : assignee' = [assignee EXCEPT ![o] = u]

Move(o) ==
  /\ status[o] \in Statuses
  /\ \E s \in Transitions[status[o]] : status' = [status EXCEPT ![o] = s]
  /\ UNCHANGED <<assignee, born>>

Reassign(o) ==
  /\ Open(o)
  /\ \E u \in Users \cup {Nobody} : assignee' = [assignee EXCEPT ![o] = u]
  /\ UNCHANGED <<status, born>>

Remove(o) ==
  /\ status[o] \in Statuses
  /\ status' = [status EXCEPT ![o] = "ABSENT"]
  /\ assignee' = [assignee EXCEPT ![o] = Nobody]
  /\ UNCHANGED born

Next == \E o \in Orders : Create(o) \/ Move(o) \/ Reassign(o) \/ Remove(o)

Spec == Init /\ [][Next]_vars
=============================================================================
