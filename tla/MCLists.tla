------------------------------- MODULE MCLists -------------------------------
(* A small instance of Lists: rows and filters chosen so that each filter
   tells some rows from others. *)
EXTENDS Lists

Order(status, creator, assignee, hit, due) ==
  [status |-> status, creator |-> creator, assignee |-> assignee, hit |-> hit, due |-> due]
User(role, active, hit) == [role |-> role, active |-> active, hit |-> hit]
Entry(order, by, action) == [order |-> order, by |-> by, action |-> action]

SomeKinds == [
  orders |-> {Order("NEW", "mia", Any, TRUE, "soon"), Order("DONE", "mia", "wes", TRUE, "past"),
              Order("IN_PROGRESS", "wes", "tom", TRUE, "past")},
  users |-> {User("WORKER", TRUE, TRUE), User("WORKER", FALSE, FALSE), User("ADMIN", TRUE, FALSE)},
  logs |-> {Entry("o1", "mia", "ORDER_CREATED"), Entry("o2", "wes", "STATUS_CHANGED")}]

Ask(role, user) == [role |-> role, user |-> user, status |-> Any, creator |-> Any,
                    assignee |-> Any, unassigned |-> Any, search |-> FALSE, overdue |-> Any]
SomeQueries == [
  orders |-> {[Ask("WORKER", "wes") EXCEPT !.search = TRUE, !.overdue = "true"],
              [Ask("MANAGER", "mia") EXCEPT !.unassigned = "true", !.assignee = "wes"],
              [Ask("MANAGER", "mia") EXCEPT !.overdue = "true", !.status = "IN_PROGRESS"]},
  users |-> {[role |-> Any, active |-> Any, search |-> FALSE],
             [role |-> "WORKER", active |-> "false", search |-> TRUE]},
  logs |-> {[order |-> Any, by |-> Any, action |-> Any],
            [order |-> "o1", by |-> "mia", action |-> {"ORDER_CREATED", "ORDER_UPDATED"}]}]
===============================================================================
