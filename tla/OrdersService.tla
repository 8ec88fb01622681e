---------------------------- MODULE OrdersService ----------------------------
(***************************************************************************)
(* The write side of OrdersService (create, update, assign, changeStatus,  *)
(* cancel, remove) and the audit entry each of them leaves, as concurrent  *)
(* requests over one database.                                             *)
(*                                                                         *)
(* Every `await` on the database is a step of its own: none of these       *)
(* methods opens a transaction, so the order row a request decides on      *)
(* (Read), the row it changes (Write) and the entry it leaves (Audit) are  *)
(* three separate statements, between which any other request may run.    *)
(* A single Prisma call is atomic.                                         *)
(*                                                                         *)
(* A request is used once.  It carries the user and the role its caller    *)
(* presented: the role claim of the access token for HTTP, the role column *)
(* read at the start of the call for the Telegram bot.  Neither is read    *)
(* again.  The RolesGuard in front of the HTTP routes only refuses what    *)
(* the service refuses as well, so it is not repeated here.                *)
(***************************************************************************)
EXTENDS Integers, Sequences, FiniteSets

CONSTANTS
  Users,     \* accounts; users are deactivated, never deleted
  Orders,    \* order ids (UUIDs)
  Requests,  \* every call the server will ever receive
  Calls,     \* the calls a request may make, a subset of Call
  Blockable, \* the users an admin may block and unblock
  Nobody,    \* null in assignedToId
  Omitted,   \* assignedToId left out of the body of assign, undefined in the code
  NoRequest  \* the value of `edit` in a row that is not there

Statuses == {"NEW", "IN_PROGRESS", "DONE", "CANCELLED"}
\* Fault: a cancelled order may be reassigned.
OnlyDone == {"DONE"}
Closed == {"DONE", "CANCELLED"}
Roles == {"ADMIN", "MANAGER", "WORKER"}
Privileged == {"ADMIN", "MANAGER"}

\* Fault: an order may be completed without being started.
ShortTransitions ==
  [NEW         |-> {"IN_PROGRESS", "DONE", "CANCELLED"},
   IN_PROGRESS |-> {"DONE", "CANCELLED"},
   DONE        |-> {},
   CANCELLED   |-> {}]

\* STATUS_TRANSITIONS.
Transitions ==
  [NEW         |-> {"IN_PROGRESS", "CANCELLED"},
   IN_PROGRESS |-> {"DONE", "CANCELLED"},
   DONE        |-> {},
   CANCELLED   |-> {}]

\* A call of the service.  `assignee` is dto.assignedToId of create and
\* assign, `status` is dto.status of changeStatus.
Call == [op : {"create", "update", "assign", "status", "cancel", "remove"},
         order : Orders, user : Users, role : Roles,
         assignee : Users \cup {Nobody, Omitted}, status : Statuses]

ASSUME CallsAssumption == Calls \subseteq Call /\ Calls # {}
ASSUME BlockableAssumption == Blockable \subseteq Users
ASSUME NullAssumption ==
  {Nobody, Omitted} \cap Users = {} /\ Nobody # Omitted /\ NoRequest \notin Requests

(***************************************************************************)
(* A row of `orders`.  `edit` stands for title, description, priority and  *)
(* deadline: the request that wrote them last.  `ver` counts the writes    *)
(* the row has had (its updated_at, with no two writes at the same time).  *)
(***************************************************************************)
NoRow == [status |-> "ABSENT", assignee |-> Nobody, creator |-> Nobody,
          edit |-> NoRequest, ver |-> 0]

LiveRow == [status : Statuses, assignee : Users \cup {Nobody}, creator : Users,
            edit : Requests, ver : Nat \ {0}]
Row == LiveRow \cup {NoRow}

VARIABLES
  orders,  \* table orders
  log,     \* table order_audit_logs, in insertion order
  active,  \* users.is_active
  pc,      \* where each request is
  call,    \* what it was asked to do
  snap,    \* the row its findOne returned
  wrote    \* history: the row its write replaced and the row it left

vars == <<orders, log, active, pc, call, snap, wrote>>

Live(o) == orders[o].status \in Statuses
InFlight(r) == pc[r] \in {"read", "validate", "write", "audit"}
Finished(r) == pc[r] \in {"ok", "refused", "failed"}

\* The values an audit entry may record, of the column its action is about.
Recordable == Statuses \cup {"ABSENT"} \cup Users \cup {Nobody, Omitted}
                \cup Requests \cup {NoRequest}
Entry == [by : Requests, order : Orders,
          action : {"ORDER_CREATED", "ORDER_UPDATED", "ASSIGNED", "UNASSIGNED",
                    "STATUS_CHANGED", "ORDER_CANCELLED"},
          old : Recordable, new : Recordable]

TypeOK ==
  /\ orders \in [Orders -> Row]
  /\ log \in Seq(Entry)
  /\ active \in [Users -> BOOLEAN]
  /\ pc \in [Requests -> {"idle", "read", "validate", "write", "audit",
                          "ok", "refused", "failed"}]
  /\ call \in [Requests -> Call]
  /\ snap \in [Requests -> Row]
  /\ wrote \in [Requests -> [from : Row, to : Row]]

Init ==
  /\ orders = [o \in Orders |-> NoRow]
  /\ log = <<>>
  /\ active = [u \in Users |-> TRUE]
  /\ pc = [r \in Requests |-> "idle"]
  /\ call \in [Requests -> {CHOOSE c \in Calls : TRUE}]
  /\ snap = [r \in Requests |-> NoRow]
  /\ wrote = [r \in Requests |-> [from |-> NoRow, to |-> NoRow]]

-----------------------------------------------------------------------------
(* The checks of the service. *)

\* checkAccessPermission.
MayView(c, row) ==
  \/ c.role \in Privileged
  \/ row.creator = c.user
  \/ row.assignee = c.user

\* The checks between findOne and the write, per method.
MayDo(c, row) ==
  \/ /\ c.op = "update"
     /\ c.role \in Privileged \/ row.creator = c.user
     /\ row.status \notin Closed
  \/ /\ c.op = "assign"
     /\ c.role \in Privileged
     /\ row.status \notin Closed
  \/ /\ c.op = "status"
     /\ c.status \in Transitions[row.status]
     /\ \/ c.status \notin {"IN_PROGRESS", "DONE"}
        \/ row.assignee = c.user
        \/ c.role \in Privileged
  \/ /\ c.op = "cancel"
     /\ c.role \in Privileged \/ row.creator = c.user
     /\ "CANCELLED" \in Transitions[row.status]
  \/ /\ c.op = "remove"
     /\ c.role = "ADMIN"

\* Everything a row has to satisfy for a call to change it.
Permitted(c, row) ==
  /\ row.status \in Statuses
  /\ MayView(c, row)
  /\ MayDo(c, row)

\* The role checks made before the database is asked for anything.
MayEnter(c) ==
  CASE c.op = "create" -> c.role \in Privileged
    [] c.op = "remove" -> c.role = "ADMIN"
    [] OTHER -> TRUE

\* validateAssignee runs when assignedToId names somebody.
NeedsAssigneeCheck(c) == c.op \in {"create", "assign"} /\ c.assignee \in Users

\* Only create does not start from a row.
BeforeWrite(c) == IF NeedsAssigneeCheck(c) THEN "validate" ELSE "write"
FirstStep(c) == IF c.op = "create" THEN BeforeWrite(c) ELSE "read"

\* Prisma stamps updated_at on every update.
Stamped(row) == [row EXCEPT !.ver = @ + 1]

\* Prisma leaves a column alone that is undefined in `data`.
Given(value, otherwise) == IF value = Omitted THEN otherwise ELSE value

\* The `data` each method hands to the database.
NewRow(c, r, row) ==
  CASE c.op = "create" -> [status |-> "NEW", assignee |-> Given(c.assignee, Nobody),
                           creator |-> c.user, edit |-> r, ver |-> 1]
    [] c.op = "update" -> [Stamped(row) EXCEPT !.edit = r]
    [] c.op = "assign" -> [Stamped(row) EXCEPT !.assignee = Given(c.assignee, row.assignee)]
    [] c.op = "status" -> [Stamped(row) EXCEPT !.status = c.status]
    [] c.op = "cancel" -> [Stamped(row) EXCEPT !.status = "CANCELLED"]
    [] c.op = "remove" -> NoRow

AuditAction(c) ==
  CASE c.op = "create" -> "ORDER_CREATED"
    [] c.op = "update" -> "ORDER_UPDATED"
    [] c.op = "assign" -> IF c.assignee \in Users THEN "ASSIGNED" ELSE "UNASSIGNED"
    [] c.op = "status" -> "STATUS_CHANGED"
    [] c.op = "cancel" -> "ORDER_CANCELLED"

\* The part of a row that the entry of a call records.
Recorded(c, row) ==
  CASE c.op = "update" -> row.edit
    [] c.op = "assign" -> row.assignee
    [] OTHER -> row.status

\* order_audit_logs has rows that reference the order.
HasEntries(o) == \E i \in 1..Len(log) : log[i].order = o

-----------------------------------------------------------------------------
(* The steps of a request. *)

Goto(r, label) == pc' = [pc EXCEPT ![r] = label]

\* The id Prisma generates for a new order is nobody else's.
Unused(o) ==
  \A q \in Requests : pc[q] # "idle" => ~(call[q].op = "create" /\ call[q].order = o)

\* The caller is authenticated (JwtAccessStrategy.validate, or the bot's
\* getOrCreateUser): a deactivated account is turned away.  Then the method is
\* entered, up to its first database call.
Begin(r) ==
  /\ pc[r] = "idle"
  /\ \E c \in Calls :
       /\ c.op = "create" => Unused(c.order)
       /\ call' = [call EXCEPT ![r] = c]
       /\ Goto(r, IF active[c.user] /\ MayEnter(c) THEN FirstStep(c) ELSE "refused")
  /\ UNCHANGED <<orders, log, active, snap, wrote>>

\* Fault: the row is only looked up, not checked.
ReadUnchecked(r) ==
  LET row == orders[call[r].order] IN
  /\ pc[r] = "read"
  /\ IF row.status \in Statuses
     THEN snap' = [snap EXCEPT ![r] = row] /\ Goto(r, BeforeWrite(call[r]))
     ELSE Goto(r, "refused") /\ UNCHANGED snap
  /\ UNCHANGED <<orders, log, active, call, wrote>>

\* findOne and the checks made on what it returned.
Read(r) ==
  LET row == orders[call[r].order] IN
  /\ pc[r] = "read"
  /\ IF Permitted(call[r], row)
     THEN /\ snap' = [snap EXCEPT ![r] = row]
          /\ Goto(r, BeforeWrite(call[r]))
     ELSE Goto(r, "refused") /\ UNCHANGED snap
  /\ UNCHANGED <<orders, log, active, call, wrote>>

\* Fault: any assignee will do.
ValidateAnyone(r) ==
  /\ pc[r] = "validate"
  /\ Goto(r, "write")
  /\ UNCHANGED <<orders, log, active, call, snap, wrote>>

\* validateAssignee.  It refuses an id of nobody as it refuses one of a user who is
\* not active, so it is a user who never is.
Validate(r) ==
  /\ pc[r] = "validate"
  /\ Goto(r, IF active[call[r].assignee] THEN "write" ELSE "refused")
  /\ UNCHANGED <<orders, log, active, call, snap, wrote>>

\* Fault: a foreign key that does not restrict.
AcceptedUnrestricted(c) == c.op # "create" => Live(c.order)

\* Whether the database accepts the write: an update or a delete needs its row
\* (P2025), a delete is restricted by the audit entries that point at the row
\* (P2003).
Accepted(c) ==
  /\ c.op # "create" => Live(c.order)
  /\ c.op = "remove" => ~HasEntries(c.order)

\* prisma.orders.create, update or delete.  The update is keyed by id alone:
\* it overwrites whatever row is there now.
Write(r) ==
  LET c == call[r]
      row == orders[c.order] IN
  /\ pc[r] = "write"
  /\ IF Accepted(c)
     THEN /\ orders' = [orders EXCEPT ![c.order] = NewRow(c, r, row)]
          /\ wrote' = [wrote EXCEPT ![r] = [from |-> row, to |-> NewRow(c, r, row)]]
          /\ Goto(r, IF c.op = "remove" THEN "ok" ELSE "audit")
     ELSE Goto(r, "failed") /\ UNCHANGED <<orders, wrote>>
  /\ UNCHANGED <<log, active, call, snap>>

\* newValue: assign records dto.assignedToId, the others what was written.
\* (ORDER_CANCELLED also records the reason the caller gave.)
NewValue(c, row) == IF c.op = "assign" THEN c.assignee ELSE Recorded(c, row)

\* The entry a request leaves, with what it recorded of the row before and after.
EntryOf(r, before, after) ==
  [by |-> r, order |-> call[r].order, action |-> AuditAction(call[r]),
   old |-> Recorded(call[r], before), new |-> NewValue(call[r], after)]

\* Faults: old and new value are swapped; the old value is taken from what the update
\* returned; cancel leaves no entry.
AuditSwapped(r) ==
  /\ pc[r] = "audit"
  /\ log' = Append(log, EntryOf(r, wrote[r].to, snap[r]))
  /\ Goto(r, "ok")
  /\ UNCHANGED <<orders, active, call, snap, wrote>>
AuditOfUpdated(r) ==
  /\ pc[r] = "audit"
  /\ log' = Append(log, EntryOf(r, wrote[r].to, wrote[r].to))
  /\ Goto(r, "ok")
  /\ UNCHANGED <<orders, active, call, snap, wrote>>
AuditExceptCancel(r) ==
  /\ pc[r] = "audit"
  /\ log' = IF call[r].op = "cancel" THEN log ELSE Append(log, EntryOf(r, snap[r], wrote[r].to))
  /\ Goto(r, "ok")
  /\ UNCHANGED <<orders, active, call, snap, wrote>>

\* createAuditLog.  The old value is what findOne returned (null for create).
\* The insert fails when its order is gone.
Audit(r) ==
  /\ pc[r] = "audit"
  /\ IF Live(call[r].order)
     THEN /\ log' = Append(log, EntryOf(r, snap[r], wrote[r].to))
          /\ Goto(r, "ok")
     ELSE Goto(r, "failed") /\ UNCHANGED log
  /\ UNCHANGED <<orders, active, call, snap, wrote>>

\* What Node.js does by itself once a request has been accepted.
Proceed(r) == Read(r) \/ Validate(r) \/ Write(r) \/ Audit(r)
Handle(r) == Begin(r) \/ Proceed(r)

\* The process stops, or a database call throws, before the next statement.
Abort(r) ==
  /\ InFlight(r)
  /\ Goto(r, "failed")
  /\ UNCHANGED <<orders, log, active, call, snap, wrote>>

\* toggleActive and softDeleteUser, as far as this service sees them.
SetActive(u) ==
  /\ active' = [active EXCEPT ![u] = ~@]
  /\ UNCHANGED <<orders, log, pc, call, snap, wrote>>

\* AuditsService.cleanupOldLogs: the entries created before a cutoff.
Cleanup ==
  /\ \E k \in 1..Len(log) : log' = SubSeq(log, k + 1, Len(log))
  /\ UNCHANGED <<orders, active, pc, call, snap, wrote>>

\* Every request has been answered and no other will arrive.
AllAnswered == (\A r \in Requests : Finished(r)) /\ UNCHANGED vars

CalmNext ==
  \/ \E r \in Requests : Handle(r)
  \/ \E u \in Blockable : SetActive(u)
  \/ AllAnswered

Next ==
  \/ CalmNext
  \/ \E r \in Requests : Abort(r)
  \/ Cleanup

Spec == Init /\ [][Next]_vars

-----------------------------------------------------------------------------
(* Restrictions of Spec, each for a question asked below. *)

\* No crash, no failing database call, no maintenance run; a request that was
\* accepted is carried on.
CalmSpec == Init /\ [][CalmNext]_vars /\ \A r \in Requests : WF_vars(Proceed(r))

\* No two requests, and no request and a change of is_active, overlap.
Idle == \A r \in Requests : ~InFlight(r)
OneAtATime == \A q, r \in Requests : InFlight(q) /\ InFlight(r) => q = r
Serially == OneAtATime' /\ (active' # active => Idle)
SerialSpec == Init /\ [][Next /\ Serially]_vars
SerialCalmSpec == Init /\ [][CalmNext /\ Serially]_vars

-----------------------------------------------------------------------------
(* What holds whatever the requests do to each other. *)

Committed(r) == wrote[r].from # wrote[r].to
Logged(r) == \E i \in 1..Len(log) : log[i].by = r

\* Another request changed the order of r after r had read it, and r replaced
\* the row that one left.
Overtaken(r) ==
  \E q \in Requests \ {r} :
    /\ call[q].order = call[r].order
    /\ wrote[q].to = wrote[r].from
    /\ wrote[q].from.ver >= snap[r].ver

\* A write that the checks of its method would not have let through on the row
\* it really replaced (an illegal transition, a change to a closed order, a
\* worker acting on an order that is no longer theirs) is always the work of two
\* requests that overlapped: no sequence of calls, crashes and retries gets one
\* past the checks of update, assign, changeStatus and cancel without a race.
GuardedOrOvertaken ==
  \A r \in Requests :
    Committed(r) /\ call[r].op # "create" /\ ~Permitted(call[r], wrote[r].from)
      => Overtaken(r)

\* However changeStatus calls race, an order is DONE only if some changeStatus
\* call moved it to IN_PROGRESS before: no work is completed that nobody started.
DoneWasStarted ==
  \A o \in Orders :
    orders[o].status = "DONE" =>
      \E q \in Requests : /\ Committed(q)
                          /\ call[q].order = o
                          /\ call[q].op = "status"
                          /\ call[q].status = "IN_PROGRESS"

\* An audit entry never outlives its order: whatever deletes and late audit
\* inserts do, the foreign key of order_audit_logs and the delete of `remove`
\* leave no entry that points nowhere.
NoOrphanEntries == \A i \in 1..Len(log) : Live(log[i].order)

\* The old value of an entry is the value the write replaced, or else the
\* request was overtaken: a wrong oldValue needs two overlapping requests.
OldValueOrOvertaken ==
  \A i \in 1..Len(log) :
    LET r == log[i].by IN
    log[i].old # Recorded(call[r], wrote[r].from) => Overtaken(r)

\* However requests overlap, each status an order takes is one that STATUS_TRANSITIONS
\* allows after a status it had, if not after the one it has; an order is created
\* once, as NEW, and a removed one never comes back, whatever was under way for it.
History ==
  INSTANCE OrderHistory WITH
    status <- [o \in Orders |-> orders[o].status],
    had <- [o \in Orders |-> {wrote[q].to.status :
              q \in {r \in Requests : call[r].order = o /\ Committed(r)}} \ {"ABSENT"}]
ImplementsHistory == History!Spec

-----------------------------------------------------------------------------
(* What holds while nothing fails. *)

\* Every change finds its way to the trail, or loses its order.
EveryChangeReachesTheTrail ==
  \A r \in Requests :
    (Committed(r) /\ call[r].op # "remove") ~> (Logged(r) \/ ~Live(call[r].order))

-----------------------------------------------------------------------------
(* What holds while requests do not overlap. *)

\* The status machine, the freeze of closed orders and the single life of a row.
Lifecycle ==
  INSTANCE OrderLifecycle WITH
    status <- [o \in Orders |-> orders[o].status],
    assignee <- [o \in Orders |-> orders[o].assignee],
    born <- {o \in Orders : \E q \in Requests :
               call[q].op = "create" /\ call[q].order = o /\ Committed(q)}
ImplementsLifecycle == Lifecycle!Spec

\* The entries that tell the status of an order.
StatusOp(c) == c.op \in {"create", "status", "cancel"}
StatusEntry(i, o) ==
  /\ log[i].order = o
  /\ log[i].action \in {"ORDER_CREATED", "STATUS_CHANGED", "ORDER_CANCELLED"}
LastStatus(i, o) == StatusEntry(i, o) /\ \A j \in i+1..Len(log) : ~StatusEntry(j, o)
Before(i, j, o) ==
  /\ i < j /\ StatusEntry(i, o) /\ StatusEntry(j, o)
  /\ \A m \in i+1..j-1 : ~StatusEntry(m, o)

\* A request that changed the status of an order was stopped before it left its entry.
CutShort(o) ==
  \E r \in Requests :
    pc[r] = "failed" /\ Committed(r) /\ StatusOp(call[r]) /\ call[r].order = o

\* The trail ends where the order is: with nothing in flight, the newest status in
\* the trail of an order is its status, unless a request was stopped right between
\* the update of that order and its entry.  No other failure leads the trail astray.
TrailEndsAtStatus ==
  Idle => \A o \in Orders, i \in 1..Len(log) :
            LastStatus(i, o) => CutShort(o) \/ log[i].new = orders[o].status

\* The trail can be replayed: each status entry of an order starts from the status
\* that the one before it led to, wherever cleanups cut it.  A gap is the work of a
\* request that was stopped between its update and its entry.
TrailIsLinked ==
  \A o \in Orders, i, j \in 1..Len(log) :
    Before(i, j, o) => CutShort(o) \/ log[j].old = log[i].new

\* Nobody is given an order while deactivated, by create or by assign
\* (orders.service.ts:478, "A deactivated user cannot be assigned").
AssignedWhileActive ==
  [][\A o \in Orders :
       orders'[o].assignee \in Users /\ orders'[o].assignee # orders[o].assignee
         => active[orders'[o].assignee]]_vars

-----------------------------------------------------------------------------
(* What the documentation says, and the code does not do. *)

\* README.md:388 and orders.service.ts:408, "Deletes an order. Admin only.": an
\* admin's delete of an order that is there does not end in a database error.
AdminCanDelete ==
  \A r \in Requests :
    call[r].op = "remove" /\ Finished(r) /\ Live(call[r].order) => pc[r] # "failed"

\* README.md:764, "`UNASSIGNED` | The assignee was removed".
UnassignedMeansRemoved ==
  \A i \in 1..Len(log) :
    log[i].action = "UNASSIGNED" => wrote[log[i].by].to.assignee = Nobody
=============================================================================
