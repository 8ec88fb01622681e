------------------------- MODULE OrdersServiceProofs -------------------------
(***************************************************************************)
(* Machine-checked proofs about OrdersService, for any number of users,    *)
(* orders and requests and any set of calls, crashes included.             *)
(***************************************************************************)
EXTENDS OrdersService, TLAPS

-----------------------------------------------------------------------------
(* The inductive invariant. *)

PastWrite(r) == pc[r] \in {"audit", "ok", "failed"}
NoWrite == [from |-> NoRow, to |-> NoRow]

\* A request that has not reached its write has changed nothing; one whose
\* entry is due has.
WritesInOrder ==
  \A r \in Requests :
    /\ ~PastWrite(r) => wrote[r] = NoWrite
    /\ pc[r] = "audit" => Committed(r) /\ call[r].op # "remove"
    /\ pc[r] \in {"idle", "read"} => snap[r] = NoRow
    /\ call[r].op = "create" /\ pc[r] # "idle" => pc[r] # "read" /\ snap[r] = NoRow

\* An id is generated once.
CreateOnce ==
  \A p, q \in Requests :
    /\ pc[p] # "idle" /\ call[p].op = "create"
    /\ pc[q] # "idle" /\ call[q].op = "create"
    /\ call[p].order = call[q].order
    => p = q

\* The create that was given this id is done with its write.
Born(o) ==
  \E q \in Requests : call[q].op = "create" /\ call[q].order = o /\ PastWrite(q)

\* Nobody has seen or left a row of an order before its create wrote it.
NothingUnborn ==
  /\ \A o \in Orders : orders[o] # NoRow => Born(o)
  /\ \A r \in Requests : snap[r] # NoRow => Born(call[r].order)

\* The request that left the row an order has now.
LastWriter(q, o) ==
  /\ pc[q] # "idle"
  /\ call[q].order = o
  /\ wrote[q].to = orders[o]
  /\ wrote[q].from.ver = orders[o].ver - 1
RowsHaveWriters == \A o \in Orders : Live(o) => \E q \in Requests : LastWriter(q, o)

\* What a request decided on was a row that let it through, no newer than the
\* one there now, and the same one if it is as new.
Decided(r) == pc[r] \in {"validate", "write"} \/ Committed(r)
DecidedOnARow ==
  \A r \in Requests :
    Decided(r) /\ call[r].op # "create" =>
      /\ snap[r] \in LiveRow
      /\ Permitted(call[r], snap[r])
SnapshotsAge ==
  \A r \in Requests :
    LET row == orders[call[r].order] IN
    snap[r] # NoRow /\ row # NoRow =>
      /\ snap[r].ver <= row.ver
      /\ snap[r].ver = row.ver => snap[r] = row

\* A write replaced the row it was decided on, or was overtaken.
WritesOnSnapshot ==
  \A r \in Requests :
    Committed(r) => \/ wrote[r].from = snap[r]
                    \/ wrote[r].from # NoRow /\ Overtaken(r)

\* Entries are left by requests that wrote, about what they decided on.
EntriesOfWriters ==
  \A i \in 1..Len(log) :
    /\ Committed(log[i].by)
    /\ log[i].old = Recorded(call[log[i].by], snap[log[i].by])

\* Somebody moved the order to IN_PROGRESS.
WasStarted(o) ==
  \E q \in Requests : /\ Committed(q)
                      /\ call[q].order = o
                      /\ call[q].op = "status"
                      /\ call[q].status = "IN_PROGRESS"
StartedBeforeSeen ==
  /\ \A o \in Orders : orders[o].status \in {"IN_PROGRESS", "DONE"} => WasStarted(o)
  /\ \A r \in Requests :
       snap[r].status \in {"IN_PROGRESS", "DONE"} => WasStarted(call[r].order)

IndInv ==
  /\ TypeOK
  /\ WritesInOrder
  /\ CreateOnce
  /\ NothingUnborn
  /\ RowsHaveWriters
  /\ DecidedOnARow
  /\ SnapshotsAge
  /\ WritesOnSnapshot
  /\ EntriesOfWriters
  /\ NoOrphanEntries
  /\ StartedBeforeSeen

-----------------------------------------------------------------------------
(* Types. *)

\* A row that is not NoRow is a row of the table.
LEMMA RowCases ==
  ASSUME NEW row \in Row
  PROVE  /\ row # NoRow => row \in LiveRow
         /\ row.status \in Statuses <=> row # NoRow
         /\ row.ver \in Nat
BY DEF Row, LiveRow, NoRow, Statuses

LEMMA NoRowType == NoRow \in Row
BY DEF Row

LEMMA CallType == ASSUME NEW c \in Calls PROVE c \in Call
BY CallsAssumption

LEMMA StampedType ==
  ASSUME NEW row \in LiveRow
  PROVE  Stamped(row) \in LiveRow /\ Stamped(row).ver = row.ver + 1
BY DEF Stamped, LiveRow

LEMMA LogEntryType ==
  ASSUME TypeOK, NEW i \in 1..Len(log)
  PROVE  log[i].by \in Requests /\ log[i].order \in Orders
<1>1. log[i] \in Entry
  BY DEF TypeOK
<1> QED
  BY <1>1 DEF Entry

LEMMA GivenType ==
  ASSUME NEW c \in Call, NEW other \in Users \cup {Nobody}
  PROVE  Given(c.assignee, other) \in Users \cup {Nobody}
BY DEF Given, Call

\* What each method writes is a row, newer than the one it replaces.
LEMMA NewRowType ==
  ASSUME NEW r \in Requests, NEW c \in Call, NEW row \in Row,
         c.op # "create" => row \in LiveRow
  PROVE  /\ NewRow(c, r, row) \in Row
         /\ c.op # "remove" => NewRow(c, r, row) \in LiveRow
         /\ c.op \notin {"create", "remove"} => NewRow(c, r, row).ver = row.ver + 1
         /\ c.op = "create" => NewRow(c, r, row).ver = 1
         /\ c.op = "remove" => NewRow(c, r, row) = NoRow
<1>0. /\ c.op \in {"create", "update", "assign", "status", "cancel", "remove"}
      /\ c.user \in Users /\ c.status \in Statuses
  BY DEF Call
<1>1. CASE c.op = "create"
  <2>1. PICK u \in Users \cup {Nobody} :
          NewRow(c, r, row) = [status |-> "NEW", assignee |-> u,
                               creator |-> c.user, edit |-> r, ver |-> 1]
    BY <1>1, GivenType DEF NewRow
  <2> QED
    BY <1>0, <1>1, <2>1 DEF Row, LiveRow, Statuses
<1>2. CASE c.op = "remove"
  BY <1>0, <1>2 DEF NewRow, Row
<1>3. CASE c.op = "update"
  <2>1. NewRow(c, r, row) = [Stamped(row) EXCEPT !.edit = r]
    BY <1>3 DEF NewRow
  <2>2. row \in LiveRow
    BY <1>3
  <2>3. NewRow(c, r, row) \in LiveRow /\ NewRow(c, r, row).ver = row.ver + 1
    BY <1>0, <2>1, <2>2, StampedType DEF LiveRow
  <2> QED
    BY <1>3, <2>3 DEF Row
<1>4. CASE c.op = "assign"
  <2>1. row \in LiveRow /\ row.assignee \in Users \cup {Nobody}
    BY <1>4 DEF LiveRow
  <2>2. PICK u \in Users \cup {Nobody} :
          NewRow(c, r, row) = [Stamped(row) EXCEPT !.assignee = u]
    BY <1>4, <2>1, GivenType DEF NewRow
  <2>3. NewRow(c, r, row) \in LiveRow /\ NewRow(c, r, row).ver = row.ver + 1
    BY <1>0, <2>1, <2>2, StampedType DEF LiveRow
  <2> QED
    BY <1>4, <2>3 DEF Row
<1>5. CASE c.op = "status"
  <2>1. NewRow(c, r, row) = [Stamped(row) EXCEPT !.status = c.status]
    BY <1>5 DEF NewRow
  <2>2. row \in LiveRow
    BY <1>5
  <2>3. NewRow(c, r, row) \in LiveRow /\ NewRow(c, r, row).ver = row.ver + 1
    BY <1>0, <2>1, <2>2, StampedType DEF LiveRow
  <2> QED
    BY <1>5, <2>3 DEF Row
<1>6. CASE c.op = "cancel"
  <2>1. NewRow(c, r, row) = [Stamped(row) EXCEPT !.status = "CANCELLED"]
    BY <1>6 DEF NewRow
  <2>2. row \in LiveRow
    BY <1>6
  <2>3. NewRow(c, r, row) \in LiveRow /\ NewRow(c, r, row).ver = row.ver + 1
    BY <1>0, <2>1, <2>2, StampedType DEF LiveRow, Statuses
  <2> QED
    BY <1>6, <2>3 DEF Row
<1> QED
  BY <1>0, <1>1, <1>2, <1>3, <1>4, <1>5, <1>6

LEMMA NewRowStatus ==
  ASSUME NEW r \in Requests, NEW c \in Call, NEW row \in Row,
         c.op # "create" => row \in LiveRow
  PROVE  /\ c.op \in {"create", "remove", "cancel"}
              => NewRow(c, r, row).status \notin {"IN_PROGRESS", "DONE"}
         /\ c.op \in {"update", "assign"} => NewRow(c, r, row).status = row.status
         /\ c.op = "status" => NewRow(c, r, row).status = c.status
<1>1. CASE c.op \in {"create", "remove"}
  BY <1>1 DEF NewRow, NoRow
<1>2. CASE c.op = "update"
  BY <1>2, StampedType DEF NewRow, LiveRow, Stamped
<1>3. CASE c.op = "assign"
  BY <1>3, StampedType DEF NewRow, LiveRow, Stamped
<1>4. CASE c.op \in {"status", "cancel"}
  BY <1>4, StampedType DEF NewRow, LiveRow
<1> QED
  BY <1>1, <1>2, <1>3, <1>4

-----------------------------------------------------------------------------
(* Every step keeps the invariant. *)

\* A committed write is past its write, and what is past a write stays.
LEMMA CommittedFacts ==
  ASSUME IndInv, NEW q \in Requests
  PROVE  /\ Committed(q) => PastWrite(q)
         /\ wrote[q].to # NoRow => Committed(q) \/ wrote[q].from # NoRow
         /\ wrote[q].to # NoRow => PastWrite(q)
         /\ wrote[q].from # NoRow => PastWrite(q)
BY DEF IndInv, WritesInOrder, Committed, NoWrite

LEMMA BeginKeeps ==
  ASSUME IndInv, NEW r \in Requests, Begin(r)
  PROVE  IndInv'
<1> USE DEF IndInv
<1>1. PICK c \in Calls :
        /\ c.op = "create" => Unused(c.order)
        /\ call' = [call EXCEPT ![r] = c]
        /\ Goto(r, IF active[c.user] /\ MayEnter(c) THEN FirstStep(c) ELSE "refused")
  BY DEF Begin
<1>2. PICK x \in {"refused", "read", "validate", "write"} :
        /\ pc' = [pc EXCEPT ![r] = x]
        /\ x = "read" => c.op # "create"
        /\ x \in {"validate", "write"} => c.op = "create"
  <2>1. CASE active[c.user] /\ MayEnter(c)
    BY <1>1, <2>1 DEF Goto, FirstStep, BeforeWrite
  <2>2. CASE ~(active[c.user] /\ MayEnter(c))
    BY <1>1, <2>2 DEF Goto
  <2> QED
    BY <2>1, <2>2
<1>3. pc[r] = "idle" /\ UNCHANGED <<orders, log, active, snap, wrote>>
  BY DEF Begin
<1>4. TypeOK'
  BY <1>1, <1>2, <1>3, CallType DEF TypeOK
<1>5. /\ pc'[r] = x /\ call'[r] = c
      /\ \A q \in Requests \ {r} : pc'[q] = pc[q] /\ call'[q] = call[q]
      /\ wrote[r] = NoWrite /\ snap[r] = NoRow
      /\ \A q \in Requests : PastWrite(q) => q # r /\ PastWrite(q)'
      /\ \A q \in Requests : Committed(q)' = Committed(q)
      /\ ~Committed(r) /\ ~PastWrite(r)
  BY <1>1, <1>2, <1>3 DEF TypeOK, WritesInOrder, PastWrite, Committed, NoWrite
<1>6. WritesInOrder'
  BY <1>2, <1>3, <1>5 DEF WritesInOrder, PastWrite, NoWrite
<1>7. CreateOnce'
  BY <1>1, <1>2, <1>3, <1>5 DEF CreateOnce, Unused
<1>8. \A o \in Orders : Born(o) => Born(o)'
  BY <1>5 DEF Born
<1>9. NothingUnborn'
  BY <1>3, <1>4, <1>5, <1>8 DEF NothingUnborn, TypeOK, Call
<1>10. RowsHaveWriters'
  BY <1>3, <1>5 DEF RowsHaveWriters, LastWriter, Live
<1>11. DecidedOnARow'
  BY <1>2, <1>3, <1>5 DEF DecidedOnARow, Decided
<1>12. SnapshotsAge'
  BY <1>3, <1>5 DEF SnapshotsAge
<1>13. WritesOnSnapshot'
  <2> SUFFICES ASSUME NEW p \in Requests, Committed(p)'
               PROVE  \/ wrote[p].from = snap[p]
                      \/ wrote[p].from # NoRow /\ Overtaken(p)'
    BY <1>3 DEF WritesOnSnapshot
  <2>1. p # r /\ Committed(p)
    BY <1>5
  <2>2. ASSUME wrote[p].from # NoRow, Overtaken(p)
        PROVE  Overtaken(p)'
    <3>1. PICK q \in Requests \ {p} : /\ call[q].order = call[p].order
                                      /\ wrote[q].to = wrote[p].from
                                      /\ wrote[q].from.ver >= snap[p].ver
      BY <2>2 DEF Overtaken
    <3>2. q # r
      BY <2>2, <3>1, <1>5 DEF NoWrite
    <3> QED
      BY <1>3, <1>5, <2>1, <3>1, <3>2 DEF Overtaken
  <2> QED
    BY <2>1, <2>2 DEF WritesOnSnapshot
<1>14. EntriesOfWriters'
  BY <1>3, <1>5, LogEntryType DEF EntriesOfWriters
<1>15. NoOrphanEntries'
  BY <1>3 DEF NoOrphanEntries, Live
<1>16. \A o \in Orders : WasStarted(o) => WasStarted(o)'
  BY <1>5 DEF WasStarted
<1>17. StartedBeforeSeen'
  BY <1>3, <1>4, <1>5, <1>16 DEF StartedBeforeSeen, TypeOK, Call, NoRow
<1> QED
  BY <1>4, <1>6, <1>7, <1>9, <1>10, <1>11, <1>12, <1>13, <1>14, <1>15, <1>17

\* Steps that only move one request on: a refusal, a failure, a passed
\* validation.
LEMMA MovingOnKeeps ==
  ASSUME IndInv, NEW r \in Requests, NEW x \in {"write", "refused", "failed"},
         InFlight(r),
         x = "write" => pc[r] = "validate",
         x = "refused" => pc[r] \in {"read", "validate"},
         Goto(r, x), UNCHANGED <<orders, log, active, call, snap, wrote>>
  PROVE  IndInv'
<1> USE DEF IndInv
<1>1. TypeOK'
  BY DEF TypeOK, Goto
<1>2. /\ pc'[r] = x
      /\ \A q \in Requests \ {r} : pc'[q] = pc[q]
      /\ \A q \in Requests : PastWrite(q) => PastWrite(q)'
      /\ \A q \in Requests : pc[q] # "idle" <=> pc'[q] # "idle"
      /\ \A q \in Requests : Committed(q)' = Committed(q)
  BY DEF TypeOK, Goto, InFlight, PastWrite, Committed
<1>3. WritesInOrder'
  BY <1>2 DEF WritesInOrder, PastWrite, InFlight, NoWrite
<1>4. CreateOnce'
  BY <1>2 DEF CreateOnce
<1>5. NothingUnborn'
  BY <1>2 DEF NothingUnborn, Born
<1>6. RowsHaveWriters'
  BY <1>2 DEF RowsHaveWriters, LastWriter, Live
<1>7. DecidedOnARow'
  BY <1>2 DEF DecidedOnARow, Decided
<1>8. SnapshotsAge' /\ WritesOnSnapshot' /\ EntriesOfWriters' /\ NoOrphanEntries'
  BY <1>2 DEF SnapshotsAge, WritesOnSnapshot, EntriesOfWriters, NoOrphanEntries,
              Live, Overtaken, Committed
<1>9. StartedBeforeSeen'
  BY <1>2 DEF StartedBeforeSeen, WasStarted
<1> QED
  BY <1>1, <1>3, <1>4, <1>5, <1>6, <1>7, <1>8, <1>9

LEMMA ReadKeeps ==
  ASSUME IndInv, NEW r \in Requests, Read(r)
  PROVE  IndInv'
<1> DEFINE row == orders[call[r].order]
<1> USE DEF IndInv
<1>1. CASE ~Permitted(call[r], row)
  <2>1. Goto(r, "refused") /\ UNCHANGED <<orders, log, active, call, snap, wrote>>
    BY <1>1 DEF Read
  <2> QED
    BY <2>1, MovingOnKeeps DEF Read, InFlight
<1>2. CASE Permitted(call[r], row)
  <2>1. PICK x \in {"validate", "write"} : pc' = [pc EXCEPT ![r] = x]
    BY <1>2 DEF Read, Goto, BeforeWrite
  <2>2. /\ pc[r] = "read"
        /\ snap' = [snap EXCEPT ![r] = row]
        /\ UNCHANGED <<orders, log, active, call, wrote>>
    BY <1>2 DEF Read
  <2>3. /\ call[r].order \in Orders
        /\ row \in LiveRow /\ row # NoRow /\ row \in Row
    <3>1. call[r].order \in Orders /\ row \in Row
      BY DEF TypeOK, Call
    <3> QED
      BY <1>2, <3>1, RowCases, NoRowType DEF Permitted
  <2>4. TypeOK'
    BY <2>1, <2>2, <2>3 DEF TypeOK
  <2>5. /\ pc'[r] = x /\ snap'[r] = row
        /\ \A q \in Requests \ {r} : pc'[q] = pc[q] /\ snap'[q] = snap[q]
        /\ call[r].op # "create" /\ ~Committed(r) /\ ~PastWrite(r)
        /\ \A q \in Requests : PastWrite(q) => q # r /\ PastWrite(q)'
        /\ \A q \in Requests : pc[q] # "idle" <=> pc'[q] # "idle"
        /\ \A q \in Requests : Committed(q)' = Committed(q)
    BY <2>1, <2>2 DEF TypeOK, WritesInOrder, PastWrite, Committed, NoWrite
  <2>6. WritesInOrder'
    BY <2>2, <2>5 DEF WritesInOrder, PastWrite, NoWrite
  <2>7. CreateOnce'
    BY <2>2, <2>5 DEF CreateOnce
  <2>8. NothingUnborn'
    <3>1. \A o \in Orders : Born(o) => Born(o)'
      BY <2>2, <2>5 DEF Born
    <3> QED
      BY <2>2, <2>3, <2>4, <2>5, <3>1 DEF NothingUnborn, TypeOK, Call
  <2>9. RowsHaveWriters'
    BY <2>2, <2>5 DEF RowsHaveWriters, LastWriter, Live
  <2>10. DecidedOnARow'
    BY <1>2, <2>2, <2>3, <2>5 DEF DecidedOnARow, Decided
  <2>11. SnapshotsAge'
    BY <2>2, <2>3, <2>5 DEF SnapshotsAge, LiveRow
  <2>12. WritesOnSnapshot'
    BY <2>2, <2>5 DEF WritesOnSnapshot, Overtaken
  <2>13. EntriesOfWriters'
    BY <2>2, <2>5, LogEntryType DEF EntriesOfWriters
  <2>14. NoOrphanEntries'
    BY <2>2 DEF NoOrphanEntries, Live
  <2>15. StartedBeforeSeen'
    BY <2>2, <2>3, <2>5 DEF StartedBeforeSeen, WasStarted
  <2> QED
    BY <2>4, <2>6, <2>7, <2>8, <2>9, <2>10, <2>11, <2>12, <2>13, <2>14, <2>15
<1> QED
  BY <1>1, <1>2

LEMMA ValidateKeeps ==
  ASSUME IndInv, NEW r \in Requests, Validate(r)
  PROVE  IndInv'
<1>1. PICK x \in {"write", "refused"} : Goto(r, x)
  BY DEF Validate
<1> QED
  BY <1>1, MovingOnKeeps DEF Validate, InFlight

LEMMA AbortKeeps ==
  ASSUME IndInv, NEW r \in Requests, Abort(r)
  PROVE  IndInv'
BY MovingOnKeeps DEF Abort

\* Steps of the environment: users and audit entries.
LEMMA EnvironmentKeeps ==
  ASSUME IndInv, UNCHANGED <<orders, pc, call, snap, wrote>>,
         active' \in [Users -> BOOLEAN],
         log' = log \/ \E k \in 1..Len(log) : log' = SubSeq(log, k + 1, Len(log))
  PROVE  IndInv'
<1> USE DEF IndInv
<1>1. /\ log' \in Seq(Entry)
      /\ \A i \in 1..Len(log') : \E j \in 1..Len(log) : log'[i] = log[j]
  <2>1. CASE log' = log
    BY <2>1 DEF TypeOK
  <2>2. CASE \E k \in 1..Len(log) : log' = SubSeq(log, k + 1, Len(log))
    <3>1. PICK k \in 1..Len(log) : log' = SubSeq(log, k + 1, Len(log))
      BY <2>2
    <3>2. /\ log' \in Seq(Entry)
          /\ Len(log') = Len(log) - k
          /\ \A i \in 1..Len(log') : log'[i] = log[i + k]
      BY <3>1 DEF TypeOK
    <3> QED
      BY <3>2 DEF TypeOK
  <2> QED
    BY <2>1, <2>2
<1>2. TypeOK'
  BY <1>1 DEF TypeOK
<1>3. /\ WritesInOrder' /\ CreateOnce' /\ NothingUnborn' /\ RowsHaveWriters'
      /\ DecidedOnARow' /\ SnapshotsAge' /\ WritesOnSnapshot' /\ StartedBeforeSeen'
  BY DEF WritesInOrder, CreateOnce, NothingUnborn, RowsHaveWriters, DecidedOnARow,
         SnapshotsAge, WritesOnSnapshot, StartedBeforeSeen, PastWrite, Committed,
         Born, LastWriter, Live, Decided, Overtaken, WasStarted
<1>4. EntriesOfWriters'
  BY <1>1 DEF EntriesOfWriters, Committed
<1>5. NoOrphanEntries'
  BY <1>1 DEF NoOrphanEntries, Live
<1> QED
  BY <1>2, <1>3, <1>4, <1>5

LEMMA RecordedType ==
  ASSUME NEW c \in Call, NEW row \in Row
  PROVE  /\ Recorded(c, row) \in Recordable /\ NewValue(c, row) \in Recordable
         /\ c.op # "remove" =>
              AuditAction(c) \in {"ORDER_CREATED", "ORDER_UPDATED", "ASSIGNED",
                                 "UNASSIGNED", "STATUS_CHANGED", "ORDER_CANCELLED"}
<1>1. /\ row.status \in Statuses \cup {"ABSENT"}
      /\ row.edit \in Requests \cup {NoRequest}
      /\ row.assignee \in Users \cup {Nobody}
  BY DEF Row, LiveRow, NoRow
<1>2. Recorded(c, row) \in Recordable
  BY <1>1 DEF Recorded, Recordable
<1>3. NewValue(c, row) \in Recordable
  BY <1>2 DEF NewValue, Recordable, Call
<1> QED
  BY <1>2, <1>3 DEF AuditAction, Call

LEMMA EntryType ==
  ASSUME NEW by \in Requests, NEW order \in Orders, NEW old \in Recordable,
         NEW new \in Recordable,
         NEW action \in {"ORDER_CREATED", "ORDER_UPDATED", "ASSIGNED", "UNASSIGNED",
                         "STATUS_CHANGED", "ORDER_CANCELLED"}
  PROVE  [by |-> by, order |-> order, action |-> action, old |-> old, new |-> new] \in Entry
BY DEF Entry

LEMMA AuditKeeps ==
  ASSUME IndInv, NEW r \in Requests, Audit(r)
  PROVE  IndInv'
<1> DEFINE c == call[r]
           e == [by |-> r, order |-> c.order, action |-> AuditAction(c),
                 old |-> Recorded(c, snap[r]), new |-> NewValue(c, wrote[r].to)]
<1> USE DEF IndInv
<1>1. CASE ~Live(c.order)
  BY <1>1, MovingOnKeeps DEF Audit, InFlight
<1>2. CASE Live(c.order)
  <2>1. /\ pc[r] = "audit" /\ Goto(r, "ok") /\ log' = Append(log, e)
        /\ UNCHANGED <<orders, active, call, snap, wrote>>
    BY <1>2 DEF Audit, EntryOf
  <2>2. Committed(r) /\ c.op # "remove"
    BY <2>1 DEF WritesInOrder
  <2>3. c \in Call /\ snap[r] \in Row /\ wrote[r].to \in Row
    BY DEF TypeOK
  <2>4. e \in Entry
    <3>1. c.order \in Orders
      BY <2>3 DEF Call
    <3>2. AuditAction(c) \in {"ORDER_CREATED", "ORDER_UPDATED", "ASSIGNED",
                              "UNASSIGNED", "STATUS_CHANGED", "ORDER_CANCELLED"}
      BY <2>2, <2>3, RecordedType
    <3>3. Recorded(c, snap[r]) \in Recordable /\ NewValue(c, wrote[r].to) \in Recordable
      BY <2>3, RecordedType
    <3> QED
      BY <3>1, <3>2, <3>3, EntryType
  <2>5. /\ log' \in Seq(Entry)
        /\ Len(log') = Len(log) + 1
        /\ \A i \in 1..Len(log) : log'[i] = log[i]
        /\ log'[Len(log) + 1] = e
    BY <2>1, <2>4 DEF TypeOK
  <2>6. TypeOK'
    BY <2>1, <2>5 DEF TypeOK, Goto
  <2>7. /\ pc'[r] = "ok"
        /\ \A q \in Requests \ {r} : pc'[q] = pc[q]
        /\ \A q \in Requests : PastWrite(q) <=> PastWrite(q)'
        /\ \A q \in Requests : pc[q] # "idle" <=> pc'[q] # "idle"
        /\ \A q \in Requests : Committed(q)' = Committed(q)
    BY <2>1 DEF TypeOK, Goto, PastWrite, Committed
  <2>8. WritesInOrder' /\ CreateOnce' /\ NothingUnborn'
    BY <2>1, <2>7 DEF WritesInOrder, PastWrite, NoWrite, CreateOnce, NothingUnborn, Born
  <2>9. RowsHaveWriters' /\ DecidedOnARow'
    BY <2>1, <2>7 DEF RowsHaveWriters, LastWriter, Live, DecidedOnARow, Decided
  <2>10. SnapshotsAge' /\ WritesOnSnapshot' /\ StartedBeforeSeen'
    BY <2>1, <2>7 DEF SnapshotsAge, WritesOnSnapshot, Overtaken, StartedBeforeSeen, WasStarted
  <2>11. EntriesOfWriters'
    <3> SUFFICES ASSUME NEW i \in 1..Len(log')
                 PROVE  /\ wrote[log'[i].by].from # wrote[log'[i].by].to
                        /\ log'[i].old = Recorded(call[log'[i].by], snap[log'[i].by])
      BY <2>1 DEF EntriesOfWriters, Committed
    <3>1. CASE i \in 1..Len(log)
      BY <2>5, <3>1 DEF EntriesOfWriters, Committed
    <3>2. CASE i = Len(log) + 1
      BY <2>2, <2>5, <3>2 DEF Committed
    <3> QED
      BY <2>5, <3>1, <3>2 DEF TypeOK, Live
  <2>12. NoOrphanEntries'
    <3> SUFFICES ASSUME NEW i \in 1..Len(log')
                 PROVE  Live(log'[i].order)
      BY <2>1, <2>6 DEF NoOrphanEntries, Live
    <3>1. CASE i \in 1..Len(log)
      BY <2>5, <3>1 DEF NoOrphanEntries, Live
    <3>2. CASE i = Len(log) + 1
      BY <1>2, <2>5, <3>2 DEF Live
    <3> QED
      BY <2>5, <3>1, <3>2 DEF TypeOK, Live
  <2> QED
    BY <2>6, <2>8, <2>9, <2>10, <2>11, <2>12
<1> QED
  BY <1>1, <1>2

LEMMA WriteKeeps ==
  ASSUME IndInv, NEW r \in Requests, Write(r)
  PROVE  IndInv'
<1> DEFINE c == call[r]
           o == c.order
           row == orders[o]
           new == NewRow(c, r, row)
<1> USE DEF IndInv
<1>1. CASE ~Accepted(c)
  BY <1>1, MovingOnKeeps DEF Write, InFlight
<1>2. CASE Accepted(c)
  <2>1. /\ pc[r] = "write"
        /\ orders' = [orders EXCEPT ![o] = new]
        /\ wrote' = [wrote EXCEPT ![r] = [from |-> row, to |-> new]]
        /\ Goto(r, IF c.op = "remove" THEN "ok" ELSE "audit")
        /\ UNCHANGED <<log, active, call, snap>>
    BY <1>2 DEF Write
  <2>2. c \in Call /\ o \in Orders /\ row \in Row
    BY DEF TypeOK, Call
  <2>3. c.op # "create" => row \in LiveRow /\ row # NoRow
    BY <1>2, <2>2, RowCases, NoRowType DEF Accepted, Live
  <2>4. /\ new \in Row
        /\ c.op # "remove" => new \in LiveRow /\ new # NoRow
        /\ c.op \notin {"create", "remove"} => new.ver = row.ver + 1
        /\ c.op = "create" => new.ver = 1
        /\ c.op = "remove" => new = NoRow
    <3>1. /\ new \in Row
          /\ c.op # "remove" => new \in LiveRow
          /\ c.op \notin {"create", "remove"} => new.ver = row.ver + 1
          /\ c.op = "create" => new.ver = 1
          /\ c.op = "remove" => new = NoRow
      BY <2>2, <2>3, NewRowType
    <3>2. new \in LiveRow => new # NoRow
      BY DEF LiveRow, NoRow, Statuses
    <3> QED
      BY <3>1, <3>2
  <2>5. c.op = "create" => row = NoRow /\ \A p \in Requests : call[p].order = o => snap[p] = NoRow
    <3>1. c.op = "create" => ~Born(o)
      BY <2>1 DEF CreateOnce, Born, PastWrite
    <3> QED
      BY <2>2, <3>1 DEF NothingUnborn
  <2>6. row # new
    BY <2>3, <2>4, <2>5 DEF LiveRow, NoRow
  <2>7. PICK x \in {"ok", "audit"} : /\ pc' = [pc EXCEPT ![r] = x]
                                     /\ x = "audit" => c.op # "remove"
    BY <2>1 DEF Goto
  <2>8. TypeOK'
    BY <2>1, <2>2, <2>4, <2>7 DEF TypeOK
  <2>9. /\ pc'[r] = x /\ wrote'[r] = [from |-> row, to |-> new]
        /\ orders'[o] = new
        /\ \A p \in Orders \ {o} : orders'[p] = orders[p]
        /\ \A q \in Requests \ {r} : pc'[q] = pc[q] /\ wrote'[q] = wrote[q]
        /\ wrote[r] = NoWrite
    BY <2>1, <2>2, <2>7 DEF TypeOK, WritesInOrder, PastWrite
  <2>10. /\ Committed(r)' /\ PastWrite(r)' /\ ~Committed(r) /\ ~PastWrite(r)
         /\ \A q \in Requests \ {r} : Committed(q)' = Committed(q)
         /\ \A q \in Requests : PastWrite(q) => PastWrite(q)'
         /\ \A q \in Requests : pc[q] # "idle" <=> pc'[q] # "idle"
    BY <2>1, <2>6, <2>9 DEF Committed, PastWrite, NoWrite
  <2>11. WritesInOrder'
    BY <2>1, <2>7, <2>9, <2>10 DEF WritesInOrder, PastWrite
  <2>12. CreateOnce'
    BY <2>1, <2>10 DEF CreateOnce
  <2>13. NothingUnborn'
    <3>1. \A p \in Orders : Born(p) => Born(p)'
      BY <2>1, <2>10 DEF Born
    <3>2. c.op = "create" => Born(o)'
      BY <2>1, <2>2, <2>10 DEF Born
    <3>3. c.op # "create" => Born(o)
      BY <2>2, <2>3 DEF NothingUnborn
    <3>4. ASSUME NEW p \in Orders, p = o PROVE Born(p)'
      BY <2>1, <2>2, <3>1, <3>3, <3>4, <2>10 DEF Born
    <3>5. ASSUME NEW q \in Requests PROVE call[q].order \in Orders
      BY DEF TypeOK, Call
    <3> QED
      BY <2>1, <2>9, <3>1, <3>4, <3>5 DEF NothingUnborn
  <2>14. RowsHaveWriters'
    <3> SUFFICES ASSUME NEW p \in Orders, Live(p)'
                 PROVE  \E q \in Requests : LastWriter(q, p)'
      BY DEF RowsHaveWriters
    <3>1. CASE p = o
      <4>1. c.op # "remove"
        BY <2>4, <2>9, <3>1 DEF Live, NoRow, Statuses
      <4>2. row.ver = new.ver - 1
        BY <2>2, <2>3, <2>4, <2>5, <4>1 DEF LiveRow, NoRow
      <4>3. LastWriter(r, p)'
        BY <2>1, <2>9, <2>10, <3>1, <4>2 DEF LastWriter, PastWrite
      <4> QED
        BY <4>3
    <3>2. CASE p # o
      <4>1. Live(p) /\ orders'[p] = orders[p]
        BY <2>9, <3>2 DEF Live
      <4>2. PICK q \in Requests : LastWriter(q, p)
        BY <4>1 DEF RowsHaveWriters
      <4>3. q # r
        BY <2>9, <4>1, <4>2 DEF LastWriter, NoWrite, NoRow, Live, Statuses
      <4> QED
        BY <2>1, <2>9, <4>1, <4>2, <4>3 DEF LastWriter
    <3> QED
      BY <3>1, <3>2
  <2>15. DecidedOnARow'
    BY <2>1, <2>9, <2>10 DEF DecidedOnARow, Decided
  <2>16. SnapshotsAge'
    <3> SUFFICES ASSUME NEW p \in Requests, snap[p] # NoRow, orders'[call[p].order] # NoRow
                 PROVE  /\ snap[p].ver <= orders'[call[p].order].ver
                        /\ snap[p].ver = orders'[call[p].order].ver
                             => snap[p] = orders'[call[p].order]
      BY <2>1 DEF SnapshotsAge
    <3>0. call[p].order \in Orders /\ snap[p] \in Row
      BY DEF TypeOK, Call
    <3>1. CASE call[p].order # o
      BY <2>9, <3>0, <3>1 DEF SnapshotsAge
    <3>2. CASE call[p].order = o
      <4>1. c.op \notin {"create", "remove"}
        BY <2>4, <2>5, <2>9, <3>2
      <4>2. snap[p].ver <= row.ver
        BY <2>3, <3>2, <4>1 DEF SnapshotsAge
      <4> QED
        BY <2>2, <2>4, <2>9, <3>0, <3>2, <4>1, <4>2, RowCases
    <3> QED
      BY <3>1, <3>2
  <2>17. WritesOnSnapshot'
    <3> SUFFICES ASSUME NEW p \in Requests, Committed(p)'
                 PROVE  \/ wrote'[p].from = snap[p]
                        \/ wrote'[p].from # NoRow /\ Overtaken(p)'
      BY <2>1 DEF WritesOnSnapshot
    <3>1. CASE p # r
      <4>1. Committed(p) /\ wrote'[p] = wrote[p]
        BY <2>9, <2>10, <3>1
      <4>2. ASSUME wrote[p].from # NoRow, Overtaken(p)
            PROVE  Overtaken(p)'
        <5>1. PICK q \in Requests \ {p} : /\ call[q].order = call[p].order
                                          /\ wrote[q].to = wrote[p].from
                                          /\ wrote[q].from.ver >= snap[p].ver
          BY <4>2 DEF Overtaken
        <5>2. q # r
          BY <2>9, <4>2, <5>1 DEF NoWrite
        <5> QED
          BY <2>1, <2>9, <4>1, <5>1, <5>2 DEF Overtaken
      <4> QED
        BY <4>1, <4>2 DEF WritesOnSnapshot
    <3>2. CASE p = r
      <4>1. CASE c.op = "create"
        BY <2>5, <2>9, <3>2, <4>1
      <4>2. CASE c.op # "create" /\ snap[r] # row
        <5>1. snap[r] \in LiveRow /\ row \in LiveRow /\ row # NoRow
          BY <2>1, <2>3, <4>2 DEF DecidedOnARow, Decided
        <5>2. snap[r] # NoRow
          BY <5>1 DEF LiveRow, NoRow, Statuses
        <5>3. snap[r].ver < row.ver
          BY <4>2, <5>1, <5>2 DEF SnapshotsAge, LiveRow
        <5>4. PICK q \in Requests : LastWriter(q, o)
          BY <2>2, <5>1 DEF RowsHaveWriters, Live, LiveRow
        <5>5. q # r
          BY <2>9, <5>1, <5>4 DEF LastWriter, NoWrite
        <5>6. wrote[q].from.ver >= snap[r].ver
          BY <5>1, <5>3, <5>4 DEF LastWriter, LiveRow
        <5>7. Overtaken(r)'
          BY <2>1, <2>9, <5>4, <5>5, <5>6 DEF LastWriter, Overtaken
        <5> QED
          BY <2>9, <3>2, <5>1, <5>7
      <4> QED
        BY <2>9, <3>2, <4>1, <4>2
    <3> QED
      BY <3>1, <3>2
  <2>18. EntriesOfWriters'
    BY <2>1, <2>10, LogEntryType DEF EntriesOfWriters
  <2>19. NoOrphanEntries'
    <3> SUFFICES ASSUME NEW i \in 1..Len(log)
                 PROVE  Live(log[i].order)'
      BY <2>1 DEF NoOrphanEntries, Live
    <3>1. Live(log[i].order) /\ log[i].order \in Orders
      BY LogEntryType DEF NoOrphanEntries
    <3>2. CASE log[i].order # o
      BY <2>1, <2>9, <3>1, <3>2 DEF Live
    <3>3. CASE log[i].order = o
      <4>1. c.op # "remove"
        BY <1>2, <3>3 DEF Accepted, HasEntries
      <4> QED
        BY <2>1, <2>4, <2>9, <3>3, <4>1 DEF Live, LiveRow
    <3> QED
      BY <3>2, <3>3
  <2>20. \A p \in Orders : WasStarted(p) => WasStarted(p)'
    BY <2>1, <2>10 DEF WasStarted
  <2>21. ASSUME NEW p \in Orders, p = o, new.status \in {"IN_PROGRESS", "DONE"}
         PROVE  WasStarted(p)'
    <3>1. CASE c.op \in {"create", "remove", "cancel"}
      BY <2>2, <2>3, <2>21, <3>1, NewRowStatus
    <3>2. CASE c.op \in {"update", "assign"}
      <4>1. row.status = new.status
        BY <2>2, <2>3, <3>2, NewRowStatus
      <4>2. WasStarted(p)
        BY <2>21, <4>1 DEF StartedBeforeSeen
      <4> QED
        BY <2>20, <4>2
    <3>3. CASE c.op = "status"
      <4>1. c.status = new.status
        BY <2>2, <2>3, <3>3, NewRowStatus
      <4>2. CASE c.status = "IN_PROGRESS"
        BY <2>1, <2>2, <2>10, <2>21, <3>3, <4>2 DEF WasStarted
      <4>3. CASE c.status = "DONE"
        <5>1. snap[r] \in LiveRow /\ c.status \in Transitions[snap[r].status]
          BY <2>1, <3>3 DEF DecidedOnARow, Decided, Permitted, MayDo
        <5>2. snap[r].status = "IN_PROGRESS"
          BY <4>3, <5>1 DEF Transitions, LiveRow, Statuses
        <5>3. WasStarted(p)
          BY <2>21, <5>2 DEF StartedBeforeSeen
        <5> QED
          BY <2>20, <5>3
      <4> QED
        BY <2>21, <4>1, <4>2, <4>3
    <3> QED
      BY <2>2, <3>1, <3>2, <3>3 DEF Call
  <2>22. StartedBeforeSeen'
    <3>1. \A p \in Requests : call[p].order \in Orders
      BY DEF TypeOK, Call
    <3> QED
      BY <2>1, <2>2, <2>9, <2>20, <2>21, <3>1 DEF StartedBeforeSeen
  <2> QED
    BY <2>8, <2>11, <2>12, <2>13, <2>14, <2>15, <2>16, <2>17, <2>18, <2>19, <2>22
<1> QED
  BY <1>1, <1>2

-----------------------------------------------------------------------------
(* Theorems. *)

LEMMA InitIndInv == Init => IndInv
<1> SUFFICES ASSUME Init PROVE IndInv
  OBVIOUS
<1>1. TypeOK
  <2>1. (CHOOSE c \in Calls : TRUE) \in Call
    BY CallsAssumption
  <2>2. call \in [Requests -> Call]
    BY <2>1 DEF Init
  <2>3. log \in Seq(Entry)
    BY DEF Init
  <2> QED
    BY <2>2, <2>3, NoRowType DEF Init, TypeOK
<1>2. /\ WritesInOrder /\ CreateOnce /\ NothingUnborn /\ RowsHaveWriters
      /\ DecidedOnARow /\ SnapshotsAge /\ WritesOnSnapshot /\ StartedBeforeSeen
  BY DEF Init, WritesInOrder, CreateOnce, NothingUnborn, RowsHaveWriters,
         DecidedOnARow, SnapshotsAge, WritesOnSnapshot, StartedBeforeSeen,
         NoWrite, NoRow, Live, Statuses, Decided, Committed, PastWrite
<1>3. EntriesOfWriters /\ NoOrphanEntries
  BY DEF Init, EntriesOfWriters, NoOrphanEntries
<1> QED
  BY <1>1, <1>2, <1>3 DEF IndInv

LEMMA NextIndInv == IndInv /\ [Next]_vars => IndInv'
<1> SUFFICES ASSUME IndInv, [Next]_vars PROVE IndInv'
  OBVIOUS
<1>1. ASSUME NEW r \in Requests, Handle(r) PROVE IndInv'
  BY <1>1, BeginKeeps, ReadKeeps, ValidateKeeps, WriteKeeps, AuditKeeps
     DEF Handle, Proceed
<1>2. ASSUME NEW r \in Requests, Abort(r) PROVE IndInv'
  BY <1>2, AbortKeeps
<1>3. ASSUME NEW u \in Blockable, SetActive(u) PROVE IndInv'
  <2>1. active' \in [Users -> BOOLEAN]
    BY <1>3, BlockableAssumption DEF SetActive, IndInv, TypeOK
  <2> QED
    BY <1>3, <2>1, EnvironmentKeeps DEF SetActive
<1>4. CASE Cleanup
  BY <1>4, EnvironmentKeeps DEF Cleanup, IndInv, TypeOK
<1>5. CASE UNCHANGED vars
  BY <1>5, EnvironmentKeeps DEF vars, IndInv, TypeOK
<1> QED
  BY <1>1, <1>2, <1>3, <1>4, <1>5 DEF Next, CalmNext, AllAnswered

THEOREM Invariance == Spec => []IndInv
BY InitIndInv, NextIndInv, PTL DEF Spec

\* Every variable keeps its type.
THEOREM TypesHold == Spec => []TypeOK
BY Invariance, PTL DEF IndInv

\* An order is DONE only if some changeStatus call moved it to IN_PROGRESS
\* before, in whatever order the requests run and wherever they are cut short.
THEOREM NoWorkDoneUnstarted == Spec => []DoneWasStarted
<1>1. IndInv => DoneWasStarted
  BY DEF IndInv, StartedBeforeSeen, WasStarted, DoneWasStarted
<1> QED
  BY <1>1, Invariance, PTL

\* A write the checks of its method would not let through on the row it
\* replaces had a request that overtook it.
THEOREM UnguardedWritesAreRaces == Spec => []GuardedOrOvertaken
<1>1. IndInv => GuardedOrOvertaken
  BY DEF IndInv, DecidedOnARow, Decided, WritesOnSnapshot, GuardedOrOvertaken
<1> QED
  BY <1>1, Invariance, PTL

\* No audit entry points at an order that is gone.
THEOREM EntriesHaveOrders == Spec => []NoOrphanEntries
BY Invariance, PTL DEF IndInv

\* The old value in an entry is the one that was replaced, or the request was
\* overtaken.
THEOREM OldValuesTrueUnlessOvertaken == Spec => []OldValueOrOvertaken
<1>1. ASSUME IndInv PROVE OldValueOrOvertaken
  <2> SUFFICES ASSUME NEW i \in 1..Len(log),
                      log[i].old # Recorded(call[log[i].by], wrote[log[i].by].from)
               PROVE  Overtaken(log[i].by)
    BY DEF OldValueOrOvertaken
  <2>1. log[i].by \in Requests
    BY <1>1, LogEntryType DEF IndInv
  <2>2. wrote[log[i].by].from # snap[log[i].by]
    BY <1>1 DEF IndInv, EntriesOfWriters
  <2> QED
    BY <1>1, <2>1, <2>2 DEF IndInv, EntriesOfWriters, WritesOnSnapshot
<1> QED
  BY <1>1, Invariance, PTL

-----------------------------------------------------------------------------
(* While no two requests overlap, OrdersService implements OrderLifecycle,     *)
(* crashes included.                                                           *)

\* Nothing changes a row between the findOne that read it and the write.
SnapshotsFresh ==
  \A r \in Requests :
    /\ pc[r] \in {"validate", "write"} /\ call[r].op # "create"
         => snap[r] = orders[call[r].order]
    /\ Committed(r) => wrote[r].from = snap[r]

SerialInv == IndInv /\ OneAtATime /\ SnapshotsFresh

-----------------------------------------------------------------------------
\* create inserts a row nobody had.
LEMMA CreateFromNothing ==
  ASSUME IndInv, NEW r \in Requests, pc[r] = "write", call[r].op = "create"
  PROVE  orders[call[r].order] = NoRow /\ snap[r] = NoRow
<1>1. ~Born(call[r].order)
  BY DEF IndInv, CreateOnce, Born, PastWrite
<1>2. call[r].order \in Orders
  BY DEF IndInv, TypeOK, Call
<1> QED
  BY <1>1, <1>2 DEF IndInv, NothingUnborn

LEMMA SerialInit == Init => SerialInv
BY InitIndInv DEF Init, SerialInv, OneAtATime, SnapshotsFresh, InFlight, Committed

LEMMA SerialStep ==
  ASSUME SerialInv, [Next /\ Serially]_vars
  PROVE  SerialInv'
<1> USE DEF SerialInv
<1>1. IndInv'
  BY NextIndInv
<1>2. OneAtATime'
  BY DEF Serially, OneAtATime, InFlight, vars
<1>3. ASSUME NEW r \in Requests, Begin(r) PROVE SnapshotsFresh'
  <2>1. /\ pc[r] = "idle" /\ UNCHANGED <<orders, log, active, snap, wrote>>
        /\ \A q \in Requests \ {r} : pc'[q] = pc[q] /\ call'[q] = call[q]
        /\ ~Committed(r)
    BY <1>3 DEF Begin, Goto, IndInv, TypeOK, WritesInOrder, PastWrite, Committed, NoWrite
  <2>2. call'[r].op = "create" \/ pc'[r] \in {"read", "refused"}
    <3>1. PICK c \in Calls :
            /\ call' = [call EXCEPT ![r] = c]
            /\ Goto(r, IF active[c.user] /\ MayEnter(c) THEN FirstStep(c) ELSE "refused")
      BY <1>3 DEF Begin
    <3> QED
      BY <3>1 DEF Goto, FirstStep, IndInv, TypeOK
  <2> QED
    BY <2>1, <2>2 DEF SnapshotsFresh, Committed
<1>4. ASSUME NEW r \in Requests, Read(r) PROVE SnapshotsFresh'
  <2>1. /\ UNCHANGED <<orders, call, wrote>>
        /\ \A q \in Requests \ {r} : pc'[q] = pc[q] /\ snap'[q] = snap[q]
        /\ pc'[r] = "refused" \/ snap'[r] = orders[call[r].order]
        /\ ~Committed(r)
    BY <1>4 DEF Read, Goto, IndInv, TypeOK, WritesInOrder, PastWrite, Committed, NoWrite
  <2> QED
    BY <2>1 DEF SnapshotsFresh, Committed
<1>5. ASSUME NEW r \in Requests, Write(r) PROVE SnapshotsFresh'
  <2>1. /\ pc[r] = "write" /\ UNCHANGED <<call, snap>> /\ InFlight(r)
        /\ \A q \in Requests \ {r} : pc'[q] = pc[q] /\ wrote'[q] = wrote[q]
        /\ pc'[r] \in {"ok", "audit", "failed"}
        /\ ~Committed(r)
    BY <1>5 DEF Write, Goto, InFlight, IndInv, TypeOK, WritesInOrder, PastWrite, Committed, NoWrite
  <2>2. \A q \in Requests \ {r} : pc[q] \notin {"validate", "write"}
    BY <2>1 DEF OneAtATime, InFlight
  <2>3. wrote'[r] = wrote[r] \/ wrote'[r].from = orders[call[r].order]
    BY <1>5 DEF Write, IndInv, TypeOK
  <2>4. call[r].op = "create" => orders[call[r].order] = NoRow /\ snap[r] = NoRow
    BY <2>1, CreateFromNothing
  <2>5. orders[call[r].order] = snap[r]
    BY <2>1, <2>4 DEF SnapshotsFresh
  <2> QED
    BY <2>1, <2>2, <2>3, <2>5 DEF SnapshotsFresh, Committed
<1>6. ASSUME NEW r \in Requests, Validate(r) \/ Audit(r) \/ Abort(r)
      PROVE  SnapshotsFresh'
  <2>1. /\ UNCHANGED <<orders, call, snap, wrote>>
        /\ \A q \in Requests \ {r} : pc'[q] = pc[q]
        /\ pc'[r] \in {"validate", "write"} => pc[r] \in {"validate", "write"}
    BY <1>6 DEF Validate, Audit, Abort, Goto, IndInv, TypeOK
  <2> QED
    BY <2>1 DEF SnapshotsFresh, Committed
<1>7. ASSUME UNCHANGED <<orders, pc, call, snap, wrote>> PROVE SnapshotsFresh'
  BY <1>7 DEF SnapshotsFresh, Committed
<1> QED
  BY <1>1, <1>2, <1>3, <1>4, <1>5, <1>6, <1>7
     DEF Next, CalmNext, AllAnswered, Handle, Proceed, SetActive, Cleanup, vars

THEOREM SerialInvariance == SerialSpec => []SerialInv
<1>1. SerialInv /\ [Next /\ Serially]_vars => SerialInv'
  BY SerialStep
<1> QED
  BY <1>1, SerialInit, PTL DEF SerialSpec

-----------------------------------------------------------------------------
(* The refinement. *)

\* The abstract state, as the INSTANCE Lifecycle defines it.
AbsStatus == [o \in Orders |-> orders[o].status]
AbsAssignee == [o \in Orders |-> orders[o].assignee]
AbsBorn == {o \in Orders : \E q \in Requests :
              call[q].op = "create" /\ call[q].order = o /\ Committed(q)}

LEMMA LifecycleInit == Init => Lifecycle!Init
BY DEF Init, Lifecycle!Init, NoRow, Committed

LEMMA NewRowShape ==
  ASSUME NEW r \in Requests, NEW c \in Call, NEW row \in Row,
         c.op # "create" => row \in LiveRow
  PROVE  LET new == NewRow(c, r, row) IN
         /\ c.op = "create" => new.status = "NEW" /\ new.assignee \in Users \cup {Nobody}
         /\ c.op = "update" => new.status = row.status /\ new.assignee = row.assignee
         /\ c.op = "assign" => /\ new.status = row.status
                               /\ new.assignee \in Users \cup {Nobody}
         /\ c.op = "status" => new.status = c.status /\ new.assignee = row.assignee
         /\ c.op = "cancel" => new.status = "CANCELLED" /\ new.assignee = row.assignee
<1>1. CASE c.op = "create"
  BY <1>1, GivenType DEF NewRow
<1>2. CASE c.op = "update"
  BY <1>2, StampedType DEF NewRow, LiveRow, Stamped
<1>3. CASE c.op = "assign"
  <2>1. row \in LiveRow /\ row.assignee \in Users \cup {Nobody}
    BY <1>3 DEF LiveRow
  <2>2. PICK u \in Users \cup {Nobody} :
          NewRow(c, r, row) = [Stamped(row) EXCEPT !.assignee = u]
    BY <1>3, <2>1, GivenType DEF NewRow
  <2> QED
    BY <1>3, <2>1, <2>2, StampedType DEF LiveRow, Stamped
<1>4. CASE c.op = "status"
  BY <1>4, StampedType DEF NewRow, LiveRow, Stamped
<1>5. CASE c.op = "cancel"
  BY <1>5, StampedType DEF NewRow, LiveRow, Stamped
<1> QED
  BY <1>1, <1>2, <1>3, <1>4, <1>5

\* A step that is not a write changes nothing the abstract state is made of.
LEMMA OtherStepsStutter ==
  ASSUME SerialInv, UNCHANGED <<orders, wrote>>,
         \A q \in Requests : PastWrite(q) => call'[q] = call[q]
  PROVE  UNCHANGED <<AbsStatus, AbsAssignee, AbsBorn>>
<1>1. \A q \in Requests : Committed(q) => call'[q] = call[q]
  BY DEF SerialInv, IndInv, WritesInOrder, Committed, NoWrite
<1> QED
  BY <1>1 DEF AbsStatus, AbsAssignee, AbsBorn, Committed

LEMMA WriteImplements ==
  ASSUME SerialInv, NEW r \in Requests, Write(r)
  PROVE  \/ UNCHANGED <<AbsStatus, AbsAssignee, AbsBorn>>
         \/ Lifecycle!Next
<1> DEFINE c == call[r]
           o == c.order
           row == orders[o]
           new == NewRow(c, r, row)
<1> USE DEF SerialInv, IndInv
<1>1. CASE ~Accepted(c)
  BY <1>1, OtherStepsStutter DEF Write
<1>2. CASE Accepted(c)
  <2>1. /\ pc[r] = "write"
        /\ orders' = [orders EXCEPT ![o] = new]
        /\ wrote' = [wrote EXCEPT ![r] = [from |-> row, to |-> new]]
        /\ UNCHANGED <<call, snap>>
    BY <1>2 DEF Write
  <2>2. c \in Call /\ o \in Orders /\ row \in Row
    BY DEF TypeOK, Call
  <2>p. PICK p \in Orders : p = o
    BY <2>2
  <2>3. c.op # "create" => row \in LiveRow /\ Permitted(c, row)
    BY <1>2, <2>1, <2>2, RowCases DEF SnapshotsFresh, DecidedOnARow, Decided
  <2>4. ~Committed(r) /\ wrote[r] = NoWrite /\ wrote'[r] = [from |-> row, to |-> new]
        /\ \A q \in Requests \ {r} : Committed(q)' = Committed(q)
    <3>1. wrote[r] = NoWrite
      BY <2>1 DEF WritesInOrder, PastWrite
    <3>2. /\ wrote'[r] = [from |-> row, to |-> new]
          /\ \A q \in Requests \ {r} : wrote'[q] = wrote[q]
      BY <2>1 DEF TypeOK
    <3> QED
      BY <3>1, <3>2 DEF Committed, NoWrite
  <2>5. /\ AbsStatus' = [AbsStatus EXCEPT ![o] = new.status]
        /\ AbsAssignee' = [AbsAssignee EXCEPT ![o] = new.assignee]
        /\ AbsStatus[o] = row.status /\ AbsAssignee[o] = row.assignee
    BY <2>1, <2>2 DEF AbsStatus, AbsAssignee, TypeOK
  <2>6. c.op # "create" => AbsBorn' = AbsBorn
    BY <2>1, <2>4 DEF AbsBorn
  <2>7. CASE c.op = "create"
    <3>1. o \notin AbsBorn
      BY <2>1, <2>4, <2>7 DEF AbsBorn, CreateOnce, WritesInOrder, PastWrite, Committed, NoWrite
    <3>2. new.status = "NEW" /\ new.assignee \in Users \cup {Nobody} /\ new # NoRow
      BY <2>2, <2>7, NewRowShape, NewRowType DEF Call, NoRow
    <3>3. row = NoRow
      BY <2>1, <2>2, <2>7, CreateFromNothing
    <3>4. AbsBorn' = AbsBorn \cup {o}
      BY <2>1, <2>2, <2>4, <2>7, <3>2, <3>3 DEF AbsBorn, Committed
    <3>5. Lifecycle!Create(p)
      BY <2>p, <2>5, <3>1, <3>2, <3>4 DEF Lifecycle!Create, AbsStatus, AbsAssignee, AbsBorn
    <3> QED
      BY <3>5 DEF Lifecycle!Next
  <2>8. CASE c.op = "update"
    <3>1. new.status = row.status /\ new.assignee = row.assignee
      BY <2>2, <2>3, <2>8, NewRowShape
    <3> QED
      BY <2>2, <2>5, <2>6, <2>8, <3>1 DEF AbsStatus, AbsAssignee
  <2>9. CASE c.op = "assign"
    <3>1. new.status = row.status /\ new.assignee \in Users \cup {Nobody}
      BY <2>2, <2>3, <2>9, NewRowShape DEF Call
    <3>2. row.status \in Statuses /\ row.status \notin Closed
      BY <2>3, <2>9 DEF Permitted, MayDo
    <3>3. Lifecycle!Open(p)
      BY <2>p, <3>2
         DEF Lifecycle!Open, Lifecycle!Statuses, Lifecycle!Closed, Statuses, Closed
    <3>4. AbsStatus' = AbsStatus /\ AbsBorn' = AbsBorn
      BY <2>2, <2>5, <2>6, <2>9, <3>1 DEF AbsStatus
    <3>5. Lifecycle!Reassign(p)
      BY <2>p, <2>5, <3>1, <3>3, <3>4 DEF Lifecycle!Reassign, AbsStatus, AbsAssignee, AbsBorn
    <3> QED
      BY <3>5 DEF Lifecycle!Next
  <2>10. CASE c.op \in {"status", "cancel"}
    <3>1. new.status \in Transitions[row.status] /\ row.status \in Statuses
      BY <2>2, <2>3, <2>10, NewRowShape DEF Permitted, MayDo
    <3>2. new.assignee = row.assignee
      BY <2>2, <2>3, <2>10, NewRowShape
    <3>3. Lifecycle!Move(p)
      BY <2>p, <2>2, <2>5, <2>6, <2>10, <3>1, <3>2
         DEF Lifecycle!Move, Lifecycle!Statuses, Lifecycle!Transitions, Transitions,
             Statuses, AbsStatus, AbsAssignee, AbsBorn
    <3> QED
      BY <3>3 DEF Lifecycle!Next
  <2>11. CASE c.op = "remove"
    <3>1. new.status = "ABSENT" /\ new.assignee = Nobody
      BY <2>2, <2>3, <2>11, NewRowType DEF NoRow
    <3>2. row.status \in Statuses
      BY <2>3, <2>11 DEF Permitted
    <3>3. Lifecycle!Remove(p)
      BY <2>p, <2>2, <2>5, <2>6, <2>11, <3>1, <3>2
         DEF Lifecycle!Remove, Lifecycle!Statuses, Statuses, AbsStatus, AbsAssignee, AbsBorn
    <3> QED
      BY <3>3 DEF Lifecycle!Next
  <2> QED
    BY <2>2, <2>7, <2>8, <2>9, <2>10, <2>11 DEF Call
<1> QED
  BY <1>1, <1>2

LEMMA StepImplements ==
  ASSUME SerialInv, [Next /\ Serially]_vars
  PROVE  [Lifecycle!Next]_<<AbsStatus, AbsAssignee, AbsBorn>>
<1>1. ASSUME NEW r \in Requests, Begin(r)
      PROVE  UNCHANGED <<AbsStatus, AbsAssignee, AbsBorn>>
  <2>1. pc[r] = "idle" /\ \A q \in Requests \ {r} : call'[q] = call[q]
    BY <1>1 DEF Begin, SerialInv, IndInv, TypeOK
  <2> QED
    BY <1>1, <2>1, OtherStepsStutter DEF Begin, PastWrite
<1>2. ASSUME NEW r \in Requests, Write(r)
      PROVE  [Lifecycle!Next]_<<AbsStatus, AbsAssignee, AbsBorn>>
  BY <1>2, WriteImplements
<1>3. ASSUME NEW r \in Requests, Read(r) \/ Validate(r) \/ Audit(r) \/ Abort(r)
      PROVE  UNCHANGED <<AbsStatus, AbsAssignee, AbsBorn>>
  BY <1>3, OtherStepsStutter DEF Read, Validate, Audit, Abort
<1>4. ASSUME UNCHANGED <<orders, pc, call, snap, wrote>>
      PROVE  UNCHANGED <<AbsStatus, AbsAssignee, AbsBorn>>
  BY <1>4, OtherStepsStutter
<1> QED
  BY <1>1, <1>2, <1>3, <1>4
     DEF Next, CalmNext, AllAnswered, Handle, Proceed, SetActive, Cleanup, vars

\* Without overlapping requests the service keeps the promises of
\* OrderLifecycle: legal transitions only, a frozen closed order, one life per id.
THEOREM SerialServiceImplementsLifecycle == SerialSpec => ImplementsLifecycle
<1>1. SerialInv /\ [Next /\ Serially]_vars => [Lifecycle!Next]_(Lifecycle!vars)
  BY StepImplements DEF Lifecycle!vars, AbsStatus, AbsAssignee, AbsBorn
<1> QED
  BY <1>1, LifecycleInit, SerialInvariance, PTL
     DEF SerialSpec, ImplementsLifecycle, Lifecycle!Spec

-----------------------------------------------------------------------------
(* However requests overlap, OrdersService implements OrderHistory. *)

\* The abstract state, as the INSTANCE History defines it.
HadBy(o) ==
  {wrote[q].to.status : q \in {r \in Requests : call[r].order = o /\ Committed(r)}} \ {"ABSENT"}
AbsHad == [o \in Orders |-> HadBy(o)]

\* A request has only seen statuses that its order had.
SeenWasHad ==
  \A r \in Requests : snap[r] # NoRow => snap[r].status \in HadBy(call[r].order)

\* Only an order that was created is changed.
LEMMA CommittedIsBorn ==
  ASSUME IndInv, NEW q \in Requests, Committed(q)
  PROVE  Born(call[q].order)
<1> USE DEF IndInv
<1>1. PastWrite(q)
  BY CommittedFacts
<1>2. CASE call[q].op = "create"
  BY <1>1, <1>2 DEF Born
<1>3. CASE call[q].op # "create"
  <2>1. snap[q] \in LiveRow
    BY <1>3 DEF DecidedOnARow, Decided
  <2>2. snap[q] # NoRow
    BY <2>1 DEF LiveRow, NoRow, Statuses
  <2> QED
    BY <2>2 DEF NothingUnborn
<1> QED
  BY <1>2, <1>3

\* The status an order has is one it had, and it had one only since its create.
LEMMA HadFacts ==
  ASSUME IndInv, NEW o \in Orders
  PROVE  /\ orders[o] # NoRow => orders[o].status \in HadBy(o)
         /\ HadBy(o) # {} => Born(o)
<1> USE DEF IndInv
<1>1. ASSUME orders[o] # NoRow PROVE orders[o].status \in HadBy(o)
  <2>1. orders[o] \in Row /\ orders[o].status \in Statuses /\ orders[o].ver \in Nat
    BY <1>1, RowCases DEF TypeOK
  <2>2. PICK q \in Requests : LastWriter(q, o)
    BY <2>1 DEF RowsHaveWriters, Live
  <2>3. call[q].order = o /\ wrote[q].to = orders[o] /\ Committed(q)
    BY <2>1, <2>2 DEF LastWriter, Committed
  <2> QED
    BY <2>1, <2>3 DEF HadBy, Statuses
<1> QED
  BY <1>1, CommittedIsBorn DEF HadBy

\* What an order had it keeps; only a write adds to it.
LEMMA HadStays ==
  ASSUME IndInv, UNCHANGED wrote,
         \A q \in Requests : PastWrite(q) => call'[q] = call[q]
  PROVE  \A o \in Orders : HadBy(o)' = HadBy(o)
<1>1. \A q \in Requests : ~PastWrite(q) => wrote[q] = NoWrite
  BY DEF IndInv, WritesInOrder
<1>2. \A q \in Requests : Committed(q)' = Committed(q)
  BY DEF Committed
<1>3. \A q \in Requests : Committed(q) => call'[q] = call[q]
  BY CommittedFacts
<1> QED
  BY <1>2, <1>3 DEF HadBy

\* The effect of a write that is accepted.
LEMMA HadAfterWrite ==
  ASSUME IndInv, NEW r \in Requests, Write(r), Accepted(call[r])
  PROVE  LET o == call[r].order
             new == NewRow(call[r], r, orders[o])
         IN  /\ AbsStatus' = [AbsStatus EXCEPT ![o] = new.status]
             /\ new # orders[o] /\ new.status # "ABSENT"
                  => AbsHad' = [AbsHad EXCEPT ![o] = @ \cup {new.status}]
             /\ new = orders[o] \/ new.status = "ABSENT" => AbsHad' = AbsHad
<1> DEFINE o == call[r].order
           new == NewRow(call[r], r, orders[o])
<1>1. /\ pc[r] = "write" /\ o \in Orders
      /\ orders' = [orders EXCEPT ![o] = new]
      /\ wrote' = [wrote EXCEPT ![r] = [from |-> orders[o], to |-> new]]
      /\ UNCHANGED call
  BY DEF Write, IndInv, TypeOK, Call
<1>2. ~Committed(r)
  BY <1>1, CommittedFacts DEF PastWrite
<1>3. /\ wrote'[r] = [from |-> orders[o], to |-> new]
      /\ \A q \in Requests \ {r} : wrote'[q] = wrote[q]
  BY <1>1 DEF IndInv, TypeOK
<1>4. AbsStatus' = [AbsStatus EXCEPT ![o] = new.status]
  BY <1>1 DEF AbsStatus, IndInv, TypeOK
<1> HIDE DEF new
<1>5. Committed(r)' <=> new # orders[o]
  BY <1>3 DEF Committed
<1>6. \A q \in Requests \ {r} : Committed(q)' = Committed(q)
  BY <1>3 DEF Committed
<1>7. \A p \in Orders : p # o => HadBy(p)' = HadBy(p)
  BY <1>1, <1>3, <1>6 DEF HadBy
<1>8. new # orders[o] /\ new.status # "ABSENT" => HadBy(o)' = HadBy(o) \cup {new.status}
  <2> SUFFICES ASSUME new # orders[o], new.status # "ABSENT"
               PROVE  HadBy(o)' = HadBy(o) \cup {new.status}
    OBVIOUS
  <2> QED
    BY <1>1, <1>2, <1>3, <1>5, <1>6 DEF HadBy
<1>9. new = orders[o] \/ new.status = "ABSENT" => HadBy(o)' = HadBy(o)
  BY <1>1, <1>2, <1>3, <1>5, <1>6 DEF HadBy
<1> QED
  BY <1>1, <1>4, <1>7, <1>8, <1>9 DEF AbsHad, new

\* The write of a request is a step of OrderHistory, or changes no status.
LEMMA WriteFitsHistory ==
  ASSUME IndInv, SeenWasHad, NEW r \in Requests, Write(r)
  PROVE  \/ UNCHANGED <<AbsStatus, AbsHad>>
         \/ History!Next
<1> DEFINE c == call[r]
           o == c.order
           row == orders[o]
           new == NewRow(c, r, row)
<1>0. /\ pc[r] = "write" /\ c \in Call /\ o \in Orders /\ row \in Row
      /\ AbsStatus[o] = row.status /\ AbsHad[o] = HadBy(o)
      /\ DOMAIN AbsStatus = Orders /\ DOMAIN AbsHad = Orders
  BY DEF Write, IndInv, TypeOK, Call, AbsStatus, AbsHad
<1>1. CASE ~Accepted(c)
  <2>1. UNCHANGED <<orders, wrote, call>>
    BY <1>1 DEF Write
  <2> QED
    BY <2>1, HadStays DEF AbsStatus, AbsHad
<1>2. CASE Accepted(c)
  <2>p. PICK p \in Orders : p = o
    BY <1>0
  <2>1. /\ AbsStatus' = [AbsStatus EXCEPT ![p] = new.status]
        /\ new # row /\ new.status # "ABSENT"
             => AbsHad' = [AbsHad EXCEPT ![p] = @ \cup {new.status}]
        /\ new = row \/ new.status = "ABSENT" => AbsHad' = AbsHad
    BY <1>2, <2>p, HadAfterWrite
  <2>2. c.op # "create" => row \in LiveRow /\ row.status \in Statuses /\ row # NoRow
    BY <1>0, <1>2, RowCases DEF Accepted, Live
  <2>3. CASE c.op = "create"
    <3>1. row = NoRow /\ ~Born(o)
      BY <1>0, <2>3, CreateFromNothing DEF IndInv, CreateOnce, Born, PastWrite
    <3>2. AbsHad[p] = {}
      BY <1>0, <2>p, <3>1, HadFacts
    <3>3. new.status = "NEW"
      BY <1>0, <2>3, NewRowShape
    <3>4. new # row
      BY <3>1, <3>3 DEF NoRow
    <3>5. /\ AbsStatus' = [AbsStatus EXCEPT ![p] = "NEW"]
          /\ AbsHad' = [AbsHad EXCEPT ![p] = @ \cup {"NEW"}]
      BY <2>1, <3>3, <3>4
    <3>6. History!Create(p)
      BY <3>2, <3>5 DEF History!Create, History!Become, AbsStatus, AbsHad, HadBy
    <3> QED
      BY <3>6 DEF History!Next
  <2>4. CASE c.op \in {"update", "assign"}
    <3>1. new.status = row.status
      BY <1>0, <2>2, <2>4, NewRowShape
    <3>2. row.status \in AbsHad[p]
      BY <1>0, <2>p, <2>2, <2>4, HadFacts
    <3>3. AbsStatus' = AbsStatus
      BY <1>0, <2>p, <2>1, <3>1 DEF AbsStatus
    <3>4. AbsHad' = AbsHad
      BY <1>0, <2>1, <3>1, <3>2 DEF AbsHad
    <3> QED
      BY <3>3, <3>4
  <2>5. CASE c.op \in {"status", "cancel"}
    <3>1. /\ snap[r] \in LiveRow /\ Permitted(c, snap[r])
      BY <1>0, <2>5 DEF IndInv, DecidedOnARow, Decided
    <3>2. /\ snap[r].status \in AbsHad[p]
          /\ new.status \in Transitions[snap[r].status] /\ snap[r].status \in Statuses
      <4>1. snap[r] # NoRow
        BY <3>1, RowCases DEF Row, LiveRow, NoRow, Statuses
      <4> QED
        BY <1>0, <2>p, <2>2, <2>5, <3>1, <4>1, NewRowShape DEF Permitted, MayDo, SeenWasHad
    <3>3. new.status # "ABSENT" /\ new.status \in History!Transitions[snap[r].status]
      BY <3>2 DEF Transitions, History!Transitions, Statuses
    <3>4. AbsStatus[p] # "ABSENT"
      BY <1>0, <2>p, <2>2, <2>5 DEF Statuses
    <3>5. CASE new = row
      BY <1>0, <2>p, <2>1, <3>5 DEF AbsStatus, AbsHad
    <3>6. CASE new # row
      <4>1. History!Move(p)
        BY <2>1, <3>2, <3>3, <3>4, <3>6
           DEF History!Move, History!Become, AbsStatus, AbsHad, HadBy
      <4> QED
        BY <4>1 DEF History!Next
    <3> QED
      BY <3>5, <3>6
  <2>6. CASE c.op = "remove"
    <3>1. new.status = "ABSENT"
      BY <2>6 DEF NewRow, NoRow
    <3>2. History!Remove(p)
      BY <1>0, <2>p, <2>1, <2>2, <2>6, <3>1
         DEF History!Remove, AbsStatus, AbsHad, HadBy, Statuses
    <3> QED
      BY <3>2 DEF History!Next
  <2> QED
    BY <1>0, <2>3, <2>4, <2>5, <2>6 DEF Call
<1> QED
  BY <1>1, <1>2

\* No other step changes what OrderHistory is about.
LEMMA OthersFitHistory ==
  ASSUME IndInv, [Next]_vars, ~\E r \in Requests : Write(r)
  PROVE  UNCHANGED <<AbsStatus, AbsHad>>
<1>1. UNCHANGED <<orders, wrote>>
  BY DEF Next, CalmNext, Handle, Proceed, Begin, Read, Validate, Audit, Abort, SetActive,
         Cleanup, AllAnswered, vars
<1>2. \A q \in Requests : PastWrite(q) => call'[q] = call[q]
  <2>1. ASSUME NEW r \in Requests, Begin(r)
        PROVE  pc[r] = "idle" /\ \A q \in Requests \ {r} : call'[q] = call[q]
    BY <2>1 DEF Begin, IndInv, TypeOK
  <2>2. (\A r \in Requests : ~Begin(r)) => UNCHANGED call
    BY DEF Next, CalmNext, Handle, Proceed, Read, Validate, Audit, Abort, SetActive,
           Cleanup, AllAnswered, vars
  <2> QED
    BY <2>1, <2>2 DEF PastWrite
<1> QED
  BY <1>1, <1>2, HadStays DEF AbsStatus, AbsHad

LEMMA SeenStep ==
  ASSUME IndInv, SeenWasHad, [Next]_vars
  PROVE  SeenWasHad'
<1> USE DEF IndInv
<1>1. \A o \in Orders : HadBy(o) \subseteq HadBy(o)'
  <2>1. CASE \E r \in Requests : Write(r)
    <3>1. PICK r \in Requests : Write(r)
      BY <2>1
    <3>2. CASE Accepted(call[r])
      <4>1. AbsHad' = AbsHad \/ \E s : AbsHad' = [AbsHad EXCEPT ![call[r].order] = @ \cup {s}]
        BY <3>1, <3>2, HadAfterWrite
      <4> QED
        BY <4>1 DEF AbsHad
    <3>3. CASE ~Accepted(call[r])
      BY <3>1, <3>3, HadStays DEF Write
    <3> QED
      BY <3>2, <3>3
  <2>2. CASE ~\E r \in Requests : Write(r)
    BY <2>2, OthersFitHistory DEF AbsHad
  <2> QED
    BY <2>1, <2>2
<1>2. ASSUME NEW r \in Requests, snap'[r] # NoRow
      PROVE  snap'[r].status \in HadBy(call[r].order)
  <2>1. CASE snap'[r] = snap[r]
    BY <1>2, <2>1 DEF SeenWasHad
  <2>2. CASE snap'[r] # snap[r]
    <3>1. Read(r)
      BY <2>2 DEF Next, CalmNext, Handle, Proceed, Begin, Read, Validate, Write, Audit, Abort,
                  SetActive, Cleanup, AllAnswered, vars, TypeOK
    <3>2. snap'[r] = orders[call[r].order]
      BY <2>2, <3>1 DEF Read, TypeOK
    <3> QED
      BY <1>2, <3>2, HadFacts DEF TypeOK, Call
  <2> QED
    BY <2>1, <2>2
<1>3. ASSUME NEW r \in Requests, snap'[r] # NoRow PROVE call'[r] = call[r]
  <2>1. snap'[r] # NoRow => pc[r] # "idle"
    BY DEF Next, CalmNext, Handle, Proceed, Begin, Read, Validate, Write, Audit, Abort,
           SetActive, Cleanup, AllAnswered, vars, TypeOK, WritesInOrder
  <2> QED
    BY <1>3, <2>1 DEF Next, CalmNext, Handle, Proceed, Begin, Read, Validate, Write, Audit,
                      Abort, SetActive, Cleanup, AllAnswered, vars, TypeOK
<1> QED
  BY <1>1, <1>2, <1>3 DEF SeenWasHad, TypeOK, Call

\* However requests overlap and wherever they are cut short, the service keeps the
\* promises of OrderHistory: statuses that follow from one the order had, one create
\* and one end of an order.
THEOREM ServiceImplementsHistory == Spec => ImplementsHistory
<1>1. Init => SeenWasHad /\ History!Init
  BY DEF Init, SeenWasHad, History!Init, Committed, NoRow
<1>2. IndInv /\ SeenWasHad /\ [Next]_vars => [History!Next]_(History!vars)
  BY WriteFitsHistory, OthersFitHistory DEF History!vars, AbsStatus, AbsHad, HadBy
<1> QED
  BY <1>1, <1>2, SeenStep, Invariance, PTL DEF Spec, ImplementsHistory, History!Spec

-----------------------------------------------------------------------------
(* The trail, however requests overlap. *)

\* An entry is that of a request that was carried out, with what it saw and what it
\* wrote, and no request has two.
EntryIsTrue(e) ==
  /\ pc[e.by] = "ok" /\ Committed(e.by) /\ call[e.by].op # "remove"
  /\ e = EntryOf(e.by, snap[e.by], wrote[e.by].to)
TrailIsTrue ==
  /\ \A i \in 1..Len(log) : EntryIsTrue(log[i])
  /\ \A i, j \in 1..Len(log) : log[i].by = log[j].by => i = j

\* Without failures every change has its entry, or will have, or has lost its order.
ChangesAreRecorded ==
  \A r \in Requests :
    Committed(r) /\ call[r].op # "remove" =>
      pc[r] = "audit" \/ Logged(r) \/ ~Live(call[r].order)

\* What a request did is not forgotten.
LEMMA DoneStays ==
  ASSUME IndInv, [Next]_vars, NEW q \in Requests, PastWrite(q)
  PROVE  /\ call'[q] = call[q] /\ snap'[q] = snap[q] /\ wrote'[q] = wrote[q]
         /\ pc[q] \in {"ok", "failed"} => pc'[q] = pc[q]
BY DEF Next, CalmNext, Handle, Proceed, Begin, Read, Validate, Write, Audit, Abort, InFlight,
       SetActive, Cleanup, AllAnswered, Goto, vars, IndInv, TypeOK, PastWrite

LEMMA EntriesStayTrue ==
  ASSUME IndInv, [Next]_vars, NEW e \in Entry, EntryIsTrue(e)
  PROVE  EntryIsTrue(e)'
<1>1. e.by \in Requests /\ PastWrite(e.by)
  BY DEF Entry, EntryIsTrue, PastWrite
<1> QED
  BY <1>1, DoneStays DEF EntryIsTrue, Committed, EntryOf

\* How the trail changes.
LEMMA TrailChanges ==
  ASSUME IndInv, [Next]_vars
  PROVE  \/ log' = log
         \/ \E r \in Requests : /\ pc[r] = "audit" /\ pc'[r] = "ok"
                                /\ log' = Append(log, EntryOf(r, snap[r], wrote[r].to))
         \/ Cleanup
<1>1. ASSUME NEW r \in Requests, Audit(r), log' # log
      PROVE  /\ pc[r] = "audit" /\ pc'[r] = "ok"
             /\ log' = Append(log, EntryOf(r, snap[r], wrote[r].to))
  BY <1>1 DEF Audit, Goto, IndInv, TypeOK
<1> QED
  BY <1>1 DEF Next, CalmNext, Handle, Proceed, Begin, Read, Validate, Write, Abort,
              SetActive, AllAnswered, vars

LEMMA TrailStaysTrue ==
  ASSUME IndInv, TrailIsTrue, [Next]_vars
  PROVE  TrailIsTrue'
<1>t. log \in Seq(Entry) /\ log' \in Seq(Entry)
  BY NextIndInv DEF IndInv, TypeOK
<1> DEFINE Holds(e) ==
      /\ pc'[e.by] = "ok" /\ wrote'[e.by].from # wrote'[e.by].to
      /\ call'[e.by].op # "remove"
      /\ e = [by |-> e.by, order |-> call'[e.by].order,
              action |-> AuditAction(call'[e.by]),
              old |-> Recorded(call'[e.by], snap'[e.by]),
              new |-> NewValue(call'[e.by], wrote'[e.by].to)]
<1>h. ASSUME NEW es \in Seq(Entry), log' = es,
             \A i \in 1..Len(es) : Holds(es[i]),
             \A i, j \in 1..Len(es) : es[i].by = es[j].by => i = j
      PROVE  TrailIsTrue'
  BY <1>h DEF TrailIsTrue, EntryIsTrue, Committed, EntryOf
<1>s. ASSUME NEW e \in Entry, EntryIsTrue(e)
      PROVE  Holds(e)
  BY <1>s, EntriesStayTrue DEF EntryIsTrue, Committed, EntryOf
<1>1. \A i \in 1..Len(log) : Holds(log[i])
  <2> HIDE DEF Holds
  <2> QED
    BY <1>t, <1>s DEF TrailIsTrue
<1>u. \A i, j \in 1..Len(log) : log[i].by = log[j].by => i = j
  BY DEF TrailIsTrue
<1> HIDE DEF Holds
<1>2. CASE log' = log
  BY <1>t, <1>1, <1>u, <1>2, <1>h
<1>3. ASSUME NEW r \in Requests, pc[r] = "audit", pc'[r] = "ok",
             log' = Append(log, EntryOf(r, snap[r], wrote[r].to))
      PROVE  TrailIsTrue'
  <2> DEFINE e == EntryOf(r, snap[r], wrote[r].to)
  <2>1. /\ Len(log') = Len(log) + 1 /\ log'[Len(log) + 1] = e
        /\ \A i \in 1..Len(log) : log'[i] = log[i]
    BY <1>3, <1>t
  <2>2. e.by = r
    BY DEF EntryOf
  <2>3. Holds(e)
    <3>1. Committed(r) /\ call[r].op # "remove" /\ PastWrite(r)
      BY <1>3 DEF IndInv, WritesInOrder, PastWrite
    <3>2. call'[r] = call[r] /\ snap'[r] = snap[r] /\ wrote'[r] = wrote[r]
      BY <3>1, DoneStays
    <3> QED
      BY <1>3, <2>2, <3>1, <3>2 DEF Holds, Committed, EntryOf
  <2>4. \A i \in 1..Len(log) : log[i].by # r
    BY <1>3 DEF TrailIsTrue, EntryIsTrue
  <2> HIDE DEF e
  <2> QED
    BY <1>t, <1>1, <1>u, <1>h, <2>1, <2>2, <2>3, <2>4
<1>4. CASE Cleanup
  <2>1. PICK k \in 1..Len(log) : log' = SubSeq(log, k + 1, Len(log))
    BY <1>4 DEF Cleanup
  <2>2. Len(log') = Len(log) - k /\ \A i \in 1..Len(log') : log'[i] = log[i + k]
    BY <1>t, <2>1
  <2>3. \A i \in 1..Len(log') : i + k \in 1..Len(log)
    BY <1>t, <2>1, <2>2
  <2>4. \A i \in 1..Len(log') : Holds(log'[i])
    BY <1>1, <2>2, <2>3
  <2>5. ASSUME NEW i \in 1..Len(log'), NEW j \in 1..Len(log'), log'[i].by = log'[j].by
        PROVE  i = j
    <3>1. log[i + k].by = log[j + k].by
      BY <2>2, <2>5
    <3>2. i + k = j + k
      BY <1>u, <2>3, <3>1
    <3> QED
      BY <1>t, <3>2
  <2> QED
    BY <1>t, <1>h, <2>4, <2>5
<1> QED
  BY <1>2, <1>3, <1>4, TrailChanges

\* The trail tells of nothing that did not happen and of nothing twice: each entry is
\* the one its request has to leave, and no request leaves two, whatever overlaps and
\* whatever maintenance takes away.
THEOREM TrailStaysTruthful == Spec => []TrailIsTrue
<1>1. Init => TrailIsTrue
  BY DEF Init, TrailIsTrue
<1> QED
  BY <1>1, TrailStaysTrue, Invariance, PTL DEF Spec

\* A removed order does not come back.
LEMMA GoneStaysGone ==
  ASSUME IndInv, [Next]_vars, NEW o \in Orders, Born(o), ~Live(o)
  PROVE  ~Live(o)'
<1>1. CASE UNCHANGED orders
  BY <1>1 DEF Live
<1>2. ASSUME NEW r \in Requests, Write(r), orders' # orders PROVE ~Live(o)'
  <2>1. /\ pc[r] = "write" /\ Accepted(call[r]) /\ call[r].order \in Orders
        /\ orders' = [orders EXCEPT ![call[r].order] =
                        NewRow(call[r], r, orders[call[r].order])]
    BY <1>2 DEF Write, IndInv, TypeOK, Call
  <2>2. call[r].order # o
    <3>1. CASE call[r].op = "create"
      BY <2>1, <3>1 DEF IndInv, CreateOnce, Born, PastWrite
    <3>2. CASE call[r].op # "create"
      BY <2>1, <3>2 DEF Accepted
    <3> QED
      BY <3>1, <3>2
  <2> QED
    BY <2>1, <2>2 DEF Live, IndInv, TypeOK
<1> QED
  BY <1>1, <1>2 DEF Next, CalmNext, Handle, Proceed, Begin, Read, Validate, Audit, Abort,
                    SetActive, Cleanup, AllAnswered, vars

LEMMA RecordingStep ==
  ASSUME IndInv, ChangesAreRecorded, [CalmNext]_vars
  PROVE  ChangesAreRecorded'
<1>0. [Next]_vars /\ log \in Seq(Entry)
  BY DEF Next, IndInv, TypeOK
<1> SUFFICES ASSUME NEW r \in Requests, Committed(r)', call'[r].op # "remove"
             PROVE  (pc[r] = "audit" \/ Logged(r) \/ ~Live(call[r].order))'
  BY DEF ChangesAreRecorded
<1>1. CASE Committed(r)
  <2>1. PastWrite(r) /\ call'[r] = call[r] /\ call[r].order \in Orders
    BY <1>0, <1>1, CommittedFacts, DoneStays DEF IndInv, TypeOK, Call
  <2>2. CASE Logged(r)
    <3>1. log' = log \/ \E e : log' = Append(log, e)
      BY DEF CalmNext, Handle, Proceed, Begin, Read, Validate, Write, Audit, SetActive,
             AllAnswered, vars
    <3> QED
      BY <1>0, <2>2, <3>1 DEF Logged
  <2>3. CASE ~Live(call[r].order)
    <3>1. Born(call[r].order)
      BY <1>1, <2>1, CommittedIsBorn
    <3> QED
      BY <1>0, <2>1, <2>3, <3>1, GoneStaysGone
  <2>4. CASE pc[r] = "audit" /\ pc'[r] # "audit"
    <3>1. Audit(r)
      BY <2>4 DEF CalmNext, Handle, Proceed, Begin, Read, Validate, Write, Audit, SetActive,
                  AllAnswered, Goto, vars, IndInv, TypeOK
    <3>2. CASE Live(call[r].order)
      <4>1. log' = Append(log, EntryOf(r, snap[r], wrote[r].to))
        BY <3>1, <3>2 DEF Audit
      <4>2. Len(log') = Len(log) + 1 /\ log'[Len(log) + 1].by = r
        BY <1>0, <4>1 DEF EntryOf
      <4> QED
        BY <1>0, <4>2 DEF Logged
    <3>3. CASE ~Live(call[r].order)
      BY <2>1, <3>1, <3>3 DEF Audit, Live
    <3> QED
      BY <3>2, <3>3
  <2> QED
    BY <1>1, <2>1, <2>2, <2>3, <2>4 DEF ChangesAreRecorded
<1>2. CASE ~Committed(r)
  <2>1. Write(r)
    BY <1>2 DEF CalmNext, Handle, Proceed, Begin, Read, Validate, Write, Audit, SetActive,
                AllAnswered, vars, IndInv, TypeOK, Committed
  <2> QED
    BY <1>2, <2>1 DEF Write, Goto, Committed, IndInv, TypeOK
<1> QED
  BY <1>1, <1>2

\* While nothing fails, a change that was answered has its entry in the trail, unless
\* its order is gone: the part of EveryChangeReachesTheTrail that is not about time.
THEOREM CalmChangesAreRecorded == CalmSpec => []ChangesAreRecorded
<1>1. CalmNext => Next
  BY DEF Next
<1>2. Init => ChangesAreRecorded
  BY DEF Init, ChangesAreRecorded, Committed
<1>3. [CalmNext]_vars => [Next]_vars
  BY <1>1
<1> QED
  BY <1>2, <1>3, InitIndInv, NextIndInv, RecordingStep, PTL DEF CalmSpec

-----------------------------------------------------------------------------
(* Assignees and the trail. *)

\* Nobody is deactivated between the check of an assignee and the write.
ChecksHold ==
  \A r \in Requests :
    pc[r] = "write" /\ NeedsAssigneeCheck(call[r]) => active[call[r].assignee]

\* A request that is about to leave its entry left the row that is there.
EntriesDue ==
  \A r \in Requests : pc[r] = "audit" => wrote[r].to = orders[call[r].order]

\* The newest status in the trail is that of the order, but for a request that has
\* changed it and not left its entry yet, or was cut short.
Owed(o) == \E r \in Requests : /\ pc[r] = "audit" /\ StatusOp(call[r])
                               /\ call[r].order = o
TrailFollows ==
  \A o \in Orders :
    \/ CutShort(o) \/ Owed(o)
    \/ \A i \in 1..Len(log) : LastStatus(i, o) => log[i].new = orders[o].status

TrailInv == SerialInv /\ ChecksHold /\ EntriesDue /\ TrailFollows

LEMMA TrailInit == Init => TrailInv
BY SerialInit DEF Init, TrailInv, ChecksHold, EntriesDue, TrailFollows

\* What a write that is let through does to the row of its order.
LEMMA WriteFacts ==
  ASSUME SerialInv, NEW r \in Requests, Write(r)
  PROVE  /\ pc[r] = "write" /\ UNCHANGED <<log, active, call, snap>>
         /\ \A q \in Requests \ {r} : /\ pc'[q] = pc[q] /\ wrote'[q] = wrote[q]
                                      /\ ~InFlight(q)
         /\ \A o \in Orders \ {call[r].order} : orders'[o] = orders[o]
         /\ pc'[r] \in {"ok", "audit", "failed"}
         /\ ~Accepted(call[r]) => pc'[r] = "failed" /\ orders' = orders
         /\ Accepted(call[r]) =>
              LET row == orders[call[r].order]
                  new == NewRow(call[r], r, row) IN
              /\ orders'[call[r].order] = new /\ wrote'[r].to = new
              /\ pc'[r] = IF call[r].op = "remove" THEN "ok" ELSE "audit"
              /\ call[r].op # "create" => row \in LiveRow
<1> USE DEF SerialInv, IndInv
<1>1. /\ pc[r] = "write" /\ InFlight(r) /\ call[r] \in Call /\ call[r].order \in Orders
  BY DEF Write, InFlight, TypeOK, Call
<1>2. \A q \in Requests \ {r} : ~InFlight(q)
  BY <1>1 DEF OneAtATime
<1>3. call[r].op # "create" => snap[r] = orders[call[r].order] /\ snap[r] \in LiveRow
  BY <1>1 DEF SnapshotsFresh, DecidedOnARow, Decided
<1> QED
  BY <1>1, <1>2, <1>3 DEF Write, Goto, TypeOK

LEMMA ChecksStep ==
  ASSUME TrailInv, [Next /\ Serially]_vars
  PROVE  ChecksHold'
<1> USE DEF TrailInv
<1>t. TypeOK
  BY DEF SerialInv, IndInv
<1>1. ASSUME NEW r \in Requests, Begin(r) \/ Read(r) PROVE ChecksHold'
  <2>1. /\ active' = active
        /\ \A q \in Requests \ {r} : pc'[q] = pc[q] /\ call'[q] = call[q]
        /\ ~(pc'[r] = "write" /\ NeedsAssigneeCheck(call'[r]))
    <3>1. CASE Begin(r)
      <4>1. PICK c \in Calls :
              /\ call' = [call EXCEPT ![r] = c]
              /\ Goto(r, IF active[c.user] /\ MayEnter(c) THEN FirstStep(c) ELSE "refused")
        BY <3>1 DEF Begin
      <4> QED
        BY <1>t, <3>1, <4>1 DEF Begin, Goto, FirstStep, BeforeWrite, TypeOK
    <3>2. CASE Read(r)
      BY <1>t, <3>2 DEF Read, Goto, BeforeWrite, TypeOK
    <3> QED
      BY <1>1, <3>1, <3>2
  <2> QED
    BY <2>1 DEF ChecksHold
<1>2. ASSUME NEW r \in Requests, Validate(r) PROVE ChecksHold'
  <2>1. /\ active' = active /\ call' = call
        /\ \A q \in Requests \ {r} : pc'[q] = pc[q]
        /\ pc'[r] = "write" => active[call[r].assignee]
    BY <1>t, <1>2 DEF Validate, Goto, TypeOK
  <2> QED
    BY <2>1 DEF ChecksHold
<1>3. ASSUME NEW r \in Requests, Write(r) \/ Audit(r) \/ Abort(r) PROVE ChecksHold'
  <2>1. /\ active' = active /\ call' = call
        /\ \A q \in Requests \ {r} : pc'[q] = pc[q]
        /\ pc'[r] # "write"
    BY <1>t, <1>3 DEF Write, Audit, Abort, Goto, TypeOK
  <2> QED
    BY <2>1 DEF ChecksHold
<1>4. ASSUME NEW u \in Blockable, SetActive(u), Serially PROVE ChecksHold'
  <2>1. UNCHANGED <<pc, call>>
    BY <1>4 DEF SetActive
  <2>2. CASE active' = active
    BY <2>1, <2>2 DEF ChecksHold
  <2>3. CASE Idle
    BY <2>1, <2>3 DEF ChecksHold, Idle, InFlight
  <2> QED
    BY <1>4, <2>2, <2>3 DEF Serially
<1>5. ASSUME UNCHANGED <<active, pc, call>> PROVE ChecksHold'
  BY <1>5 DEF ChecksHold
<1> QED
  BY <1>1, <1>2, <1>3, <1>4, <1>5
     DEF Next, CalmNext, AllAnswered, Handle, Proceed, Cleanup, vars

\* Only create and assign give an order to somebody, and only to whom they name.
LEMMA NamedAssignee ==
  ASSUME NEW r \in Requests, NEW c \in Call, NEW row \in Row,
         c.op # "create" => row \in LiveRow,
         NewRow(c, r, row).assignee \in Users, NewRow(c, r, row).assignee # row.assignee
  PROVE  NeedsAssigneeCheck(c) /\ NewRow(c, r, row).assignee = c.assignee
<1>1. CASE c.op = "create"
  BY <1>1, NullAssumption DEF NewRow, Given, NeedsAssigneeCheck, Call
<1>2. CASE c.op = "assign"
  <2>1. NewRow(c, r, row).assignee = Given(c.assignee, row.assignee)
    BY <1>2 DEF NewRow, Stamped, LiveRow
  <2> QED
    BY <1>2, <2>1, NullAssumption DEF Given, NeedsAssigneeCheck, Call
<1>3. CASE c.op \in {"update", "status", "cancel"}
  BY <1>3, NewRowShape
<1>4. CASE c.op = "remove"
  BY <1>4, NullAssumption DEF NewRow, NoRow
<1> QED
  BY <1>1, <1>2, <1>3, <1>4 DEF Call

LEMMA AssigneesActive ==
  ASSUME TrailInv, [Next /\ Serially]_vars, NEW o \in Orders,
         orders'[o].assignee \in Users, orders'[o].assignee # orders[o].assignee
  PROVE  active[orders'[o].assignee]
<1>1. PICK r \in Requests : Write(r)
  BY DEF Next, CalmNext, AllAnswered, Handle, Proceed, Begin, Read, Validate, Audit,
         Abort, SetActive, Cleanup, vars
<1>2. o = call[r].order /\ Accepted(call[r]) /\ pc[r] = "write"
  BY <1>1, WriteFacts DEF TrailInv
<1>3. /\ call[r] \in Call /\ orders[o] \in Row
      /\ orders'[o] = NewRow(call[r], r, orders[o])
      /\ call[r].op # "create" => orders[o] \in LiveRow
  BY <1>1, <1>2, WriteFacts DEF TrailInv, SerialInv, IndInv, TypeOK
<1>4. NeedsAssigneeCheck(call[r]) /\ orders'[o].assignee = call[r].assignee
  BY <1>3, NamedAssignee
<1> QED
  BY <1>2, <1>4 DEF TrailInv, ChecksHold

LEMMA EntriesDueStep ==
  ASSUME TrailInv, [Next /\ Serially]_vars
  PROVE  EntriesDue'
<1> USE DEF TrailInv
<1>t. TypeOK
  BY DEF SerialInv, IndInv
<1>1. ASSUME NEW r \in Requests, Write(r) PROVE EntriesDue'
  <2>1. call' = call /\ \A q \in Requests \ {r} : pc'[q] # "audit"
    BY <1>1, WriteFacts DEF InFlight
  <2>2. pc'[r] = "audit" => wrote'[r].to = orders'[call[r].order]
    BY <1>1, WriteFacts
  <2> QED
    BY <2>1, <2>2 DEF EntriesDue
<1>2. ASSUME NEW r \in Requests, Begin(r) \/ Read(r) \/ Validate(r) \/ Audit(r) \/ Abort(r)
      PROVE  EntriesDue'
  <2>1. /\ UNCHANGED <<orders, wrote>>
        /\ \A q \in Requests \ {r} : pc'[q] = pc[q] /\ call'[q] = call[q]
    BY <1>t, <1>2 DEF Begin, Read, Validate, Audit, Abort, Goto, TypeOK
  <2>2. pc'[r] # "audit"
    <3>1. CASE Begin(r)
      <4>1. PICK c \in Calls :
              Goto(r, IF active[c.user] /\ MayEnter(c) THEN FirstStep(c) ELSE "refused")
        BY <3>1 DEF Begin
      <4> QED
        BY <1>t, <4>1 DEF Goto, FirstStep, BeforeWrite, TypeOK
    <3>2. CASE Read(r) \/ Validate(r) \/ Audit(r) \/ Abort(r)
      BY <1>t, <3>2 DEF Read, Validate, Audit, Abort, Goto, BeforeWrite, TypeOK
    <3> QED
      BY <1>2, <3>1, <3>2
  <2> QED
    BY <2>1, <2>2 DEF EntriesDue
<1>3. ASSUME UNCHANGED <<orders, pc, call, wrote>> PROVE EntriesDue'
  BY <1>3 DEF EntriesDue
<1> QED
  BY <1>1, <1>2, <1>3
     DEF Next, CalmNext, AllAnswered, Handle, Proceed, SetActive, Cleanup, vars

\* A step that touches neither the trail nor a row, and answers no request that has
\* an entry to leave, unless with a failure.
LEMMA QuietStepsFollow ==
  ASSUME WritesInOrder, TrailFollows, UNCHANGED <<orders, log, wrote>>,
         \A r \in Requests : pc[r] \in {"audit", "failed"}
                               => pc'[r] \in {pc[r], "failed"} /\ call'[r] = call[r]
  PROVE  TrailFollows'
<1>1. \A o \in Orders : CutShort(o) => CutShort(o)'
  BY DEF CutShort, Committed
<1>2. \A o \in Orders : Owed(o) => Owed(o)' \/ CutShort(o)'
  <2> SUFFICES ASSUME NEW o \in Orders, NEW r \in Requests,
                      pc[r] = "audit", StatusOp(call[r]), call[r].order = o
               PROVE  Owed(o)' \/ CutShort(o)'
    BY DEF Owed
  <2>1. Committed(r)' /\ pc'[r] \in {"audit", "failed"} /\ call'[r] = call[r]
    BY DEF WritesInOrder, Committed
  <2> QED
    BY <2>1 DEF Owed, CutShort, StatusOp
<1>3. \A i \in 1..Len(log), o \in Orders : LastStatus(i, o)' <=> LastStatus(i, o)
  BY DEF LastStatus, StatusEntry
<1> QED
  BY <1>1, <1>2, <1>3 DEF TrailFollows

\* The status of an order changes by a create, a status or a cancel, or it goes.
LEMMA WritesFollow ==
  ASSUME TrailInv, NEW r \in Requests, Write(r)
  PROVE  TrailFollows'
<1> USE DEF TrailInv
<1> DEFINE c == call[r]
<1>f. SerialInv /\ c \in Call /\ c.order \in Orders /\ TypeOK
  BY DEF SerialInv, IndInv, TypeOK, Call
<1>1. CASE ~Accepted(c)
  <2>1. UNCHANGED <<orders, log, call, wrote>>
    BY <1>1 DEF Write
  <2>2. pc[r] = "write" /\ \A q \in Requests \ {r} : pc'[q] = pc[q]
    BY <1>f, WriteFacts
  <2> QED
    BY <1>f, <2>1, <2>2, QuietStepsFollow DEF SerialInv, IndInv
<1>2. CASE Accepted(c)
  <2> SUFFICES ASSUME NEW o \in Orders, ~CutShort(o)', ~Owed(o)',
                      NEW i \in 1..Len(log), LastStatus(i, o)'
               PROVE  log[i].new = orders'[o].status
    BY <1>f, WriteFacts DEF TrailFollows
  <2>1. log' = log /\ call' = call /\ \A q \in Requests \ {r} : pc'[q] = pc[q] /\ ~InFlight(q)
    BY <1>f, WriteFacts
  <2>2. ~CutShort(o)
    <3>1. pc[r] = "write" /\ \A q \in Requests \ {r} : wrote'[q] = wrote[q]
      BY <1>f, WriteFacts
    <3> QED
      BY <2>1, <3>1 DEF CutShort, Committed
  <2>3. ~Owed(o)
    BY <1>f, <2>1, WriteFacts DEF Owed, InFlight
  <2>4. LastStatus(i, o)
    BY <2>1 DEF LastStatus, StatusEntry
  <2>5. log[i].new = orders[o].status /\ log[i].order = o
    BY <2>2, <2>3, <2>4 DEF TrailFollows, LastStatus, StatusEntry
  <2>6. CASE o # c.order
    BY <1>f, <2>5, <2>6, WriteFacts
  <2>7. CASE o = c.order
    <3>1. c.op # "remove"
      BY <1>2, <2>5, <2>7 DEF Accepted, HasEntries
    <3>2. pc'[r] = "audit"
      BY <1>2, <1>f, <3>1, WriteFacts
    <3>3. c.op \in {"update", "assign"}
      BY <1>f, <2>1, <2>7, <3>1, <3>2 DEF Owed, StatusOp, Call
    <3>4. /\ orders[o] \in Row /\ orders[o] \in LiveRow
          /\ orders'[o] = NewRow(c, r, orders[o])
      BY <1>2, <1>f, <2>7, <3>3, WriteFacts DEF TypeOK
    <3>5. orders'[o].status = orders[o].status
      BY <1>f, <3>3, <3>4, NewRowShape
    <3> QED
      BY <2>5, <3>5
  <2> QED
    BY <2>6, <2>7
<1> QED
  BY <1>1, <1>2

\* An entry about the status of an order records the one it has.
LEMMA AuditsFollow ==
  ASSUME TrailInv, NEW r \in Requests, Audit(r)
  PROVE  TrailFollows'
<1> USE DEF TrailInv
<1> DEFINE c == call[r]
           e == EntryOf(r, snap[r], wrote[r].to)
<1>f. TypeOK /\ c \in Call /\ c.order \in Orders /\ pc[r] = "audit" /\ InFlight(r)
  BY DEF Audit, SerialInv, IndInv, TypeOK, Call, InFlight
<1>1. CASE ~Live(c.order)
  <2>1. UNCHANGED <<orders, log, call, wrote>> /\ pc' = [pc EXCEPT ![r] = "failed"]
    BY <1>1 DEF Audit, Goto
  <2> QED
    BY <1>f, <2>1, QuietStepsFollow DEF SerialInv, IndInv, TypeOK
<1>2. CASE Live(c.order)
  <2>1. /\ log' = Append(log, e) /\ UNCHANGED <<orders, call, wrote>>
        /\ pc' = [pc EXCEPT ![r] = "ok"]
    BY <1>2 DEF Audit, Goto
  <2>2. /\ Len(log) \in Nat /\ Len(log') = Len(log) + 1 /\ log'[Len(log) + 1] = e
        /\ \A j \in 1..Len(log) : log'[j] = log[j]
    <3>1. log \in Seq(Entry)
      BY <1>f DEF TypeOK
    <3> HIDE DEF e
    <3> QED
      BY <2>1, <3>1
  <2>n. PICK n \in Nat : n = Len(log) + 1
    BY <2>2
  <2> SUFFICES ASSUME NEW o \in Orders, ~CutShort(o)', ~Owed(o)',
                      NEW i \in 1..Len(log'), LastStatus(i, o)'
               PROVE  log'[i].new = orders[o].status
    BY <2>1 DEF TrailFollows
  <2>3. CASE i = Len(log) + 1
    <3>1. e.order = o /\ e.action \in {"ORDER_CREATED", "STATUS_CHANGED", "ORDER_CANCELLED"}
      BY <2>2, <2>3 DEF LastStatus, StatusEntry
    <3>2. c.order = o /\ StatusOp(c)
      <4>1. c.op # "remove"
        BY <1>f DEF SerialInv, IndInv, WritesInOrder
      <4> QED
        BY <1>f, <3>1, <4>1 DEF EntryOf, AuditAction, StatusOp, Call
    <3>3. e.new = wrote[r].to.status
      BY <3>2 DEF EntryOf, NewValue, Recorded, StatusOp
    <3>4. wrote[r].to = orders[o]
      BY <1>f, <3>2 DEF EntriesDue
    <3> QED
      BY <2>2, <2>3, <3>3, <3>4
  <2>4. CASE i \in 1..Len(log)
    <3>1. /\ \A j \in 1..Len(log) : StatusEntry(j, o)' <=> StatusEntry(j, o)
          /\ ~StatusEntry(n, o)'
      <4>1. \A j \in 1..Len(log) : StatusEntry(j, o)' <=> StatusEntry(j, o)
        BY <2>2 DEF StatusEntry
      <4>2. n \in (i + 1)..Len(log')
        BY <2>2, <2>4, <2>n
      <4> QED
        BY <4>1, <4>2 DEF LastStatus
    <3>2. LastStatus(i, o)
      BY <2>2, <2>4, <3>1 DEF LastStatus
    <3>3. ~CutShort(o)
      BY <1>f, <2>1 DEF CutShort, Committed, TypeOK
    <3>4. ~Owed(o)
      <4>1. \A q \in Requests \ {r} : ~InFlight(q)
        BY <1>f DEF SerialInv, OneAtATime
      <4>2. ~(StatusOp(c) /\ c.order = o)
        <5>1. SUFFICES ASSUME StatusOp(c), c.order = o PROVE FALSE
          OBVIOUS
        <5>2. StatusEntry(n, o)'
          BY <2>2, <2>n, <5>1 DEF StatusEntry, EntryOf, AuditAction, StatusOp
        <5> QED
          BY <3>1, <5>2
      <4> QED
        BY <4>1, <4>2 DEF Owed, InFlight
    <3>5. log[i].new = orders[o].status
      BY <2>4, <3>2, <3>3, <3>4 DEF TrailFollows
    <3> QED
      BY <2>2, <2>4, <3>5
  <2> QED
    BY <2>2, <2>3, <2>4
<1> QED
  BY <1>1, <1>2

\* What cleanup leaves is the newest part of the trail.
LEMMA CleanupFollows ==
  ASSUME TrailInv, Cleanup
  PROVE  TrailFollows'
<1> USE DEF TrailInv
<1>1. PICK k \in 1..Len(log) : log' = SubSeq(log, k + 1, Len(log))
  BY DEF Cleanup
<1>2. log \in Seq(Entry)
  BY DEF SerialInv, IndInv, TypeOK
<1>3. /\ Len(log) \in Nat /\ Len(log') = Len(log) - k
      /\ \A i \in 1..Len(log') : log'[i] = log[i + k]
  BY <1>1, <1>2
<1>4. UNCHANGED <<orders, pc, call, wrote>>
  BY DEF Cleanup
<1> SUFFICES ASSUME NEW o \in Orders, ~CutShort(o), ~Owed(o),
                    NEW i \in 1..Len(log'), LastStatus(i, o)'
             PROVE  log'[i].new = orders[o].status
  BY <1>4 DEF TrailFollows, CutShort, Committed, Owed
<1>5. i + k \in 1..Len(log)
  BY <1>3
<1>6. \A j \in 1..Len(log') : StatusEntry(j, o)' <=> StatusEntry(j + k, o)
  BY <1>3 DEF StatusEntry
<1>7. LastStatus(i + k, o)
  <2>1. ASSUME NEW j \in (i + k) + 1..Len(log) PROVE ~StatusEntry(j, o)
    <3>1. j - k \in i + 1..Len(log') /\ j - k \in 1..Len(log') /\ (j - k) + k = j
      BY <1>3
    <3>2. ~StatusEntry(j - k, o)'
      BY <3>1 DEF LastStatus
    <3> QED
      BY <1>6, <3>1, <3>2
  <2>2. StatusEntry(i + k, o)
    BY <1>6 DEF LastStatus
  <2> QED
    BY <2>1, <2>2 DEF LastStatus
<1> QED
  BY <1>3, <1>5, <1>7 DEF TrailFollows

LEMMA TrailStep ==
  ASSUME TrailInv, [Next /\ Serially]_vars
  PROVE  TrailInv'
<1>1. SerialInv' /\ ChecksHold' /\ EntriesDue'
  BY SerialStep, ChecksStep, EntriesDueStep DEF TrailInv
<1>2. ASSUME NEW r \in Requests, Begin(r) \/ Read(r) \/ Validate(r) \/ Abort(r)
      PROVE  TrailFollows'
  <2>1. /\ UNCHANGED <<orders, log, wrote>>
        /\ \A q \in Requests \ {r} : pc'[q] = pc[q] /\ call'[q] = call[q]
        /\ pc[r] # "failed"
        /\ pc[r] = "audit" => pc'[r] = "failed" /\ call'[r] = call[r]
    BY <1>2 DEF Begin, Read, Validate, Abort, Goto, InFlight, TrailInv, SerialInv, IndInv, TypeOK
  <2> QED
    BY <2>1, QuietStepsFollow DEF TrailInv, SerialInv, IndInv
<1>3. ASSUME UNCHANGED <<orders, log, pc, call, wrote>> PROVE TrailFollows'
  BY <1>3, QuietStepsFollow DEF TrailInv, SerialInv, IndInv
<1>4. TrailFollows'
  BY <1>2, <1>3, WritesFollow, AuditsFollow, CleanupFollows
     DEF Next, CalmNext, AllAnswered, Handle, Proceed, SetActive, vars
<1> QED
  BY <1>1, <1>4 DEF TrailInv

THEOREM TrailInvariance == SerialSpec => []TrailInv
BY TrailInit, TrailStep, PTL DEF SerialSpec

\* Without overlapping requests the trail of an order ends at its status, wherever
\* a cleanup has cut it, unless a request was stopped between its update and its entry.
THEOREM SerialTrailEndsAtStatus == SerialSpec => []TrailEndsAtStatus
<1>1. TrailInv => TrailEndsAtStatus
  BY DEF TrailInv, TrailFollows, TrailEndsAtStatus, Owed, Idle, InFlight
<1> QED
  BY <1>1, TrailInvariance, PTL

\* While an entry is owed, the trail ends at the status it will start from.
OwedLinks ==
  \A r \in Requests : pc[r] = "audit" /\ StatusOp(call[r]) =>
    \/ CutShort(call[r].order)
    \/ \A i \in 1..Len(log) : LastStatus(i, call[r].order) => log[i].new = snap[r].status
LinkInv == TrailInv /\ TrailIsLinked /\ OwedLinks

\* A step that leaves the trail alone and brings no request to its audit.
LEMMA QuietStepsLink ==
  ASSUME LinkInv, log' = log,
         \A r \in Requests : /\ pc[r] = "failed" =>
                                  /\ pc'[r] = "failed" /\ call'[r] = call[r]
                                  /\ wrote'[r] = wrote[r]
                             /\ pc'[r] = "audit" => /\ pc[r] = "audit"
                                                    /\ call'[r] = call[r] /\ snap'[r] = snap[r]
  PROVE  TrailIsLinked' /\ OwedLinks'
<1>1. \A o \in Orders : CutShort(o) => CutShort(o)'
  BY DEF CutShort, Committed, StatusOp
<1>2. \A i, o : StatusEntry(i, o)' <=> StatusEntry(i, o)
  BY DEF StatusEntry
<1>3. TrailIsLinked'
  BY <1>1, <1>2 DEF LinkInv, TrailIsLinked, Before
<1>4. OwedLinks'
  <2> SUFFICES ASSUME NEW r \in Requests, pc'[r] = "audit", StatusOp(call'[r]),
                      ~CutShort(call[r].order)',
                      NEW i \in 1..Len(log), LastStatus(i, call[r].order)
               PROVE  log[i].new = snap[r].status
    BY <1>2 DEF OwedLinks, LastStatus
  <2>1. call[r].order \in Orders
    BY DEF LinkInv, TrailInv, SerialInv, IndInv, TypeOK, Call
  <2> QED
    BY <1>1, <2>1 DEF LinkInv, OwedLinks
<1> QED
  BY <1>3, <1>4

LEMMA WritesLink ==
  ASSUME LinkInv, NEW r \in Requests, Write(r)
  PROVE  TrailIsLinked' /\ OwedLinks'
<1>f. /\ SerialInv /\ pc[r] = "write" /\ call[r].order \in Orders
      /\ UNCHANGED <<log, call, snap>>
      /\ \A q \in Requests \ {r} : pc'[q] = pc[q] /\ ~InFlight(q)
  BY WriteFacts DEF LinkInv, TrailInv, SerialInv, IndInv, TypeOK, Call
<1>w. \A q \in Requests \ {r} : wrote'[q] = wrote[q]
  BY WriteFacts DEF LinkInv, TrailInv
<1>1. \A o \in Orders : CutShort(o) => CutShort(o)'
  BY <1>f, <1>w DEF CutShort, Committed
<1>2. \A i, o : StatusEntry(i, o)' <=> StatusEntry(i, o)
  BY <1>f DEF StatusEntry
<1>3. TrailIsLinked'
  BY <1>1, <1>2, <1>f DEF LinkInv, TrailIsLinked, Before
<1>4. OwedLinks'
  <2> SUFFICES ASSUME NEW q \in Requests, pc'[q] = "audit", ~CutShort(call[q].order)',
                      NEW i \in 1..Len(log), LastStatus(i, call[q].order)
               PROVE  log[i].new = snap[q].status
    BY <1>2, <1>f DEF OwedLinks, LastStatus
  <2>1. q = r
    BY <1>f DEF InFlight
  <2>2. ~Owed(call[r].order)
    BY <1>f DEF Owed, InFlight
  <2>3. log[i].new = orders[call[r].order].status
    BY <1>1, <1>f, <2>1, <2>2 DEF LinkInv, TrailInv, TrailFollows
  <2>4. snap[r] = orders[call[r].order]
    BY <1>f, CreateFromNothing DEF SerialInv, SnapshotsFresh
  <2> QED
    BY <2>1, <2>3, <2>4
<1> QED
  BY <1>3, <1>4

LEMMA AuditsLink ==
  ASSUME LinkInv, NEW r \in Requests, Audit(r)
  PROVE  TrailIsLinked' /\ OwedLinks'
<1> DEFINE e == EntryOf(r, snap[r], wrote[r].to)
<1>f. /\ TypeOK /\ call[r] \in Call /\ pc[r] = "audit" /\ call[r].op # "remove"
      /\ \A q \in Requests \ {r} : ~InFlight(q)
  BY DEF LinkInv, TrailInv, SerialInv, IndInv, TypeOK, WritesInOrder, OneAtATime, InFlight, Audit
<1>1. /\ pc'[r] \in {"ok", "failed"} /\ \A q \in Requests \ {r} : pc'[q] = pc[q]
      /\ pc'[r] = "ok" => log' = Append(log, e)
  BY <1>f DEF Audit, Goto, TypeOK
<1>2. OwedLinks'
  BY <1>f, <1>1 DEF OwedLinks, InFlight
<1>3. CASE pc'[r] = "failed"
  <2>1. log' = log /\ UNCHANGED <<call, snap, wrote>>
    BY <1>f, <1>3 DEF Audit, Goto, TypeOK
  <2> QED
    BY <1>1, <1>3, <1>f, <2>1, QuietStepsLink
<1>4. CASE pc'[r] = "ok"
  <2>1. log' = Append(log, e) /\ UNCHANGED <<call, wrote>>
    BY <1>1, <1>4 DEF Audit
  <2>2. /\ Len(log) \in Nat /\ Len(log') = Len(log) + 1 /\ log'[Len(log) + 1] = e
        /\ \A j \in 1..Len(log) : log'[j] = log[j]
    <3>1. log \in Seq(Entry)
      BY <1>f DEF TypeOK
    <3> HIDE DEF e
    <3> QED
      BY <2>1, <3>1
  <2> SUFFICES ASSUME NEW o \in Orders, ~CutShort(o)', NEW i \in 1..Len(log'), NEW j \in 1..Len(log'),
                      Before(i, j, o)'
               PROVE  log'[j].old = log'[i].new
    BY <1>2 DEF TrailIsLinked
  <2>c. ~CutShort(o)
    BY <1>f, <1>1, <2>1 DEF CutShort, Committed
  <2>3. \A m \in 1..Len(log) : StatusEntry(m, o)' <=> StatusEntry(m, o)
    BY <2>2 DEF StatusEntry
  <2>4. /\ i < j /\ i \in 1..Len(log) /\ StatusEntry(i, o)
        /\ StatusEntry(j, o)' /\ \A m \in i+1..j-1 : ~StatusEntry(m, o)
    BY <2>2, <2>3 DEF Before
  <2>5. CASE j \in 1..Len(log)
    <3>1. Before(i, j, o)
      BY <2>3, <2>4, <2>5 DEF Before
    <3> QED
      BY <2>c, <2>2, <2>4, <2>5, <3>1 DEF LinkInv, TrailIsLinked
  <2>6. CASE j = Len(log) + 1
    <3>1. e.order = o /\ e.action \in {"ORDER_CREATED", "STATUS_CHANGED", "ORDER_CANCELLED"}
      BY <2>2, <2>4, <2>6 DEF StatusEntry
    <3>2. call[r].order = o /\ StatusOp(call[r])
      BY <1>f, <3>1 DEF EntryOf, AuditAction, StatusOp, Call
    <3>3. e.old = snap[r].status
      BY <3>2 DEF EntryOf, Recorded, StatusOp
    <3>4. LastStatus(i, o)
      BY <2>2, <2>4, <2>6 DEF LastStatus
    <3>5. log[i].new = snap[r].status
      BY <1>f, <2>c, <2>4, <3>2, <3>4 DEF LinkInv, OwedLinks
    <3> QED
      BY <2>2, <2>4, <2>6, <3>3, <3>5
  <2> QED
    BY <2>2, <2>5, <2>6
<1> QED
  BY <1>1, <1>3, <1>4

LEMMA CleanupLinks ==
  ASSUME LinkInv, Cleanup
  PROVE  TrailIsLinked' /\ OwedLinks'
<1>1. PICK k \in 1..Len(log) : log' = SubSeq(log, k + 1, Len(log))
  BY DEF Cleanup
<1>2. log \in Seq(Entry)
  BY DEF LinkInv, TrailInv, SerialInv, IndInv, TypeOK
<1>3. /\ Len(log) \in Nat /\ Len(log') = Len(log) - k
      /\ \A i \in 1..Len(log') : log'[i] = log[i + k] /\ i + k \in 1..Len(log)
  BY <1>1, <1>2
<1>4. UNCHANGED <<pc, call, snap>> /\ \A o \in Orders : CutShort(o)' <=> CutShort(o)
  BY DEF Cleanup, CutShort, Committed
<1>5. \A i \in 1..Len(log'), o \in Orders : StatusEntry(i, o)' <=> StatusEntry(i + k, o)
  BY <1>3 DEF StatusEntry
<1>6. TrailIsLinked'
  <2> SUFFICES ASSUME NEW o \in Orders, ~CutShort(o), NEW i \in 1..Len(log'),
                      NEW j \in 1..Len(log'), Before(i, j, o)'
               PROVE  log'[j].old = log'[i].new
    BY <1>4 DEF TrailIsLinked
  <2>1. i < j /\ StatusEntry(i + k, o) /\ StatusEntry(j + k, o)
    BY <1>5 DEF Before
  <2>2. ASSUME NEW m \in (i + k) + 1..(j + k) - 1 PROVE ~StatusEntry(m, o)
    <3>1. m - k \in i+1..j-1 /\ m - k \in 1..Len(log') /\ (m - k) + k = m
      BY <1>3
    <3>2. ~StatusEntry(m - k, o)'
      BY <3>1 DEF Before
    <3> QED
      BY <1>5, <3>1, <3>2
  <2>3. Before(i + k, j + k, o)
    BY <1>3, <2>1, <2>2 DEF Before
  <2>4. log[j + k].old = log[i + k].new
    <3>1. i + k \in 1..Len(log) /\ j + k \in 1..Len(log)
      BY <1>3
    <3> QED
      BY <2>3, <3>1 DEF LinkInv, TrailIsLinked
  <2> QED
    BY <1>3, <2>4
<1>7. OwedLinks'
  <2> SUFFICES ASSUME NEW r \in Requests, pc[r] = "audit", StatusOp(call[r]),
                      ~CutShort(call[r].order)',
                      NEW i \in 1..Len(log'), LastStatus(i, call[r].order)'
               PROVE  log'[i].new = snap[r].status
    BY <1>4 DEF OwedLinks
  <2> DEFINE o == call[r].order
  <2>o. o \in Orders /\ call'[r].order = o
    BY <1>4 DEF LinkInv, TrailInv, SerialInv, IndInv, TypeOK, Call
  <2>1. StatusEntry(i + k, o)
    BY <1>4, <1>5, <2>o DEF LastStatus, StatusEntry
  <2>2. ASSUME NEW m \in (i + k) + 1..Len(log) PROVE ~StatusEntry(m, o)
    <3>1. m - k \in i+1..Len(log') /\ m - k \in 1..Len(log') /\ (m - k) + k = m
      BY <1>3
    <3>2. ~StatusEntry(m - k, o)'
      BY <1>4, <3>1 DEF LastStatus, StatusEntry
    <3> QED
      BY <1>5, <2>o, <3>1, <3>2
  <2>3. LastStatus(i + k, o)
    BY <2>1, <2>2 DEF LastStatus
  <2>4. ~CutShort(o)
    BY <1>4, <2>o DEF CutShort, Committed
  <2>5. i + k \in 1..Len(log) /\ log'[i] = log[i + k]
    BY <1>3
  <2> QED
    BY <2>3, <2>4, <2>5 DEF LinkInv, OwedLinks
<1> QED
  BY <1>6, <1>7

LEMMA LinkStep ==
  ASSUME LinkInv, [Next /\ Serially]_vars
  PROVE  LinkInv'
<1>1. TrailInv'
  BY TrailStep DEF LinkInv
<1>t. TypeOK
  BY DEF LinkInv, TrailInv, SerialInv, IndInv
<1>2. ASSUME NEW r \in Requests, Begin(r) \/ Read(r) \/ Validate(r) \/ Abort(r)
      PROVE  TrailIsLinked' /\ OwedLinks'
  <2>1. /\ log' = log /\ wrote' = wrote /\ pc[r] # "failed" /\ pc'[r] # "audit"
        /\ \A q \in Requests \ {r} : pc'[q] = pc[q] /\ call'[q] = call[q] /\ snap'[q] = snap[q]
    BY <1>2, <1>t DEF Begin, Read, Validate, Abort, Goto, InFlight, FirstStep, BeforeWrite, TypeOK
  <2> QED
    BY <2>1, QuietStepsLink
<1>3. ASSUME UNCHANGED <<log, pc, call, snap, wrote>> PROVE TrailIsLinked' /\ OwedLinks'
  BY <1>3, QuietStepsLink
<1>4. TrailIsLinked' /\ OwedLinks'
  BY <1>2, <1>3, WritesLink, AuditsLink, CleanupLinks
     DEF Next, CalmNext, AllAnswered, Handle, Proceed, SetActive, vars
<1> QED
  BY <1>1, <1>4 DEF LinkInv

\* Without overlapping requests, and wherever cleanups cut it, the trail of an order is a
\* path through its statuses; by SerialTrailEndsAtStatus it ends where the order is.
THEOREM SerialTrailIsLinked == SerialSpec => []TrailIsLinked
<1>1. Init => LinkInv
  BY TrailInit DEF Init, LinkInv, TrailIsLinked, OwedLinks, Before
<1>2. LinkInv => TrailIsLinked
  BY DEF LinkInv
<1> QED
  BY <1>1, <1>2, LinkStep, PTL DEF SerialSpec

\* Without overlapping requests, and with nobody blocked during one, no order is
\* given to a deactivated user.
THEOREM SerialAssigneesAreActive == SerialSpec => AssignedWhileActive
<1>1. TrailInv /\ [Next /\ Serially]_vars =>
        [\A o \in Orders :
           orders'[o].assignee \in Users /\ orders'[o].assignee # orders[o].assignee
             => active[orders'[o].assignee]]_vars
  BY AssigneesActive
<1> QED
  BY <1>1, TrailInvariance, PTL DEF SerialSpec, AssignedWhileActive
==============================================================================
