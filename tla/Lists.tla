-------------------------------- MODULE Lists --------------------------------
(***************************************************************************)
(* What is read: the three paged lists (OrdersService.findAll,             *)
(* UsersService.getUsers, AuditsService.getLogs) and the three statistics  *)
(* (getStats, getUsersStats, getActionStats), while the table they read    *)
(* goes on changing.                                                       *)
(*                                                                         *)
(* A page is a count and a findMany, two statements; the statistics are    *)
(* three or four at once.  One reader, over one of the tables (`list`),    *)
(* walks the pages as the bot's Next button and any client does: newest    *)
(* first, while the last answer said that there are more.                  *)
(***************************************************************************)
EXTENDS Integers, FiniteSets

CONSTANTS
  MaxRows,   \* bound: the rows a table will ever have had
  PageSize,  \* limit of the query, PAGE_SIZE of the bot
  Kinds,     \* per list, the rows there may be
  Queries,   \* per list, what readers ask for
  TopUsers,  \* take of the busiest users in getActionStats
  Any        \* a filter that was not given; no row; no figure yet

Tables == {"orders", "users", "logs"}
Ids == 1..MaxRows  \* in the order of created_at

ASSUME BoundsAssumption == MaxRows \in Nat /\ {PageSize, TopUsers} \subseteq Nat \ {0}
ASSUME ListsAssumption ==
  /\ DOMAIN Kinds = Tables /\ DOMAIN Queries = Tables
  /\ \A t \in Tables : Any \notin Kinds[t]
  /\ \A q \in Queries["orders"] : q.role \in {"ADMIN", "MANAGER", "WORKER"}

VARIABLES
  list,     \* the table that is read in this behaviour
  rows,     \* its rows
  born,     \* how many rows it has had
  passed,   \* whether the deadlines called "soon" have passed
  pc,       \* where the reader is
  query,    \* what was asked
  now,      \* `passed` when it was asked: `new Date()` in the filter
  page,     \* the page under way
  total,    \* the count of that page
  shown,    \* its rows
  figures,  \* the ids that each statement of a statistic counted
  seen,     \* history: the ids on the pages so far
  kept,     \* history: the ids that have matched since the walk began, or
            \* whose rows are as they were when the statistic was asked for
  gone,     \* history: the ids that matched and then did not
  entered   \* history: some row came to match between count and findMany

walk == <<pc, query, now, page, total, shown, figures>>
history == <<seen, kept, gone, entered>>
vars == <<list, rows, born, passed, walk, history>>

Rows == [Ids -> Kinds[list] \cup {Any}]

\* What getStats, getUsersStats and getActionStats ask the database.
Statements == [orders |-> {"total", "byStatus", "byPriority", "overdue"},
               users |-> {"total", "active", "inactive", "byRole"},
               logs |-> {"total", "byAction", "byUser"}]

TypeOK ==
  /\ list \in Tables
  /\ rows \in Rows
  /\ born \in 0..MaxRows
  /\ passed \in BOOLEAN /\ now \in BOOLEAN
  /\ pc \in {"idle", "count", "page", "more", "figures", "done"}
  /\ query \in Queries[list] \cup {Any}
  /\ page \in Nat /\ total \in 0..MaxRows
  /\ shown \in Rows
  /\ figures \in [Statements[list] -> (SUBSET Ids) \cup {Any}]
  /\ seen \subseteq Ids /\ kept \subseteq Ids /\ gone \subseteq Ids
  /\ entered \in BOOLEAN

NoRows == [i \in Ids |-> Any]
NoFigures == [f \in Statements[list] |-> Any]

Init ==
  /\ list \in Tables
  /\ born \in 0..MaxRows
  /\ rows \in {table \in Rows : \A i \in Ids : i > born => table[i] = Any}
  /\ passed = FALSE /\ now = FALSE
  /\ pc = "idle" /\ query = Any /\ page = 0 /\ total = 0
  /\ shown = NoRows /\ figures = NoFigures
  /\ seen = {} /\ kept = {} /\ gone = {} /\ entered = FALSE

-----------------------------------------------------------------------------
(* The filters. *)

Given(filter, value) == filter # Any => filter = value

\* The ValidationPipe converts what a flag is given to (enableImplicitConversion): the
\* text "false" to true like any text that is not empty, before the @Transform of the DTO sees it.
Flag(text) == text # Any

Late(row, time) == row.due = "past" \/ (row.due = "soon" /\ time)
Closed == {"DONE", "CANCELLED"}

\* checkAccessPermission: whom findOne shows an order.
MayView(q, row) ==
  q.role \in {"ADMIN", "MANAGER"} \/ row.creator = q.user \/ row.assignee = q.user

\* The condition for workers, of findAll and getStats.
Visible(q, row) ==
  q.role = "WORKER" => row.creator = q.user \/ row.assignee = q.user

\* Faults: the search overwrites the OR of the role (as the comment above findAll
\* tells); `overdue` replaces the status filter by none.
OrderMatchesOverwriting(q, row, time) ==
  /\ q.search \/ Visible(q, row)
  /\ Given(q.status, row.status)
  /\ Given(q.creator, row.creator)
  /\ IF Flag(q.unassigned) THEN row.assignee = Any ELSE Given(q.assignee, row.assignee)
  /\ q.search => row.hit
  /\ Flag(q.overdue) => Late(row, time) /\ (q.status = Any => row.status \notin Closed)
OrderMatchesClosed(q, row, time) ==
  /\ Visible(q, row)
  /\ Given(q.status, row.status)
  /\ Given(q.creator, row.creator)
  /\ IF Flag(q.unassigned) THEN row.assignee = Any ELSE Given(q.assignee, row.assignee)
  /\ q.search => row.hit
  /\ Flag(q.overdue) => Late(row, time)

\* findAll: the AND of whatever was given.  priority and the deadline range are
\* further conjuncts like `status`.
OrderMatches(q, row, time) ==
  /\ Visible(q, row)
  /\ Given(q.status, row.status)
  /\ Given(q.creator, row.creator)
  /\ IF Flag(q.unassigned) THEN row.assignee = Any ELSE Given(q.assignee, row.assignee)
  /\ q.search => row.hit
  /\ Flag(q.overdue) => Late(row, time) /\ (q.status = Any => row.status \notin Closed)

\* getUsers.
UserMatches(q, row) ==
  /\ Given(q.role, row.role)
  /\ Flag(q.active) => row.active
  /\ q.search => row.hit

\* getLogs; getOrderLogs and getUserLogs with one filter, getRecentLogs with none.
\* q.action is the set of actions that contain the text; dates are one more conjunct.
LogMatches(q, row) ==
  /\ Given(q.order, row.order)
  /\ Given(q.by, row.by)
  /\ q.action # Any => row.action \in q.action

Matches(q, row, time) ==
  CASE list = "orders" -> OrderMatches(q, row, time)
    [] list = "users" -> UserMatches(q, row)
    [] list = "logs" -> LogMatches(q, row)

Matching(table) == {i \in Ids : table[i] # Any /\ Matches(query, table[i], now)}

\* orderBy createdAt desc.
Position(i, ids) == Cardinality({j \in ids : j > i})

\* Fault: skip is page * limit, as if pages were counted from 0.
SliceFromZero(ids, p) == {i \in ids : /\ Position(i, ids) >= p * PageSize
                                      /\ Position(i, ids) < (p + 1) * PageSize}

\* skip: (page - 1) * limit, take: limit.
Slice(ids, p) == {i \in ids : /\ Position(i, ids) >= (p - 1) * PageSize
                              /\ Position(i, ids) < p * PageSize}

-----------------------------------------------------------------------------
(* The table changes. *)

\* What a change of the table does to the history of what is under way.
Record(table) ==
  CASE pc \in {"count", "page", "more"} ->
         /\ kept' = kept \cap Matching(table)
         /\ gone' = gone \cup (Matching(rows) \ Matching(table))
         /\ entered' = (entered \/ (pc = "page" /\ ~(Matching(table) \subseteq Matching(rows))))
    [] pc = "figures" ->
         /\ kept' = {i \in kept : table[i] = rows[i]}
         /\ UNCHANGED <<gone, entered>>
    [] OTHER -> UNCHANGED <<kept, gone, entered>>

\* The table is any table when the reader comes, and changes while there is one.
Put(table) ==
  /\ pc \notin {"idle", "done"}
  /\ rows' = table /\ Record(table)
  /\ UNCHANGED <<list, passed, walk, seen>>

\* OrdersService.create, AuthService.register, AuditsService.createLog.
Insert ==
  /\ born < MaxRows
  /\ born' = born + 1
  /\ \E row \in Kinds[list] : Put([rows EXCEPT ![born + 1] = row])

\* The updates of orders and of users; entries of the trail are not updated.
Update ==
  /\ list # "logs"
  /\ \E i \in Ids, row \in Kinds[list] : rows[i] # Any /\ Put([rows EXCEPT ![i] = row])
  /\ UNCHANGED born

\* OrdersService.remove.  Users are never deleted.
Remove ==
  /\ list = "orders"
  /\ \E i \in Ids : rows[i] # Any /\ Put([rows EXCEPT ![i] = Any])
  /\ UNCHANGED born

\* cleanupOldLogs: everything up to some day.
Cleanup ==
  /\ list = "logs"
  /\ \E last \in Ids : Put([i \in Ids |-> IF i <= last THEN Any ELSE rows[i]])
  /\ UNCHANGED born

\* The deadlines called "soon" pass; other tables have none.
Tick ==
  /\ list = "orders" /\ pc # "done"
  /\ ~passed /\ passed' = TRUE
  /\ UNCHANGED <<list, rows, born, walk, history>>

-----------------------------------------------------------------------------
(* The reader. *)

\* A page is asked for: the filter is built, and count sent.
AskPage ==
  /\ UNCHANGED <<list, rows, born, passed, total, shown, figures, seen, gone, entered>>
  /\ pc = "idle" /\ pc' = "count"
  /\ query' \in Queries[list] /\ page' = 1 /\ now' = passed
  /\ kept' = Matching(rows)'

\* The next one is: deadlines may have passed since.
NextPage ==
  /\ UNCHANGED <<list, rows, born, passed, query, figures, seen, entered>>
  /\ pc = "more" /\ pc' = "count"
  /\ page' = page + 1 /\ now' = passed
  /\ kept' = kept \cap Matching(rows)'
  /\ gone' = gone \cup (Matching(rows) \ Matching(rows)')
  /\ shown' = NoRows /\ total' = 0

\* count.
CountRows ==
  /\ pc = "count" /\ pc' = "page"
  /\ total' = Cardinality(Matching(rows))
  /\ entered' = FALSE
  /\ UNCHANGED <<list, rows, born, passed, query, now, page, shown, figures, seen, kept, gone>>

\* findMany, and the answer: totalPages is the count divided and rounded up.
ReadPage ==
  LET ids == Slice(Matching(rows), page) IN
  /\ pc = "page"
  /\ shown' = [i \in Ids |-> IF i \in ids THEN rows[i] ELSE Any]
  /\ seen' = seen \cup ids
  /\ pc' = IF page * PageSize < total THEN "more" ELSE "done"
  /\ UNCHANGED <<list, rows, born, passed, query, now, page, total, figures, kept, gone, entered>>

\* Statistics are asked for: the statements are built and sent together.
AskFigures ==
  /\ pc = "idle" /\ pc' = "figures"
  /\ query' \in Queries[list] /\ now' = passed
  /\ kept' = Ids
  /\ UNCHANGED <<list, rows, born, passed, page, total, shown, figures, seen, gone, entered>>

\* formatOrder, isOverdue of the bot, and the fourth statement of getStats.
Overdue(row, time) == Late(row, time) /\ row.status \notin Closed

\* Fault: the fourth statement of getStats forgets `...where`.
CountsAnybodys(statement, row) ==
  CASE list = "orders" -> IF statement = "overdue" THEN Overdue(row, now) ELSE Visible(query, row)
    [] list = "users" -> /\ statement = "active" => row.active
                         /\ statement = "inactive" => ~row.active
    [] list = "logs" -> TRUE

\* The rows a statement counts.  The filter of getStats is the role's alone; the
\* two other statistics are for admins, over everything (getActionStats: of some
\* days).  byStatus, byPriority, byRole, byAction and byUser are groups: what
\* counts here is the sum over them, and for byUser that over the busiest users.
Counts(statement, row) ==
  CASE list = "orders" -> /\ Visible(query, row)
                          /\ statement = "overdue" => Overdue(row, now)
    [] list = "users" -> /\ statement = "active" => row.active
                         /\ statement = "inactive" => ~row.active
    [] list = "logs" -> TRUE

EntriesOf(user) == {i \in Ids : rows[i] # Any /\ rows[i].by = user}
Authors == {rows[i].by : i \in {j \in Ids : rows[j] # Any}}

\* orderBy: { _count: { changedById: 'desc' } }, take: 10, ties in any order.
Busiest(users) ==
  /\ users \subseteq Authors
  /\ Cardinality(users) <= TopUsers
  /\ \A v \in Authors \ users :
       /\ Cardinality(users) = TopUsers
       /\ \A u \in users : Cardinality(EntriesOf(u)) >= Cardinality(EntriesOf(v))

\* The ids that a statement counts now.
Counted(f) ==
  IF f = "byUser"
  THEN {UNION {EntriesOf(u) : u \in users} : users \in {us \in SUBSET Authors : Busiest(us)}}
  ELSE {{i \in Ids : rows[i] # Any /\ Counts(f, rows[i])}}

\* Promise.all: a pool of connections runs the statements in any order.
ReadFigure ==
  /\ pc = "figures"
  /\ \E f \in Statements[list] :
       /\ figures[f] = Any
       /\ \E ids \in Counted(f) : figures' = [figures EXCEPT ![f] = ids]
  /\ pc' = IF \A f \in Statements[list] : figures'[f] # Any THEN "done" ELSE "figures"
  /\ UNCHANGED <<list, rows, born, passed, query, now, page, total, shown, history>>

Next ==
  \/ Insert \/ Update \/ Remove \/ Cleanup \/ Tick
  \/ AskPage \/ NextPage \/ CountRows \/ ReadPage \/ AskFigures \/ ReadFigure

Spec == Init /\ [][Next]_vars

-----------------------------------------------------------------------------
(* Properties. *)

\* Whoever walks the pages to the last one sees every row that was in the list all
\* the while, unless a newer row left the list, which moves the older ones to a
\* page already read, or a row came between the count and the page that count
\* called the last.  So the audit trail, which loses its oldest entries only, is
\* read completely even while cleanupOldLogs runs.
WalkMissesOnlyWhatMoved ==
  pc = "done" /\ page > 0 =>
    \A i \in kept \ seen : entered \/ (list # "logs" /\ \E j \in gone : j > i)

\* No list shows a worker an order that findOne would refuse them: the two ways of
\* saying who may see an order agree, whatever filters are combined with it.
ListsShowOnlyViewable ==
  list = "orders" => \A i \in Ids : shown[i] # Any => MayView(query, shown[i])

\* A row that is listed as overdue is marked overdue when it is formatted, unless
\* the reader asked for closed orders.
OverdueRowsAreMarked ==
  list = "orders" /\ query # Any /\ Flag(query.overdue) /\ query.status \notin Closed =>
    \A i \in Ids : shown[i] # Any => Overdue(shown[i], passed)

\* The figures of a statistic, read one by one, add up over the rows that stayed
\* as they were: what is in the total is in every grouping, a user is either active
\* or inactive, the overdue orders are those of the total that are, and a user is left
\* out of byUser only for others who are as busy.
FiguresAddUp ==
  pc = "done" /\ page = 0 =>
    \A i \in kept :
      LET in(f) == i \in figures[f] IN
      CASE list = "orders" ->
             /\ in("byStatus") <=> in("total")
             /\ in("byPriority") <=> in("total")
             /\ in("overdue") <=> in("total") /\ Overdue(rows[i], now)
        [] list = "users" ->
             /\ in("byRole") <=> in("total")
             /\ in("total") <=> in("active") \/ in("inactive")
             /\ ~(in("active") /\ in("inactive"))
        [] list = "logs" ->
             /\ in("byAction") <=> in("total")
             /\ in("byUser") => in("total")
             /\ in("total") /\ ~in("byUser") =>
                  Cardinality(figures["byUser"])
                    >= TopUsers * Cardinality({j \in kept : rows[j] # Any /\ rows[j].by = rows[i].by})
==============================================================================
