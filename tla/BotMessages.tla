----------------------------- MODULE BotMessages -----------------------------
(***************************************************************************)
(* The messages of one Telegram chat: those that show an order and the     *)
(* buttons under them (BotService.buildOrderKeyboard, CallbackHandler,     *)
(* TasksHandler, MyTasksHandler), and the list of message ids by which     *)
(* /clear deletes them (sent-messages.store, ClearHandler).                *)
(*                                                                         *)
(* A button stays under its message until the message is edited, so it may *)
(* be pressed long after the order, or the role of the user, has changed.  *)
(* Handlers of several updates overlap; each goes from one await to the    *)
(* next: the account, OrdersService, Telegram.  A call of OrdersService is *)
(* one step here: what its statements may do to each other is in           *)
(* OrdersService.  There is one order, and an update is answered by one    *)
(* message, named by it; messages the bot cannot change matter as ids only.*)
(***************************************************************************)
EXTENDS Integers, Sequences, SequencesExt, FiniteSets

CONSTANTS
  Updates,    \* what Telegram delivers, each once
  MaxTracked, \* MAX_TRACKED_PER_CHAT
  FirstRows,  \* what the order may be at first
  Me, Other,  \* the user of this chat, and anybody else
  Nobody      \* an order that is unassigned; no order, message or role

Roles == {"ADMIN", "MANAGER", "WORKER"}
Privileged == {"ADMIN", "MANAGER"}
Closed == {"DONE", "CANCELLED"}
Row == [status : {"NEW", "IN_PROGRESS"} \cup Closed, assignee : {Me, Other, Nobody},
        creator : {Me, Other}]

ASSUME NamesAssumption == Me # Other /\ Nobody \notin {Me, Other}
ASSUME RowsAssumption == FirstRows \subseteq Row /\ MaxTracked \in Nat \ {0}

\* The ids of the message that is an update, and of the one that answers it.
Ids == Updates \X {"in", "out"}

Commands == {"tasks", "my", "clear", "other"}
Buttons == {"take", "start", "complete", "cancel", "details", "list", "back", "open"}

\* What a message shows: the line above the card, the order, the buttons, and whether
\* these lead back to a list.
Plain == [head |-> "text", row |-> Nobody, buttons |-> {}, listed |-> FALSE]
Gone == [Plain EXCEPT !.head = "gone"]
Face == [head : {"gone", "text", "page", "card", "details", "taken", "started",
                 "completed", "reason"},
         row : Row \cup {Nobody}, buttons : SUBSET Buttons, listed : BOOLEAN]

\* The handler of an update: where it is, the command or the button, the message of
\* the button and whether it led to a list, the role getOrCreateUser returned, the row
\* the service returned, the ids a /clear has yet to delete.
Job == [at : {"idle", "service", "edit", "send", "sent", "deleting", "notice", "over"},
        does : Commands \cup Buttons, on : Updates \cup {Nobody},
        listed : BOOLEAN, who : Roles \cup {Nobody}, got : Row \cup {Nobody}, ids : Seq(Ids)]
Idle == [at |-> "idle", does |-> "other", on |-> Nobody, listed |-> FALSE,
         who |-> Nobody, got |-> Nobody, ids |-> <<>>]
Over == [Idle EXCEPT !.at = "over"]

VARIABLES
  order,    \* the row of the order
  face,     \* what the answer to each update shows
  tracked,  \* sentMessages.get(chatId)
  job,      \* the handler of each update
  owed      \* history: of the last MaxTracked ids remembered since the start, those
            \* that no /clear has tried to delete

vars == <<order, face, tracked, job, owed>>

TypeOK ==
  /\ order \in Row
  /\ face \in [Updates -> Face]
  /\ tracked \in Seq(Ids) /\ Len(tracked) <= MaxTracked
  /\ job \in [Updates -> Job]
  /\ owed \in Seq(Ids) /\ Len(owed) <= MaxTracked

Init ==
  /\ order \in FirstRows
  /\ face = [u \in Updates |-> Gone]
  /\ tracked = <<>>
  /\ job = [u \in Updates |-> Idle]
  /\ owed = <<>>

Goto(u, label) == job' = [job EXCEPT ![u].at = label]
End(u) == job' = [job EXCEPT ![u] = Over]
Answer(u) == job' = [job EXCEPT ![u] = [Idle EXCEPT !.at = "send"]]

Pressed(u) == job[u].does \in Buttons

\* The catch of each handler: a command is answered with a text, and so are four of
\* the buttons if the second answerCbQuery does not throw.
Fail(u, does) ==
  \/ does \in Commands \cup {"take", "start", "complete", "details"} /\ Answer(u)
  \/ does \in Buttons /\ End(u)

-----------------------------------------------------------------------------
(* sent-messages.store. *)

Newest(s) == IF Len(s) > MaxTracked THEN Tail(s) ELSE s

\* rememberMessage: the oldest ids go when there are too many.
Remember(id) ==
  /\ tracked' = Newest(Append(tracked, id))
  /\ owed' = Newest(Append(owed, id))

-----------------------------------------------------------------------------
(* The keyboard of an order. *)

\* buildOrderKeyboard.
Keyboard(row, asker, view, listed) ==
  {b \in Buttons :
     \/ b = "take" /\ row.status = "NEW" /\ row.assignee = Nobody /\ asker \in Privileged
     \/ b = "start" /\ row.status = "NEW" /\ row.assignee # Nobody
     \/ b = "complete" /\ row.status = "IN_PROGRESS"
     \/ b = "cancel" /\ row.status \notin Closed /\ asker \in Privileged
     \/ b = "details" /\ view = "card"
     \/ b = "list" /\ view = "card" /\ listed
     \/ view = "details" /\ b = (IF listed THEN "open" ELSE "back")}

\* Fault: an order that was just picked up is shown without its keyboard.
ShowCardBare(head, row, asker, listed) ==
  [head |-> head, row |-> row, listed |-> listed,
   buttons |-> IF head = "taken" THEN {} ELSE Keyboard(row, asker, "card", listed)]

\* formatOrderCard, formatOrderDetails, renderPage: the texts tell a row from
\* another, and do not tell when it was written.  (A page shows less of a row than a
\* card does; its row is the one that was read for it.)
ShowCard(head, row, asker, listed) ==
  [head |-> head, row |-> row, buttons |-> Keyboard(row, asker, "card", listed),
   listed |-> listed]
ShowDetails(row, asker, listed) ==
  [head |-> "details", row |-> row, buttons |-> Keyboard(row, asker, "details", listed),
   listed |-> listed]
ShowPage(row) == [head |-> "page", row |-> row, buttons |-> {"open"}, listed |-> TRUE]
AskReason == [Plain EXCEPT !.head = "reason"]

-----------------------------------------------------------------------------
(* Updates come in. *)

\* A message: the tracking middleware remembers it, and the handler asks for the
\* account.  Its role is any, as an admin may change it at any time; a deactivated one
\* is an error, answered with a text like the other commands are.
Command(u) ==
  /\ job[u].at = "idle"
  /\ \/ \E c \in {"tasks", "my"} : \E r \in {"MANAGER", "WORKER"} :
          job' = [job EXCEPT ![u] = [@ EXCEPT !.at = "service", !.does = c, !.who = r]]
     \/ Answer(u)
  /\ Remember(<<u, "in">>)
  /\ UNCHANGED <<order, face>>

\* /clear: clearChat takes the ids, its own among them, and leaves none.
Clear(u) ==
  LET all == Newest(Append(tracked, <<u, "in">>)) IN
  /\ job[u].at = "idle"
  /\ job' = [job EXCEPT ![u] = [@ EXCEPT !.at = "deleting", !.does = "clear", !.ids = all]]
  /\ tracked' = <<>>
  /\ owed' = Newest(Append(owed, <<u, "in">>))
  /\ UNCHANGED <<order, face>>

\* A button, with the account as above.
Press(u) ==
  /\ job[u].at = "idle"
  /\ \E m \in Updates : \E b \in face[m].buttons :
       \/ \E r \in {"MANAGER", "WORKER"} :
            job' = [job EXCEPT ![u] = [@ EXCEPT
                      !.at = IF b = "cancel" THEN "edit" ELSE "service", !.does = b,
                      !.on = m, !.listed = face[m].listed, !.who = r]]
       \/ Fail(u, b)
  /\ UNCHANGED <<order, face, tracked, owed>>

-----------------------------------------------------------------------------
(* Handlers go on. *)

MayView(asker) == asker \in Privileged \/ Me \in {order.creator, order.assignee}

MayMove(asker) == asker \in Privileged \/ order.assignee = Me

\* What assign, changeStatus and findOne allow, and what they make of the order.
Allowed(b, asker) ==
  CASE b = "take" -> asker \in Privileged /\ order.status \notin Closed
    [] b = "start" -> order.status = "NEW" /\ MayMove(asker)
    [] b = "complete" -> order.status = "IN_PROGRESS" /\ MayMove(asker)
    [] OTHER -> MayView(asker)
Result(b) ==
  CASE b = "take" -> [order EXCEPT !.assignee = Me]
    [] b = "start" -> [order EXCEPT !.status = "IN_PROGRESS"]
    [] b = "complete" -> [order EXCEPT !.status = "DONE"]
    [] OTHER -> order

\* The call of OrdersService behind a button: assign does not ask whether the order is
\* free.  It may throw after the update too.
CallService(u) ==
  LET b == job[u].does IN
  /\ job[u].at = "service" /\ Pressed(u) /\ b # "list"
  /\ \/ /\ Allowed(b, job[u].who)
        /\ order' = Result(b)
        /\ \/ job' = [job EXCEPT ![u] = [@ EXCEPT !.at = "edit", !.got = Result(b)]]
           \/ Fail(u, b)
     \/ Fail(u, b) /\ UNCHANGED order
  /\ UNCHANGED <<face, tracked, owed>>

\* findAll: for /tasks and the button to the list what the role may see, for /my
\* what the user created or is assigned to.
ListOrders(u) ==
  LET seen == IF job[u].does = "my" THEN Me \in {order.creator, order.assignee}
                                   ELSE MayView(job[u].who) IN
  /\ job[u].at = "service" /\ job[u].does \in {"tasks", "my", "list"}
  /\ \/ job' = [job EXCEPT ![u] = [@ EXCEPT
                  !.at = IF job[u].does = "list" THEN "edit" ELSE "send",
                  !.got = IF seen THEN order ELSE Nobody]]
     \/ Fail(u, job[u].does)
  /\ UNCHANGED <<order, face, tracked, owed>>

\* What each button makes of its message.
FaceAfter(u) ==
  LET j == job[u] IN
  CASE j.does = "take" -> ShowCard("taken", j.got, j.who, FALSE)
    [] j.does = "start" -> ShowCard("started", j.got, j.who, FALSE)
    [] j.does = "complete" -> ShowCard("completed", j.got, j.who, FALSE)
    [] j.does \in {"back", "open"} -> ShowCard("card", j.got, j.who, j.listed)
    [] j.does = "details" -> ShowDetails(j.got, j.who, j.listed)
    [] j.does = "list" -> IF j.got = Nobody THEN Plain ELSE ShowPage(j.got)
    [] j.does = "cancel" -> AskReason

\* editMessageText.  Telegram refuses it for a message that is gone, and one that
\* would change nothing.
Edit(u) ==
  LET m == job[u].on IN
  /\ job[u].at = "edit"
  /\ \/ /\ face[m] \notin {Gone, FaceAfter(u)}
        /\ face' = [face EXCEPT ![m] = FaceAfter(u)]
        /\ End(u)
     \/ Fail(u, job[u].does) /\ UNCHANGED face
  /\ UNCHANGED <<order, tracked, owed>>

\* ctx.reply.  (/my sends a summary and a statistic around its cards: texts.)
Reply(u) ==
  LET j == job[u] IN
  /\ j.at = "send"
  /\ \/ /\ face' = [face EXCEPT ![u] =
             IF j.got = Nobody THEN Plain
             ELSE IF j.does = "my" THEN ShowCard("card", j.got, j.who, FALSE)
             ELSE ShowPage(j.got)]
        /\ job' = [job EXCEPT ![u] = [Idle EXCEPT !.at = "sent", !.does =
                     IF j.does = "clear" THEN "clear" ELSE "other"]]
     \/ /\ IF j.does = "other" THEN End(u) ELSE Answer(u)
        /\ UNCHANGED face
  /\ UNCHANGED <<order, tracked, owed>>

\* The wrapper of ctx.reply, when Telegram has named the message.
RememberReply(u) ==
  /\ job[u].at = "sent"
  /\ Remember(<<u, "out">>)
  /\ IF job[u].does = "clear" THEN Goto(u, "notice") ELSE End(u)
  /\ UNCHANGED <<order, face>>

\* What becomes of the chat when a message is deleted, or is not.
Vanish(ids) ==
  \/ face' = [u \in Updates |-> IF <<u, "out">> \in ids THEN Gone ELSE face[u]]
  \/ UNCHANGED face

\* Fault: the list is emptied when all has been deleted.
DeleteAndForget(u) ==
  LET ids == job[u].ids IN
  /\ job[u].at = "deleting"
  /\ IF ids = <<>>
     THEN Goto(u, "send") /\ tracked' = <<>> /\ UNCHANGED <<face, owed>>
     ELSE /\ job' = [job EXCEPT ![u].ids = Tail(ids)]
          /\ owed' = RemoveFirst(owed, Head(ids))
          /\ Vanish({Head(ids)}) /\ UNCHANGED tracked
  /\ UNCHANGED order

\* clearChat: one id after the other, failures ignored.
Delete(u) ==
  LET ids == job[u].ids IN
  /\ job[u].at = "deleting"
  /\ IF ids = <<>>
     THEN Goto(u, "send") /\ UNCHANGED <<face, owed>>
     ELSE /\ job' = [job EXCEPT ![u].ids = Tail(ids)]
          /\ owed' = RemoveFirst(owed, Head(ids))
          /\ Vanish({Head(ids)})
  /\ UNCHANGED <<order, tracked>>

\* The timer of onClear: the notice and the command, whose ids stay in the list.
Timer(u) ==
  /\ job[u].at = "notice"
  /\ Vanish({<<u, "in">>, <<u, "out">>})
  /\ End(u)
  /\ UNCHANGED <<order, tracked, owed>>

-----------------------------------------------------------------------------
(* What goes on elsewhere. *)

\* Other users, or this one over HTTP, work on the order.  (That it is deleted adds
\* nothing: every call may fail, and a message keeps what it shows.)
Elsewhere ==
  /\ order.status \notin Closed
  /\ \/ \E u \in {Me, Other, Nobody} : order' = [order EXCEPT !.assignee = u]
     \/ order' = [order EXCEPT !.status = IF @ = "NEW" THEN "IN_PROGRESS" ELSE "DONE"]
     \/ order' = [order EXCEPT !.status = "CANCELLED"]
  /\ UNCHANGED <<face, tracked, job, owed>>

\* The list is in memory; timers and handlers under way are lost.
Restart ==
  /\ tracked' = <<>> /\ owed' = <<>>
  /\ job' = [u \in Updates |-> IF job[u].at = "idle" THEN Idle ELSE Over]
  /\ UNCHANGED <<order, face>>

Handle(u) ==
  \/ CallService(u) \/ ListOrders(u) \/ Edit(u)
  \/ Reply(u) \/ RememberReply(u) \/ Delete(u) \/ Timer(u)

Next ==
  \/ \E u \in Updates : Command(u) \/ Clear(u) \/ Press(u) \/ Handle(u)
  \/ Elsewhere \/ Restart

Spec == Init /\ [][Next]_vars

-----------------------------------------------------------------------------
(* Properties. *)

\* /clear reaches what it promises to: each of the last MaxTracked ids remembered since
\* the start that no /clear has tried to delete is in the list, or a /clear has it in
\* hand.  So nothing is lost that comes while a /clear deletes.
NothingEscapesClear ==
  ToSet(owed) \subseteq ToSet(tracked) \cup UNION {ToSet(job[u].ids) : u \in Updates}

\* bot.service.ts:281, "Every edit of an order message must pass this back": a
\* message that shows an order keeps buttons (the one that asks for the reason of a
\* cancellation shows none); and if the order is as shown, open and one's own, one of
\* them is a button that OrdersService lets its assignee use to carry it on.
NoDeadEnds ==
  \A u \in Updates : face[u].row # Nobody =>
    /\ face[u].buttons # {}
    /\ face[u].head # "page" /\ face[u].row = order
         /\ order.assignee = Me /\ order.status \notin Closed
         => \E b \in face[u].buttons \cap {"start", "complete"} : Allowed(b, "WORKER")
===============================================================================
