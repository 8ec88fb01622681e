------------------------------- MODULE BotFlows -------------------------------
(***************************************************************************)
(* The two conversations the Telegram bot holds with a user: the /create   *)
(* wizard (CreateTaskHandler.sessions) and the reason of a cancellation    *)
(* (CallbackHandler.pendingCancellations), as handlers of overlapping      *)
(* updates.  Both Maps are keyed by the Telegram user, so one user is      *)
(* modelled.                                                               *)
(*                                                                         *)
(* A handler runs without interruption up to its next `await`.  What it    *)
(* awaits is an account (getOrCreateUser), OrdersService or Telegram; each *)
(* may throw.  Only updates that await something between two uses of the   *)
(* Maps, or that a property speaks of, have a name in Updates; the others  *)
(* are actions of their own.  A message that is only answered (a title too *)
(* short, a date that does not parse, a reason too short, a text nobody    *)
(* waits for) changes nothing and is no step at all.                       *)
(*                                                                         *)
(* A wizard is named by the /create that opened it, a pending cancellation *)
(* by the press of the button that asked for it.                           *)
(***************************************************************************)
CONSTANTS Updates, None

ASSUME NoneAssumption == None \notin Updates

VARIABLES
  wizard,    \* sessions.get(id): the wizard that is open, or None
  step,      \* the step of each wizard; handlers share the session object
  deadline,  \* session.data.deadline of each wizard: the message that gave it
  pending,   \* pendingCancellations.get(id), or None
  pc,        \* where the handler of each update is, or what it answered
  subject,   \* the wizard or the pending cancellation it is about
  made,      \* orders created: the message whose deadline the order got
  cancelled, \* the reasons whose OrdersService.cancel took effect
  before,    \* history: the updates that were answered when this one came
  life       \* history: the updates that came since the last restart

maps == <<wizard, step, deadline, pending>>
effects == <<made, cancelled>>
history == <<before, life>>
vars == <<maps, pc, subject, effects, history>>

Steps == {"title", "description", "priority", "deadline"}
NextStep == [title |-> "description", description |-> "priority", priority |-> "deadline"]
Awaiting == {"opening", "pressing", "account", "create", "created", "reason",
             "cancel", "over", "threw", "reply"}
Answers == {"opened", "set", "done", "notCreated", "stopped", "aborted", "ended",
            "notCancelled", "refused", "lost"}

TypeOK ==
  /\ wizard \in Updates \cup {None}
  /\ step \in [Updates -> Steps]
  /\ deadline \in [Updates -> Updates \cup {None}]
  /\ pending \in Updates \cup {None}
  /\ pc \in [Updates -> {"idle"} \cup Awaiting \cup Answers]
  /\ subject \in [Updates -> Updates]
  /\ made \in [Updates -> Updates \cup {None}]
  /\ cancelled \subseteq Updates
  /\ before \in [Updates -> SUBSET Updates]
  /\ life \subseteq Updates

Init ==
  /\ wizard = None
  /\ step = [u \in Updates |-> "title"]
  /\ deadline = [u \in Updates |-> None]
  /\ pending = None
  /\ pc = [u \in Updates |-> "idle"]
  /\ subject = [u \in Updates |-> u]
  /\ made = [u \in Updates |-> None]
  /\ cancelled = {}
  /\ before = [u \in Updates |-> {}]
  /\ life = {}

Answered(u) == pc[u] \in Answers
InFlight(u) == pc[u] \in Awaiting
Goto(u, label) == pc' = [pc EXCEPT ![u] = label]

\* The middlewares find the handler of an update, which starts to work on s.
Arrive(u, s, label) ==
  /\ pc[u] = "idle"
  /\ Goto(u, label)
  /\ subject' = [subject EXCEPT ![u] = s]
  /\ before' = [before EXCEPT ![u] = {v \in Updates : Answered(v)}]
  /\ life' = life \cup {u}
  /\ UNCHANGED effects

\* A handler goes on.
Continue(u, from, to) ==
  /\ pc[u] = from
  /\ Goto(u, to)
  /\ UNCHANGED <<subject, history>>

-----------------------------------------------------------------------------
(* The wizard: CreateTaskHandler. *)

\* /create, up to getOrCreateUser.
CreateCommand(u) == Arrive(u, u, "opening") /\ UNCHANGED maps

\* A fresh session replaces the one that is there; a worker, a deactivated
\* account and an error leave it alone.
OpenWizard(u) ==
  \/ /\ Continue(u, "opening", "opened")
     /\ wizard' = u
     /\ UNCHANGED <<step, deadline, pending, effects>>
  \/ Continue(u, "opening", "refused") /\ UNCHANGED <<maps, effects>>

\* The title and the description, texts, and the priority, a button.
Advance ==
  /\ wizard # None
  /\ step[wizard] \in DOMAIN NextStep
  /\ step' = [step EXCEPT ![wizard] = NextStep[@]]
  /\ UNCHANGED <<wizard, deadline, pending, pc, subject, effects, history>>

\* Fault: a deadline that is there is kept.
DeadlineTextKeeping(u) ==
  /\ wizard # None
  /\ step[wizard] = "deadline"
  /\ Arrive(u, wizard, "account")
  /\ deadline' = [deadline EXCEPT ![wizard] = IF @ = None THEN u ELSE @]
  /\ UNCHANGED <<wizard, step, pending>>

\* A date or "-" at the last step, up to getOrCreateUser.
DeadlineText(u) ==
  /\ wizard # None
  /\ step[wizard] = "deadline"
  /\ Arrive(u, wizard, "account")
  /\ deadline' = [deadline EXCEPT ![wizard] = u]
  /\ UNCHANGED <<wizard, step, pending>>

\* getOrCreateUser.
FindAccount(u) ==
  /\ Continue(u, "account", "create") \/ Continue(u, "account", "notCreated")
  /\ UNCHANGED <<maps, effects>>

\* OrdersService.create of what the session says now.  It may throw before the
\* order is there, or after it (the audit insert).  Reading the session and the
\* insert are one step: no handler here sees whether the order is there yet.
CreateOrder(u) ==
  /\ \/ /\ Continue(u, "create", "created") \/ Continue(u, "create", "notCreated")
        /\ made' = [made EXCEPT ![u] = deadline[subject[u]]]
     \/ Continue(u, "create", "notCreated") /\ UNCHANGED made
  /\ UNCHANGED <<maps, cancelled>>

\* Fault: the session is not deleted.
ReplyCreatedOnly(u) == Continue(u, "created", "done") /\ UNCHANGED <<maps, effects>>

\* The reply, and only after it the end of the session, whichever it is by then.
\* A reply that fails ends in the catch: "Could not create the order."
ReplyCreated(u) ==
  \/ /\ Continue(u, "created", "done")
     /\ wizard' = None
     /\ UNCHANGED <<step, deadline, pending, effects>>
  \/ Continue(u, "created", "notCreated") /\ UNCHANGED <<maps, effects>>

\* Faults: /cancel leaves the session; it ends the other conversation too.
StopWizardOnly(u) == wizard # None /\ Arrive(u, wizard, "stopped") /\ UNCHANGED maps
StopBoth(u) ==
  /\ wizard # None
  /\ Arrive(u, wizard, "stopped")
  /\ wizard' = None /\ pending' = None
  /\ UNCHANGED <<step, deadline>>

\* /cancel while a wizard is open.
StopWizard(u) ==
  /\ wizard # None
  /\ Arrive(u, wizard, "stopped")
  /\ wizard' = None
  /\ UNCHANGED <<step, deadline, pending>>

-----------------------------------------------------------------------------
(* Cancelling an order: CallbackHandler. *)

\* The Cancel button of an order, up to getOrCreateUser.
CancelButton(u) == Arrive(u, u, "pressing") /\ UNCHANGED maps

AwaitReason(u) ==
  \/ /\ Continue(u, "pressing", "set")
     /\ pending' = u
     /\ UNCHANGED <<wizard, step, deadline, effects>>
  \/ Continue(u, "pressing", "refused") /\ UNCHANGED <<maps, effects>>

\* Fault: the pending cancellation stays.
AbortOnly(u) ==
  wizard = None /\ pending # None /\ Arrive(u, pending, "aborted") /\ UNCHANGED maps

\* /cancel, which CreateTaskHandler hands on when no wizard is open.
AbortCancellation(u) ==
  /\ wizard = None /\ pending # None
  /\ Arrive(u, pending, "aborted")
  /\ pending' = None
  /\ UNCHANGED <<wizard, step, deadline>>

\* Any other text that is long enough, up to getOrCreateUser.  ("/cancel" with
\* something behind it is such a text.)
ReasonText(u) ==
  /\ wizard = None /\ pending # None
  /\ Arrive(u, pending, "reason")
  /\ UNCHANGED maps

FindCanceller(u) ==
  /\ Continue(u, "reason", "cancel") \/ Continue(u, "reason", "threw")
  /\ UNCHANGED <<maps, effects>>

\* OrdersService.cancel, which may throw before the update or after it.
CancelOrder(u) ==
  /\ \/ /\ Continue(u, "cancel", "over") \/ Continue(u, "cancel", "threw")
        /\ cancelled' = cancelled \cup {u}
     \/ Continue(u, "cancel", "threw") /\ UNCHANGED cancelled
  /\ UNCHANGED <<maps, made>>

\* Fault: a reason ends the wizard as well.
ForgetBoth(u) ==
  /\ Continue(u, "over", "reply") \/ Continue(u, "threw", "notCancelled")
  /\ wizard' = None /\ pending' = None
  /\ UNCHANGED <<step, deadline, effects>>

\* Both ways out delete the pending cancellation, whichever it is by then.
Forget(u) ==
  /\ Continue(u, "over", "reply") \/ Continue(u, "threw", "notCancelled")
  /\ pending' = None
  /\ UNCHANGED <<wizard, step, deadline, effects>>

\* A reply that fails ends in the catch, which deletes once more.
ReplyCancelled(u) ==
  \/ Continue(u, "reply", "ended") /\ UNCHANGED <<maps, effects>>
  \/ /\ Continue(u, "reply", "notCancelled")
     /\ pending' = None
     /\ UNCHANGED <<wizard, step, deadline, effects>>

-----------------------------------------------------------------------------
\* Both Maps are in memory, and updates that were under way are not sent again.
Restart ==
  /\ wizard' = None /\ pending' = None
  /\ pc' = [u \in Updates |-> IF InFlight(u) THEN "lost" ELSE pc[u]]
  /\ life' = {}
  /\ UNCHANGED <<step, deadline, subject, effects, before>>

Receive(u) ==
  \/ CreateCommand(u) \/ DeadlineText(u) \/ StopWizard(u)
  \/ CancelButton(u) \/ AbortCancellation(u) \/ ReasonText(u)

Handle(u) ==
  \/ OpenWizard(u) \/ FindAccount(u) \/ CreateOrder(u) \/ ReplyCreated(u)
  \/ AwaitReason(u) \/ FindCanceller(u) \/ CancelOrder(u) \/ Forget(u)
  \/ ReplyCancelled(u)

Next == (\E u \in Updates : Receive(u) \/ Handle(u)) \/ Advance \/ Restart

Spec == Init /\ [][Next]_vars

-----------------------------------------------------------------------------
(* Properties. *)

\* Neither of two updates was answered when the other one came.
Overlap(u, v) == u \notin before[v] /\ v \notin before[u]

\* A wizard makes a second order only if the messages that made them overlapped,
\* or after the user was told that the first one could not be created (its reply
\* or its audit entry failed), or was told nothing (a restart).
DuplicatesHaveCause ==
  \A u, v \in Updates :
    made[u] # None /\ made[v] # None /\ subject[u] = subject[v] /\ u # v
      => \/ Overlap(u, v)
         \/ {pc[u], pc[v]} \cap {"notCreated", "lost"} # {}

\* An order gets the deadline of the message that made it, or that of a message
\* that came while it was being made: the session object is read after the await.
DeadlineOrOverlapped ==
  \A u \in Updates : made[u] \notin {None, u} => Overlap(u, made[u])

\* After "Order creation cancelled." nothing but a message that was being handled
\* already makes an order of that wizard.
StoppedForGood ==
  \A c, u \in Updates :
    pc[c] = "stopped" /\ made[u] # None /\ subject[u] = subject[c] => c \notin before[u]

\* The same for "Cancellation aborted": only a reason that was being handled
\* cancels the order all the same.
AbortedOrOverlapped ==
  \A c, u \in Updates :
    pc[c] = "aborted" /\ u \in cancelled /\ subject[u] = subject[c] => Overlap(c, u)

\* A wizard that was opened is open until it is used up or stopped, another one
\* is opened, or a message of an earlier wizard that came before it was opened is
\* done: deleting by user id reaches the wrong session in no other way, and
\* cancelling an order never does.
WizardsAreKept ==
  \A w \in Updates :
    w \in life /\ pc[w] = "opened" /\ wizard # w =>
      \E u \in life \ {w} :
        \/ pc[u] = "opened" /\ u \notin before[w]
        \/ pc[u] \in {"done", "stopped"} /\ (subject[u] = w \/ Overlap(u, w))

\* The same for the cancellations that wait for a reason.
CancellationsAreKept ==
  \A p \in Updates :
    p \in life /\ pc[p] = "set" /\ pending # p =>
      \E u \in life \ {p} :
        \/ pc[u] = "set" /\ u \notin before[p]
        \/ /\ pc[u] \in {"reply", "ended", "notCancelled", "aborted"}
           /\ subject[u] = p \/ Overlap(u, p)
===============================================================================
