---------------------------- MODULE BotFlowsProofs ----------------------------
(***************************************************************************)
(* Machine-checked proofs about BotFlows, for any number of updates,       *)
(* errors and restarts included.                                           *)
(***************************************************************************)
EXTENDS BotFlows, TLAPS

-----------------------------------------------------------------------------
(* The inductive invariant. *)

\* The updates that work on a wizard, or did: those that may make an order, and
\* those that were told it is over.
Making(u) == pc[u] \in {"account", "create", "created", "done"} \/ made[u] # None
Over(u) == pc[u] \in {"done", "stopped"}

\* The same for a pending cancellation.
Reasoning(u) ==
  pc[u] \in {"reason", "cancel", "over", "threw", "reply"} \/ u \in cancelled
Settled(u) ==
  \/ pc[u] \in {"reply", "ended", "notCancelled", "aborted"}
  \/ u \in cancelled /\ pc[u] = "lost"

\* What an update has done fits where its handler is.
Labels ==
  \A u \in Updates :
    /\ pc[u] = "idle" => u \notin life
    /\ InFlight(u) => u \in life
    /\ made[u] # None => pc[u] \in {"created", "done", "notCreated", "lost"}
    /\ u \in cancelled =>
         pc[u] \in {"over", "threw", "reply", "ended", "notCancelled", "lost"}

\* The answers an update found given stay given.
Past == \A u, v \in Updates : u \in before[v] => Answered(u)

\* Wizards have been opened, and pending cancellations asked for.
Subjects ==
  /\ wizard # None => pc[wizard] = "opened"
  /\ pending # None => pc[pending] = "set"
  /\ \A u \in Updates :
       /\ Making(u) \/ Over(u) => pc[subject[u]] = "opened"
       /\ Reasoning(u) \/ Settled(u) => pc[subject[u]] = "set"

\* The deadline a handler will use is its own, or that of a message that came
\* while it was at work.
OwnOrOverlapping(u, d) == pc[d] # "idle" /\ (d = u \/ Overlap(u, d))
Deadlines ==
  \A u \in Updates :
    /\ deadline[u] # None => pc[deadline[u]] # "idle"
    /\ pc[u] \in {"account", "create"} =>
         /\ deadline[subject[u]] # None
         /\ OwnOrOverlapping(u, deadline[subject[u]])
    /\ made[u] # None => OwnOrOverlapping(u, made[u])

\* What was used up, stopped, answered or aborted is not in the Maps, ...
UsedUp ==
  \A u \in Updates :
    /\ Over(u) => wizard # subject[u]
    /\ Settled(u) => pending # subject[u]

\* ... so that nobody who came later works on it.
NobodyLater ==
  \A u, v \in Updates :
    u \in before[v] /\ subject[u] = subject[v] =>
      /\ Making(v) => ~Over(u)
      /\ Reasoning(v) => pc[u] # "aborted"
      /\ pc[v] = "aborted" => u \notin cancelled

\* A handler that deletes an entry it does not work on came before the entry.
Deleters ==
  \A u \in Updates :
    /\ InFlight(u) /\ Making(u) /\ wizard \in before[u] => subject[u] = wizard
    /\ InFlight(u) /\ Reasoning(u) /\ pending \in before[u] => subject[u] = pending

IndInv ==
  /\ TypeOK
  /\ Labels
  /\ Past
  /\ Subjects
  /\ Deadlines
  /\ UsedUp
  /\ NobodyLater
  /\ Deleters
  /\ WizardsAreKept
  /\ CancellationsAreKept

-----------------------------------------------------------------------------
(* Every step keeps it. *)

\* Updates arrive: nobody has heard of them yet.
LEMMA CreateCommandKeeps ==
  ASSUME IndInv, NEW u \in Updates, CreateCommand(u)
  PROVE  IndInv'
<1>1. TypeOK'
  BY DEF IndInv, CreateCommand, Arrive, Goto, TypeOK, maps, effects, Awaiting
<1>2. Labels'
  BY DEF IndInv, CreateCommand, Arrive, Goto, Labels, InFlight, Awaiting, effects,
         TypeOK
<1>3. Past'
  BY DEF IndInv, CreateCommand, Arrive, Goto, Past, Answered, Answers
<1>4. Subjects'
  BY DEF IndInv, CreateCommand, Arrive, Goto, Subjects, Making, Over, Reasoning,
         Settled, maps, effects, Labels
<1>5. Deadlines'
  BY DEF IndInv, CreateCommand, Arrive, Goto, Deadlines, OwnOrOverlapping, Overlap,
         maps, effects, Labels
<1>6. UsedUp'
  BY DEF IndInv, CreateCommand, Arrive, Goto, UsedUp, Over, Settled, maps, effects
<1>7. NobodyLater'
  BY DEF IndInv, CreateCommand, Arrive, Goto, NobodyLater, Making, Over, Reasoning,
         effects, Labels
<1>8. Deleters'
  BY DEF IndInv, CreateCommand, Arrive, Goto, Deleters, InFlight, Awaiting, Making,
         Reasoning, maps, effects, Labels
<1>9. WizardsAreKept'
  BY DEF IndInv, CreateCommand, Arrive, Goto, WizardsAreKept, Overlap, maps
<1>10. CancellationsAreKept'
  BY DEF IndInv, CreateCommand, Arrive, Goto, CancellationsAreKept, Overlap, maps
<1> QED
  BY <1>1, <1>2, <1>3, <1>4, <1>5, <1>6, <1>7, <1>8, <1>9, <1>10 DEF IndInv

\* A message works on the wizard that is open, which is neither used up nor
\* stopped.
LEMMA DeadlineTextKeeps ==
  ASSUME IndInv, NEW u \in Updates, DeadlineText(u)
  PROVE  IndInv'
<1>1. TypeOK'
  BY DEF IndInv, DeadlineText, Arrive, Goto, TypeOK, effects, Awaiting
<1>2. Labels'
  BY DEF IndInv, DeadlineText, Arrive, Goto, Labels, InFlight, Awaiting, effects,
         TypeOK
<1>3. Past'
  BY DEF IndInv, DeadlineText, Arrive, Goto, Past, Answered, Answers
<1>4. Subjects'
  BY DEF IndInv, DeadlineText, Arrive, Goto, Subjects, Making, Over, Reasoning,
         Settled, effects, TypeOK, Labels
<1>5. Deadlines'
  BY NoneAssumption
     DEF IndInv, DeadlineText, Arrive, Goto, Deadlines, OwnOrOverlapping, Overlap,
         effects, TypeOK, Labels, Past, Answered, Answers
<1>6. UsedUp'
  BY DEF IndInv, DeadlineText, Arrive, Goto, UsedUp, Over, Settled, effects
<1>7. NobodyLater'
  BY DEF IndInv, DeadlineText, Arrive, Goto, NobodyLater, Making, Over, Reasoning,
         effects, TypeOK, Subjects, Settled, UsedUp
<1>8. Deleters'
  BY DEF IndInv, DeadlineText, Arrive, Goto, Deleters, InFlight, Awaiting, Making,
         Reasoning, effects, TypeOK, Labels
<1>9. WizardsAreKept'
  BY DEF IndInv, DeadlineText, Arrive, Goto, WizardsAreKept, Overlap
<1>10. CancellationsAreKept'
  BY DEF IndInv, DeadlineText, Arrive, Goto, CancellationsAreKept, Overlap
<1> QED
  BY <1>1, <1>2, <1>3, <1>4, <1>5, <1>6, <1>7, <1>8, <1>9, <1>10 DEF IndInv

\* /cancel takes the wizard out of the Map: itself the reason it is gone.
LEMMA StopWizardKeeps ==
  ASSUME IndInv, NEW u \in Updates, StopWizard(u)
  PROVE  IndInv'
<1>1. TypeOK'
  BY DEF IndInv, StopWizard, Arrive, Goto, TypeOK, effects, Answers
<1>2. Labels'
  BY DEF IndInv, StopWizard, Arrive, Goto, Labels, InFlight, Awaiting, effects,
         TypeOK
<1>3. Past'
  BY DEF IndInv, StopWizard, Arrive, Goto, Past, Answered, Answers
<1>4. Subjects'
  BY DEF IndInv, StopWizard, Arrive, Goto, Subjects, Making, Over, Reasoning,
         Settled, effects, TypeOK, Labels
<1>5. Deadlines'
  BY DEF IndInv, StopWizard, Arrive, Goto, Deadlines, OwnOrOverlapping, Overlap,
         effects, Labels
<1>6. UsedUp'
  BY NoneAssumption
     DEF IndInv, StopWizard, Arrive, Goto, UsedUp, Over, Settled, effects, TypeOK
<1>7. NobodyLater'
  BY DEF IndInv, StopWizard, Arrive, Goto, NobodyLater, Making, Over, Reasoning,
         effects, Labels, Past, Answered, Answers
<1>8. Deleters'
  BY NoneAssumption
     DEF IndInv, StopWizard, Arrive, Goto, Deleters, InFlight, Awaiting, Making,
         Reasoning, effects, TypeOK
<1>9. WizardsAreKept'
  BY DEF IndInv, StopWizard, Arrive, Goto, WizardsAreKept, Overlap, TypeOK
<1>10. CancellationsAreKept'
  BY DEF IndInv, StopWizard, Arrive, Goto, CancellationsAreKept, Overlap
<1> QED
  BY <1>1, <1>2, <1>3, <1>4, <1>5, <1>6, <1>7, <1>8, <1>9, <1>10 DEF IndInv

LEMMA CancelButtonKeeps ==
  ASSUME IndInv, NEW u \in Updates, CancelButton(u)
  PROVE  IndInv'
<1>1. TypeOK'
  BY DEF IndInv, CancelButton, Arrive, Goto, TypeOK, maps, effects, Awaiting
<1>2. Labels'
  BY DEF IndInv, CancelButton, Arrive, Goto, Labels, InFlight, Awaiting, effects,
         TypeOK
<1>3. Past'
  BY DEF IndInv, CancelButton, Arrive, Goto, Past, Answered, Answers
<1>4. Subjects'
  BY DEF IndInv, CancelButton, Arrive, Goto, Subjects, Making, Over, Reasoning,
         Settled, maps, effects, Labels
<1>5. Deadlines'
  BY DEF IndInv, CancelButton, Arrive, Goto, Deadlines, OwnOrOverlapping, Overlap,
         maps, effects, Labels
<1>6. UsedUp'
  BY DEF IndInv, CancelButton, Arrive, Goto, UsedUp, Over, Settled, maps, effects
<1>7. NobodyLater'
  BY DEF IndInv, CancelButton, Arrive, Goto, NobodyLater, Making, Over, Reasoning,
         effects, Labels
<1>8. Deleters'
  BY DEF IndInv, CancelButton, Arrive, Goto, Deleters, InFlight, Awaiting, Making,
         Reasoning, maps, effects, Labels
<1>9. WizardsAreKept'
  BY DEF IndInv, CancelButton, Arrive, Goto, WizardsAreKept, Overlap, maps
<1>10. CancellationsAreKept'
  BY DEF IndInv, CancelButton, Arrive, Goto, CancellationsAreKept, Overlap, maps
<1> QED
  BY <1>1, <1>2, <1>3, <1>4, <1>5, <1>6, <1>7, <1>8, <1>9, <1>10 DEF IndInv

\* /cancel takes the pending cancellation out of the Map.
LEMMA AbortCancellationKeeps ==
  ASSUME IndInv, NEW u \in Updates, AbortCancellation(u)
  PROVE  IndInv'
<1>1. TypeOK'
  BY DEF IndInv, AbortCancellation, Arrive, Goto, TypeOK, effects, Answers
<1>2. Labels'
  BY DEF IndInv, AbortCancellation, Arrive, Goto, Labels, InFlight, Awaiting,
         effects, TypeOK
<1>3. Past'
  BY DEF IndInv, AbortCancellation, Arrive, Goto, Past, Answered, Answers
<1>4. Subjects'
  BY DEF IndInv, AbortCancellation, Arrive, Goto, Subjects, Making, Over, Reasoning,
         Settled, effects, TypeOK, Labels
<1>5. Deadlines'
  BY DEF IndInv, AbortCancellation, Arrive, Goto, Deadlines, OwnOrOverlapping,
         Overlap, effects, Labels
<1>6. UsedUp'
  BY NoneAssumption
     DEF IndInv, AbortCancellation, Arrive, Goto, UsedUp, Over, Settled, TypeOK
<1>7. NobodyLater'
  BY DEF IndInv, AbortCancellation, Arrive, Goto, NobodyLater, Making, Over,
         Reasoning, effects, TypeOK, Labels, Past, Answered, Answers, Settled,
         UsedUp
<1>8. Deleters'
  BY NoneAssumption
     DEF IndInv, AbortCancellation, Arrive, Goto, Deleters, InFlight, Awaiting,
         Making, Reasoning, TypeOK
<1>9. WizardsAreKept'
  BY DEF IndInv, AbortCancellation, Arrive, Goto, WizardsAreKept, Overlap
<1>10. CancellationsAreKept'
  BY DEF IndInv, AbortCancellation, Arrive, Goto, CancellationsAreKept, Overlap,
         TypeOK
<1> QED
  BY <1>1, <1>2, <1>3, <1>4, <1>5, <1>6, <1>7, <1>8, <1>9, <1>10 DEF IndInv

\* A reason works on the cancellation that is pending.
LEMMA ReasonTextKeeps ==
  ASSUME IndInv, NEW u \in Updates, ReasonText(u)
  PROVE  IndInv'
<1>1. TypeOK'
  BY DEF IndInv, ReasonText, Arrive, Goto, TypeOK, maps, effects, Awaiting
<1>2. Labels'
  BY DEF IndInv, ReasonText, Arrive, Goto, Labels, InFlight, Awaiting, effects,
         TypeOK
<1>3. Past'
  BY DEF IndInv, ReasonText, Arrive, Goto, Past, Answered, Answers
<1>4. Subjects'
  BY DEF IndInv, ReasonText, Arrive, Goto, Subjects, Making, Over, Reasoning,
         Settled, maps, effects, TypeOK, Labels
<1>5. Deadlines'
  BY DEF IndInv, ReasonText, Arrive, Goto, Deadlines, OwnOrOverlapping, Overlap,
         maps, effects, Labels
<1>6. UsedUp'
  BY DEF IndInv, ReasonText, Arrive, Goto, UsedUp, Over, Settled, maps, effects
<1>7. NobodyLater'
  BY DEF IndInv, ReasonText, Arrive, Goto, NobodyLater, Making, Over, Reasoning,
         effects, TypeOK, Subjects, Settled, UsedUp
<1>8. Deleters'
  BY DEF IndInv, ReasonText, Arrive, Goto, Deleters, InFlight, Awaiting, Making,
         Reasoning, maps, effects, TypeOK, Labels
<1>9. WizardsAreKept'
  BY DEF IndInv, ReasonText, Arrive, Goto, WizardsAreKept, Overlap, maps
<1>10. CancellationsAreKept'
  BY DEF IndInv, ReasonText, Arrive, Goto, CancellationsAreKept, Overlap, maps
<1> QED
  BY <1>1, <1>2, <1>3, <1>4, <1>5, <1>6, <1>7, <1>8, <1>9, <1>10 DEF IndInv

\* A /create puts a wizard into the Map that no update has worked on.
LEMMA OpenWizardKeeps ==
  ASSUME IndInv, NEW u \in Updates, OpenWizard(u)
  PROVE  IndInv'
<1>1. TypeOK'
  BY DEF IndInv, OpenWizard, Continue, Goto, TypeOK, maps, effects, history, Answers
<1>2. Labels'
  BY DEF IndInv, OpenWizard, Continue, Goto, Labels, InFlight, Awaiting, effects,
         history, TypeOK
<1>3. Past'
  BY DEF IndInv, OpenWizard, Continue, Goto, Past, Answered, Answers, history,
         TypeOK
<1>4. Subjects'
  BY DEF IndInv, OpenWizard, Continue, Goto, Subjects, Making, Over, Reasoning,
         Settled, maps, effects, TypeOK
<1>5. Deadlines'
  BY DEF IndInv, OpenWizard, Continue, Goto, Deadlines, OwnOrOverlapping, Overlap,
         maps, effects, history, TypeOK
<1>6. UsedUp'
  BY DEF IndInv, OpenWizard, Continue, Goto, UsedUp, Over, Settled, maps, effects,
         TypeOK, Subjects
<1>7. NobodyLater'
  BY DEF IndInv, OpenWizard, Continue, Goto, NobodyLater, Making, Over, Reasoning,
         effects, history, TypeOK
<1>8. Deleters'
  BY DEF IndInv, OpenWizard, Continue, Goto, Deleters, InFlight, Awaiting, Making,
         Reasoning, maps, effects, history, TypeOK, Past, Answered, Answers
<1>9. WizardsAreKept'
  BY DEF IndInv, OpenWizard, Continue, Goto, WizardsAreKept, Overlap, maps, history,
         TypeOK, Labels, InFlight, Past, Answered, Answers
<1>10. CancellationsAreKept'
  BY DEF IndInv, OpenWizard, Continue, Goto, CancellationsAreKept, Overlap, maps,
         history, TypeOK
<1> QED
  BY <1>1, <1>2, <1>3, <1>4, <1>5, <1>6, <1>7, <1>8, <1>9, <1>10 DEF IndInv

\* Steps between the Maps.
LEMMA FindAccountKeeps ==
  ASSUME IndInv, NEW u \in Updates, FindAccount(u)
  PROVE  IndInv'
<1>1. TypeOK'
  BY DEF IndInv, FindAccount, Continue, Goto, TypeOK, maps, effects, history,
         Awaiting, Answers
<1>2. Labels'
  BY DEF IndInv, FindAccount, Continue, Goto, Labels, InFlight, Awaiting, effects,
         history, TypeOK
<1>3. Past'
  BY DEF IndInv, FindAccount, Continue, Goto, Past, Answered, Answers, history,
         TypeOK
<1>4. Subjects'
  BY DEF IndInv, FindAccount, Continue, Goto, Subjects, Making, Over, Reasoning,
         Settled, maps, effects, TypeOK
<1>5. Deadlines'
  BY DEF IndInv, FindAccount, Continue, Goto, Deadlines, OwnOrOverlapping, Overlap,
         maps, effects, history, TypeOK
<1>6. UsedUp'
  BY DEF IndInv, FindAccount, Continue, Goto, UsedUp, Over, Settled, maps, effects,
         TypeOK
<1>7. NobodyLater'
  BY DEF IndInv, FindAccount, Continue, Goto, NobodyLater, Making, Over, Reasoning,
         effects, history, TypeOK
<1>8. Deleters'
  BY DEF IndInv, FindAccount, Continue, Goto, Deleters, InFlight, Awaiting, Making,
         Reasoning, maps, effects, history, TypeOK
<1>9. WizardsAreKept'
  BY DEF IndInv, FindAccount, Continue, Goto, WizardsAreKept, Overlap, maps,
         history, TypeOK
<1>10. CancellationsAreKept'
  BY DEF IndInv, FindAccount, Continue, Goto, CancellationsAreKept, Overlap, maps,
         history, TypeOK
<1> QED
  BY <1>1, <1>2, <1>3, <1>4, <1>5, <1>6, <1>7, <1>8, <1>9, <1>10 DEF IndInv

\* The order gets the deadline the session has now.
LEMMA CreateOrderKeeps ==
  ASSUME IndInv, NEW u \in Updates, CreateOrder(u)
  PROVE  IndInv'
<1>1. TypeOK'
  BY DEF IndInv, CreateOrder, Continue, Goto, TypeOK, maps, history, Awaiting,
         Answers
<1>2. Labels'
  BY DEF IndInv, CreateOrder, Continue, Goto, Labels, InFlight, Awaiting, history,
         TypeOK
<1>3. Past'
  BY DEF IndInv, CreateOrder, Continue, Goto, Past, Answered, Answers, history,
         TypeOK
<1>4. Subjects'
  BY DEF IndInv, CreateOrder, Continue, Goto, Subjects, Making, Over, Reasoning,
         Settled, maps, TypeOK
<1>5. Deadlines'
  BY DEF IndInv, CreateOrder, Continue, Goto, Deadlines, OwnOrOverlapping, Overlap,
         maps, history, TypeOK
<1>6. UsedUp'
  BY DEF IndInv, CreateOrder, Continue, Goto, UsedUp, Over, Settled, maps, TypeOK
<1>7. NobodyLater'
  BY DEF IndInv, CreateOrder, Continue, Goto, NobodyLater, Making, Over, Reasoning,
         history, TypeOK
<1>8. Deleters'
  BY DEF IndInv, CreateOrder, Continue, Goto, Deleters, InFlight, Awaiting, Making,
         Reasoning, maps, history, TypeOK
<1>9. WizardsAreKept'
  BY DEF IndInv, CreateOrder, Continue, Goto, WizardsAreKept, Overlap, maps,
         history, TypeOK
<1>10. CancellationsAreKept'
  BY DEF IndInv, CreateOrder, Continue, Goto, CancellationsAreKept, Overlap, maps,
         history, TypeOK
<1> QED
  BY <1>1, <1>2, <1>3, <1>4, <1>5, <1>6, <1>7, <1>8, <1>9, <1>10 DEF IndInv

\* The wizard that is deleted is that of the handler, or one that overlaps it.
LEMMA ReplyCreatedKeeps ==
  ASSUME IndInv, NEW u \in Updates, ReplyCreated(u)
  PROVE  IndInv'
<1>1. TypeOK'
  BY DEF IndInv, ReplyCreated, Continue, Goto, TypeOK, maps, effects, history,
         Answers
<1>2. Labels'
  BY DEF IndInv, ReplyCreated, Continue, Goto, Labels, InFlight, Awaiting, effects,
         history, TypeOK
<1>3. Past'
  BY DEF IndInv, ReplyCreated, Continue, Goto, Past, Answered, Answers, history,
         TypeOK
<1>4. Subjects'
  BY DEF IndInv, ReplyCreated, Continue, Goto, Subjects, Making, Over, Reasoning,
         Settled, maps, effects, TypeOK
<1>5. Deadlines'
  BY DEF IndInv, ReplyCreated, Continue, Goto, Deadlines, OwnOrOverlapping, Overlap,
         maps, effects, history, TypeOK
<1>6. UsedUp'
  BY NoneAssumption
     DEF IndInv, ReplyCreated, Continue, Goto, UsedUp, Over, Settled, maps, effects,
         TypeOK
<1>7. NobodyLater'
  BY DEF IndInv, ReplyCreated, Continue, Goto, NobodyLater, Making, Over, Reasoning,
         effects, history, TypeOK, Past, Answered, Answers
<1>8. Deleters'
  BY NoneAssumption
     DEF IndInv, ReplyCreated, Continue, Goto, Deleters, InFlight, Awaiting, Making,
         Reasoning, maps, effects, history, TypeOK
<1>9. WizardsAreKept'
  BY DEF IndInv, ReplyCreated, Continue, Goto, WizardsAreKept, Overlap, maps,
         history, TypeOK, Labels, InFlight, Past, Answered, Answers, Making,
         Deleters
<1>10. CancellationsAreKept'
  BY DEF IndInv, ReplyCreated, Continue, Goto, CancellationsAreKept, Overlap, maps,
         history, TypeOK
<1> QED
  BY <1>1, <1>2, <1>3, <1>4, <1>5, <1>6, <1>7, <1>8, <1>9, <1>10 DEF IndInv

\* A press puts a pending cancellation into the Map that nobody has worked on.
LEMMA AwaitReasonKeeps ==
  ASSUME IndInv, NEW u \in Updates, AwaitReason(u)
  PROVE  IndInv'
<1>1. TypeOK'
  BY DEF IndInv, AwaitReason, Continue, Goto, TypeOK, maps, effects, history,
         Answers
<1>2. Labels'
  BY DEF IndInv, AwaitReason, Continue, Goto, Labels, InFlight, Awaiting, effects,
         history, TypeOK
<1>3. Past'
  BY DEF IndInv, AwaitReason, Continue, Goto, Past, Answered, Answers, history,
         TypeOK
<1>4. Subjects'
  BY DEF IndInv, AwaitReason, Continue, Goto, Subjects, Making, Over, Reasoning,
         Settled, maps, effects, TypeOK
<1>5. Deadlines'
  BY DEF IndInv, AwaitReason, Continue, Goto, Deadlines, OwnOrOverlapping, Overlap,
         maps, effects, history, TypeOK
<1>6. UsedUp'
  BY DEF IndInv, AwaitReason, Continue, Goto, UsedUp, Over, Settled, maps, effects,
         TypeOK, Subjects
<1>7. NobodyLater'
  BY DEF IndInv, AwaitReason, Continue, Goto, NobodyLater, Making, Over, Reasoning,
         effects, history, TypeOK
<1>8. Deleters'
  BY DEF IndInv, AwaitReason, Continue, Goto, Deleters, InFlight, Awaiting, Making,
         Reasoning, maps, effects, history, TypeOK, Past, Answered, Answers
<1>9. WizardsAreKept'
  BY DEF IndInv, AwaitReason, Continue, Goto, WizardsAreKept, Overlap, maps,
         history, TypeOK
<1>10. CancellationsAreKept'
  BY DEF IndInv, AwaitReason, Continue, Goto, CancellationsAreKept, Overlap, maps,
         history, TypeOK, Labels, InFlight, Past, Answered, Answers
<1> QED
  BY <1>1, <1>2, <1>3, <1>4, <1>5, <1>6, <1>7, <1>8, <1>9, <1>10 DEF IndInv

LEMMA FindCancellerKeeps ==
  ASSUME IndInv, NEW u \in Updates, FindCanceller(u)
  PROVE  IndInv'
<1>1. TypeOK'
  BY DEF IndInv, FindCanceller, Continue, Goto, TypeOK, maps, effects, history,
         Awaiting
<1>2. Labels'
  BY DEF IndInv, FindCanceller, Continue, Goto, Labels, InFlight, Awaiting, effects,
         history, TypeOK
<1>3. Past'
  BY DEF IndInv, FindCanceller, Continue, Goto, Past, Answered, Answers, history,
         TypeOK
<1>4. Subjects'
  BY DEF IndInv, FindCanceller, Continue, Goto, Subjects, Making, Over, Reasoning,
         Settled, maps, effects, TypeOK
<1>5. Deadlines'
  BY DEF IndInv, FindCanceller, Continue, Goto, Deadlines, OwnOrOverlapping,
         Overlap, maps, effects, history, TypeOK
<1>6. UsedUp'
  BY DEF IndInv, FindCanceller, Continue, Goto, UsedUp, Over, Settled, maps,
         effects, TypeOK
<1>7. NobodyLater'
  BY DEF IndInv, FindCanceller, Continue, Goto, NobodyLater, Making, Over,
         Reasoning, effects, history, TypeOK
<1>8. Deleters'
  BY DEF IndInv, FindCanceller, Continue, Goto, Deleters, InFlight, Awaiting,
         Making, Reasoning, maps, effects, history, TypeOK
<1>9. WizardsAreKept'
  BY DEF IndInv, FindCanceller, Continue, Goto, WizardsAreKept, Overlap, maps,
         history, TypeOK
<1>10. CancellationsAreKept'
  BY DEF IndInv, FindCanceller, Continue, Goto, CancellationsAreKept, Overlap, maps,
         history, TypeOK
<1> QED
  BY <1>1, <1>2, <1>3, <1>4, <1>5, <1>6, <1>7, <1>8, <1>9, <1>10 DEF IndInv

LEMMA CancelOrderKeeps ==
  ASSUME IndInv, NEW u \in Updates, CancelOrder(u)
  PROVE  IndInv'
<1>1. TypeOK'
  BY DEF IndInv, CancelOrder, Continue, Goto, TypeOK, maps, history, Awaiting
<1>2. Labels'
  BY DEF IndInv, CancelOrder, Continue, Goto, Labels, InFlight, Awaiting, history,
         TypeOK
<1>3. Past'
  BY DEF IndInv, CancelOrder, Continue, Goto, Past, Answered, Answers, history,
         TypeOK
<1>4. Subjects'
  BY DEF IndInv, CancelOrder, Continue, Goto, Subjects, Making, Over, Reasoning,
         Settled, maps, TypeOK
<1>5. Deadlines'
  BY DEF IndInv, CancelOrder, Continue, Goto, Deadlines, OwnOrOverlapping, Overlap,
         maps, history, TypeOK
<1>6. UsedUp'
  BY DEF IndInv, CancelOrder, Continue, Goto, UsedUp, Over, Settled, maps, TypeOK
<1>7. NobodyLater'
  BY DEF IndInv, CancelOrder, Continue, Goto, NobodyLater, Making, Over, Reasoning,
         history, TypeOK, Past, Answered, Answers
<1>8. Deleters'
  BY DEF IndInv, CancelOrder, Continue, Goto, Deleters, InFlight, Awaiting, Making,
         Reasoning, maps, history, TypeOK
<1>9. WizardsAreKept'
  BY DEF IndInv, CancelOrder, Continue, Goto, WizardsAreKept, Overlap, maps,
         history, TypeOK
<1>10. CancellationsAreKept'
  BY DEF IndInv, CancelOrder, Continue, Goto, CancellationsAreKept, Overlap, maps,
         history, TypeOK
<1> QED
  BY <1>1, <1>2, <1>3, <1>4, <1>5, <1>6, <1>7, <1>8, <1>9, <1>10 DEF IndInv

\* The cancellation that is deleted is that of the handler, or one that
\* overlaps it.
LEMMA ForgetKeeps ==
  ASSUME IndInv, NEW u \in Updates, Forget(u)
  PROVE  IndInv'
<1>1. TypeOK'
  BY DEF IndInv, Forget, Continue, Goto, TypeOK, effects, history, Awaiting, Answers
<1>2. Labels'
  BY DEF IndInv, Forget, Continue, Goto, Labels, InFlight, Awaiting, effects,
         history, TypeOK
<1>3. Past'
  BY DEF IndInv, Forget, Continue, Goto, Past, Answered, Answers, history, TypeOK
<1>4. Subjects'
  BY DEF IndInv, Forget, Continue, Goto, Subjects, Making, Over, Reasoning, Settled,
         effects, TypeOK
<1>5. Deadlines'
  BY DEF IndInv, Forget, Continue, Goto, Deadlines, OwnOrOverlapping, Overlap,
         effects, history, TypeOK
<1>6. UsedUp'
  BY NoneAssumption
     DEF IndInv, Forget, Continue, Goto, UsedUp, Over, Settled, TypeOK
<1>7. NobodyLater'
  BY DEF IndInv, Forget, Continue, Goto, NobodyLater, Making, Over, Reasoning,
         effects, history, TypeOK
<1>8. Deleters'
  BY NoneAssumption
     DEF IndInv, Forget, Continue, Goto, Deleters, InFlight, Awaiting, Making,
         Reasoning, effects, history, TypeOK
<1>9. WizardsAreKept'
  BY DEF IndInv, Forget, Continue, Goto, WizardsAreKept, Overlap, history, TypeOK
<1>10. CancellationsAreKept'
  BY DEF IndInv, Forget, Continue, Goto, CancellationsAreKept, Overlap, history,
         TypeOK, Labels, InFlight, Past, Answered, Answers, Reasoning, Deleters
<1> QED
  BY <1>1, <1>2, <1>3, <1>4, <1>5, <1>6, <1>7, <1>8, <1>9, <1>10 DEF IndInv

LEMMA ReplyCancelledKeeps ==
  ASSUME IndInv, NEW u \in Updates, ReplyCancelled(u)
  PROVE  IndInv'
<1>1. TypeOK'
  BY DEF IndInv, ReplyCancelled, Continue, Goto, TypeOK, maps, effects, history,
         Answers
<1>2. Labels'
  BY DEF IndInv, ReplyCancelled, Continue, Goto, Labels, InFlight, Awaiting,
         effects, history, TypeOK
<1>3. Past'
  BY DEF IndInv, ReplyCancelled, Continue, Goto, Past, Answered, Answers, history,
         TypeOK
<1>4. Subjects'
  BY DEF IndInv, ReplyCancelled, Continue, Goto, Subjects, Making, Over, Reasoning,
         Settled, maps, effects, TypeOK
<1>5. Deadlines'
  BY DEF IndInv, ReplyCancelled, Continue, Goto, Deadlines, OwnOrOverlapping,
         Overlap, maps, effects, history, TypeOK
<1>6. UsedUp'
  BY NoneAssumption
     DEF IndInv, ReplyCancelled, Continue, Goto, UsedUp, Over, Settled, maps,
         effects, TypeOK
<1>7. NobodyLater'
  BY DEF IndInv, ReplyCancelled, Continue, Goto, NobodyLater, Making, Over,
         Reasoning, effects, history, TypeOK
<1>8. Deleters'
  BY NoneAssumption
     DEF IndInv, ReplyCancelled, Continue, Goto, Deleters, InFlight, Awaiting,
         Making, Reasoning, maps, effects, history, TypeOK
<1>9. WizardsAreKept'
  BY DEF IndInv, ReplyCancelled, Continue, Goto, WizardsAreKept, Overlap, maps,
         history, TypeOK
<1>10. CancellationsAreKept'
  BY DEF IndInv, ReplyCancelled, Continue, Goto, CancellationsAreKept, Overlap,
         history, TypeOK, Labels, InFlight, Past, Answered, Answers, Reasoning,
         Deleters
<1> QED
  BY <1>1, <1>2, <1>3, <1>4, <1>5, <1>6, <1>7, <1>8, <1>9, <1>10 DEF IndInv

\* The steps that wait for nothing.
LEMMA AdvanceKeeps ==
  ASSUME IndInv, Advance
  PROVE  IndInv'
<1>1. TypeOK'
  BY DEF IndInv, Advance, TypeOK, effects, history, Steps, NextStep
<1>2. Labels'
  BY DEF IndInv, Advance, Labels, InFlight, Awaiting, effects, history
<1>3. Past'
  BY DEF IndInv, Advance, Past, Answered, Answers, history
<1>4. Subjects'
  BY DEF IndInv, Advance, Subjects, Making, Over, Reasoning, Settled, effects
<1>5. Deadlines'
  BY DEF IndInv, Advance, Deadlines, OwnOrOverlapping, Overlap, effects, history
<1>6. UsedUp'
  BY DEF IndInv, Advance, UsedUp, Over, Settled, effects
<1>7. NobodyLater'
  BY DEF IndInv, Advance, NobodyLater, Making, Over, Reasoning, effects, history
<1>8. Deleters'
  BY DEF IndInv, Advance, Deleters, InFlight, Awaiting, Making, Reasoning, effects,
         history
<1>9. WizardsAreKept'
  BY DEF IndInv, Advance, WizardsAreKept, Overlap, history
<1>10. CancellationsAreKept'
  BY DEF IndInv, Advance, CancellationsAreKept, Overlap, history
<1> QED
  BY <1>1, <1>2, <1>3, <1>4, <1>5, <1>6, <1>7, <1>8, <1>9, <1>10 DEF IndInv

\* A restart empties both Maps.
LEMMA RestartKeeps ==
  ASSUME IndInv, Restart
  PROVE  IndInv'
<1>1. TypeOK'
  BY DEF IndInv, Restart, TypeOK, effects, Answers
<1>2. Labels'
  BY DEF IndInv, Restart, Labels, InFlight, Awaiting, effects
<1>3. Past'
  BY DEF IndInv, Restart, Past, Answered, Answers
<1>4. Subjects'
  BY DEF IndInv, Restart, Subjects, Making, Over, Reasoning, Settled, effects,
         TypeOK, InFlight, Awaiting
<1>5. Deadlines'
  BY DEF IndInv, Restart, Deadlines, OwnOrOverlapping, Overlap, effects, TypeOK
<1>6. UsedUp'
  BY NoneAssumption
     DEF IndInv, Restart, UsedUp, Over, Settled, TypeOK
<1>7. NobodyLater'
  BY DEF IndInv, Restart, NobodyLater, Making, Over, Reasoning, effects
<1>8. Deleters'
  BY DEF IndInv, Restart, Deleters, InFlight, Awaiting, Making, Reasoning
<1>9. WizardsAreKept'
  BY DEF IndInv, Restart, WizardsAreKept, Overlap
<1>10. CancellationsAreKept'
  BY DEF IndInv, Restart, CancellationsAreKept, Overlap
<1> QED
  BY <1>1, <1>2, <1>3, <1>4, <1>5, <1>6, <1>7, <1>8, <1>9, <1>10 DEF IndInv

LEMMA InitIndInv == Init => IndInv
BY NoneAssumption
   DEF Init, IndInv, TypeOK, Steps, Labels, InFlight, Awaiting, Past, Subjects, Making, Over,
       Reasoning, Settled, Deadlines, UsedUp, NobodyLater, Deleters, WizardsAreKept,
       CancellationsAreKept

LEMMA StutterKeeps == IndInv /\ UNCHANGED vars => IndInv'
<1> SUFFICES ASSUME IndInv, UNCHANGED vars PROVE IndInv'
  OBVIOUS
<1>1. TypeOK'
  BY DEF IndInv, TypeOK, vars, maps, effects, history
<1>2. Labels'
  BY DEF IndInv, Labels, InFlight, vars, maps, effects, history
<1>3. Past'
  BY DEF IndInv, Past, Answered, vars, maps, effects, history
<1>4. Subjects'
  BY DEF IndInv, Subjects, Making, Over, Reasoning, Settled, vars, maps, effects, history
<1>5. Deadlines'
  BY DEF IndInv, Deadlines, OwnOrOverlapping, Overlap, vars, maps, effects, history
<1>6. UsedUp'
  BY DEF IndInv, UsedUp, Over, Settled, vars, maps, effects, history
<1>7. NobodyLater'
  BY DEF IndInv, NobodyLater, Making, Over, Reasoning, vars, maps, effects, history
<1>8. Deleters'
  BY DEF IndInv, Deleters, InFlight, Making, Reasoning, vars, maps, effects, history
<1>9. WizardsAreKept'
  BY DEF IndInv, WizardsAreKept, Overlap, vars, maps, effects, history
<1>10. CancellationsAreKept'
  BY DEF IndInv, CancellationsAreKept, Overlap, vars, maps, effects, history
<1> QED
  BY <1>1, <1>2, <1>3, <1>4, <1>5, <1>6, <1>7, <1>8, <1>9, <1>10 DEF IndInv

LEMMA NextIndInv == IndInv /\ [Next]_vars => IndInv'
<1> SUFFICES ASSUME IndInv, [Next]_vars PROVE IndInv'
  OBVIOUS
<1>1. ASSUME NEW u \in Updates, Receive(u) PROVE IndInv'
  BY <1>1, CreateCommandKeeps, DeadlineTextKeeps, StopWizardKeeps, CancelButtonKeeps,
     AbortCancellationKeeps, ReasonTextKeeps DEF Receive
<1>2. ASSUME NEW u \in Updates, Handle(u) PROVE IndInv'
  BY <1>2, OpenWizardKeeps, FindAccountKeeps, CreateOrderKeeps, ReplyCreatedKeeps,
     AwaitReasonKeeps, FindCancellerKeeps, CancelOrderKeeps, ForgetKeeps,
     ReplyCancelledKeeps DEF Handle
<1> QED
  BY <1>1, <1>2, AdvanceKeeps, RestartKeeps, StutterKeeps DEF Next

-----------------------------------------------------------------------------
(* The theorems. *)

THEOREM Invariance == Spec => []IndInv
BY InitIndInv, NextIndInv, PTL DEF Spec

\* Every variable of the two conversations keeps its type.
THEOREM TypesHold == Spec => []TypeOK
<1>1. IndInv => TypeOK
  BY DEF IndInv
<1> QED
  BY <1>1, Invariance, PTL

\* A wizard makes a second order only by messages that overlap, or after one
\* whose handler failed or was lost.
THEOREM NoCauselessDuplicates == Spec => []DuplicatesHaveCause
<1>1. ASSUME IndInv, NEW u \in Updates, NEW v \in Updates, u \in before[v],
             made[u] # None, made[v] # None, subject[u] = subject[v]
      PROVE  pc[u] \in {"notCreated", "lost"}
  <2>1. ~Over(u) /\ Answered(u)
    BY <1>1 DEF IndInv, Past, NobodyLater, Making
  <2> QED
    BY <1>1, <2>1 DEF IndInv, Labels, Over, Answered, Answers
<1>2. IndInv => DuplicatesHaveCause
  BY <1>1 DEF DuplicatesHaveCause, Overlap
<1> QED
  BY <1>2, Invariance, PTL

\* An order gets the deadline of the message that made it, or of one that came
\* while it was being made.
THEOREM DeadlinesAreOwn == Spec => []DeadlineOrOverlapped
<1>1. IndInv => DeadlineOrOverlapped
  BY DEF IndInv, Deadlines, OwnOrOverlapping, DeadlineOrOverlapped
<1> QED
  BY <1>1, Invariance, PTL

\* After /cancel nothing but a message under way makes an order of the wizard.
THEOREM StoppedWizardsStayStopped == Spec => []StoppedForGood
<1>1. IndInv => StoppedForGood
  BY DEF IndInv, NobodyLater, Making, Over, StoppedForGood
<1> QED
  BY <1>1, Invariance, PTL

\* After /cancel only a reason under way cancels the order.
THEOREM AbortsHold == Spec => []AbortedOrOverlapped
<1>1. IndInv => AbortedOrOverlapped
  BY DEF IndInv, NobodyLater, Reasoning, AbortedOrOverlapped, Overlap
<1> QED
  BY <1>1, Invariance, PTL

\* A wizard is lost to its own end, to another /create, or to a handler that was
\* under way when it was opened.
THEOREM WizardsLast == Spec => []WizardsAreKept
<1>1. IndInv => WizardsAreKept
  BY DEF IndInv
<1> QED
  BY <1>1, Invariance, PTL

\* The same for the cancellations that wait for a reason.
THEOREM CancellationsLast == Spec => []CancellationsAreKept
<1>1. IndInv => CancellationsAreKept
  BY DEF IndInv
<1> QED
  BY <1>1, Invariance, PTL
==============================================================================
