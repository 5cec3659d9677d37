------------------------------ MODULE TaskFlow ------------------------------
(***************************************************************************)
(* Work tasks along the route of a plan position: material is issued from  *)
(* the store to the stage it is ready for, completed or scrapped there in  *)
(* portions, transferred from stage to stage, returned or finally released;*)
(* a transfer or an issue may be cancelled, a transfer corrected, and every*)
(* action be reversed.  An issue to a later stage marks the stages it jumps*)
(* as skipped, and its cancellation opens them again.                      *)
(* Quantities and statuses of the tasks are read back from the ledger.     *)
(* One request per step: how their statements interleave is the subject of *)
(* LedgerTransactions, tokens and purges that of ReversalJournal.          *)
(*                                                                         *)
(* All positions are of one product without dimensions and follow one      *)
(* route, so that they share its sections; no stage transforms.  The n-th  *)
(* production stage works in section n, section 0 is the store.            *)
(***************************************************************************)
EXTENDS Amounts, Sequences

CONSTANTS
    NumPositions, \* plan positions in work
    LastStage,    \* the final production stage of the route
    CrossSpg,     \* stages whose section shares no storage group with the next one
    Planned,      \* quantity planned for each position
    InStock,      \* raw material that the store holds at first
    Prepared,     \* what it holds ready for each of the later stages
    Required,     \* what one issue may ask for
    Quantities,   \* what any other request may ask for
    AutoTransfer, \* values of auto_transfer_next that clients send
    OverPlan,     \* values of allow_over_plan or post_factum that clients send
    FromJournal,  \* types of actions that clients reverse from the journal
    MaxTasks,     \* bound: work tasks
    MaxActions,   \* bound: rows of the action journal
    NULL          \* SQL NULL

ASSUME TaskFlowConstants ==
    /\ NumPositions \in Nat /\ LastStage \in Nat \ {0}
    /\ CrossSpg \subseteq 1..LastStage
    /\ Planned \in Nat \ {0} /\ InStock \in Nat /\ Prepared \in Nat
    /\ Required \subseteq Nat \ {0} /\ Quantities \subseteq Nat \ {0}
    /\ AutoTransfer \subseteq BOOLEAN /\ OverPlan \subseteq BOOLEAN
    /\ FromJournal \subseteq { "task_complete", "final_release", "return_to_stock", "transfer_send" }
    /\ MaxTasks \in Nat /\ NumPositions * LastStage <= MaxTasks /\ MaxActions \in Nat

Positions == 1..NumPositions
Stages == 1..LastStage

(* Where material lies: in a section, having passed the operations of the   *)
(* stages up to done.  The store of scrap and that of finished goods come   *)
(* after the last section.                                                  *)
Place == (0..(LastStage + 2)) \X (0..LastStage)
At(section, done) == << section, done >>
StoreFor(stage) == At(0, stage - 1)
Input(stage) == At(stage, stage - 1)
Output(stage) == At(stage, stage)
ScrapStore(stage) == At(LastStage + 1, stage - 1)
FinishedGoods == At(LastStage + 2, LastStage)

Nullable(S) == S \cup {NULL}
First(S) == CHOOSE n \in S : \A m \in S : n <= m
TaskId == 1..MaxTasks
ActionId == 1..MaxActions

WorkTaskStatus ==
    { "waiting_previous", "ready", "in_progress", "partially_completed", "completed", "skipped" }
ClosedStatus == { "completed", "skipped" }
ActiveStatus == { "ready", "in_progress", "partially_completed" }
TaskActionFamily == { "task_complete", "final_release", "return_to_stock" }
TransferStatus == { "accepted", "cancelled", "amended" }

ASSUME NullIsNoValue ==
    /\ NULL \notin Nat
    /\ NULL \notin Place
    /\ NULL \notin TransferStatus

(* skippedBy is the issue that skipped the task. *)
WorkTask ==
    [ position : Positions, stage : Stages, planned : Nat, status : WorkTaskStatus,
      skippedBy : Nullable(ActionId) ]

(* An action of the journal, and the transfer if it sent one; the number of *)
(* an issue is the first action of it.                                      *)
Action ==
    [ type : TaskActionFamily \cup {"transfer_send"}, task : Nullable(TaskId),
      to : Nullable(TaskId), quantity : Nat, transfer : Nullable(TransferStatus),
      issue : Nullable(ActionId), dependsOn : SUBSET ActionId, active : BOOLEAN ]

(* A transaction is its position in the ledger. *)
Transaction ==
    [ task : Nullable(TaskId),
      reason : { "manual_in", "transfer_send", "transfer_receive", "transform_consume",
                 "complete", "scrap", "final_release", "return_to_stock" },
      quantity : Nat \ {0}, from : Nullable(Place), to : Nullable(Place),
      action : Nullable(ActionId), reverses : Nullable(Nat) ]

Row(task, reason, quantity, from, to) ==
    [ task |-> task, reason |-> reason, quantity |-> quantity, from |-> from, to |-> to,
      action |-> NULL, reverses |-> NULL ]

(* The committed database: tasks, journal and ledger.  reopened is a history *)
(* variable, the tasks that the cancellation of an issue has opened again.   *)
VARIABLE db

(* A released position has a task per stage, the first one ready. *)
NewTask(p, s, planned, status) ==
    [ position |-> p, stage |-> s, planned |-> planned, status |-> status, skippedBy |-> NULL ]

InitialStock(stage) == IF stage = 1 THEN InStock ELSE Prepared
InitialReceipt(stage) == Row(NULL, "manual_in", InitialStock(stage), NULL, StoreFor(stage))
FirstStocked == IF InStock > 0 THEN 1 ELSE 2
LastStocked == IF Prepared > 0 THEN LastStage ELSE 1

Init ==
    db = [ tasks |-> [ n \in 1..(NumPositions * LastStage) |->
                         LET s == 1 + ((n - 1) % LastStage) IN
                         NewTask(1 + ((n - 1) \div LastStage), s, Planned,
                                 IF s = 1 THEN "ready" ELSE "waiting_previous") ],
           journal |-> << >>,
           ledger |-> [ n \in 1..(1 + LastStocked - FirstStocked) |->
                          InitialReceipt(FirstStocked + n - 1) ],
           reopened |-> {} ]

----------------------------------------------------------------------------
(* Read back from the ledger.                                               *)

(* The quantity of the rows of L at the positions I. *)
Amount(L, I) == Total([ i \in I |-> L[i].quantity ])

Arrivals(d, places) == { i \in DOMAIN d.ledger : d.ledger[i].to \in places }
Departures(d, places) == { i \in DOMAIN d.ledger : d.ledger[i].from \in places }
Stock(d, places) == Amount(d.ledger, Arrivals(d, places)) - Amount(d.ledger, Departures(d, places))
OnHand(d, place) == Stock(d, {place})

(* A compensation keeps the reason and the task of what it reverses. *)
RowsOf(d, T, reason) ==
    { i \in DOMAIN d.ledger : d.ledger[i].task \in T /\ d.ledger[i].reason = reason }
Reversals(d) == { i \in DOMAIN d.ledger : d.ledger[i].reverses # NULL }

Gross(d, T, reason) == Amount(d.ledger, RowsOf(d, T, reason))
Net(d, T, reason) ==
    Amount(d.ledger, RowsOf(d, T, reason) \ Reversals(d))
      - Amount(d.ledger, RowsOf(d, T, reason) \cap Reversals(d))

(* get_task_cache; what is issued is what has been received. *)
Completed(d, t) == Gross(d, {t}, "complete")
Rejected(d, t) == Gross(d, {t}, "scrap")
Transferred(d, t) == Net(d, {t}, "transfer_send")
Received(d, t) == Net(d, {t}, "transfer_receive")
InWorkIgnoresCompletion(d, t) == Received(d, t) - Rejected(d, t)    \* fault: the completed still counts
InWork(d, t) == Received(d, t) - Completed(d, t) - Rejected(d, t)

AtLeastZero(n) == IF n > 0 THEN n ELSE 0
Transferable(d, t) == AtLeastZero(Completed(d, t) - Transferred(d, t))
Sendable(d, t) == AtLeastZero(Completed(d, t) - Net(d, {t}, "final_release"))

(* resolve_work_task_status. *)
ResolvedStatus(d, t) ==
    LET task == d.tasks[t]
        produced == Completed(d, t) + Rejected(d, t)
    IN IF task.status \notin ActiveStatus THEN task.status
       ELSE IF Transferred(d, t) >= task.planned THEN "completed"
       ELSE IF 0 < produced /\ produced < task.planned THEN "partially_completed"
       ELSE IF task.status = "ready" /\ Received(d, t) + produced > 0 THEN "in_progress"
       ELSE task.status

----------------------------------------------------------------------------
(* Writing.  Each operator takes a database and gives the next one, or      *)
(* Failed: an exception rolls the whole request back.                       *)

Failed == NULL

(* A request that fails changes nothing; journal and tasks are bounded. *)
Commits(d) ==
    /\ d # Failed
    /\ Len(d.journal) <= MaxActions /\ Len(d.tasks) <= MaxTasks
    /\ db' = d

Synced(d, t) == IF t = NULL THEN d ELSE [ d EXCEPT !.tasks[t].status = ResolvedStatus(d, t) ]
Inserted(d, r) == Synced([ d EXCEPT !.ledger = Append(@, r) ], r.task)

InsertedUnchecked(d, r, a) ==    \* fault: what is on hand is not looked at
    IF d = Failed THEN Failed ELSE Inserted(d, [ r EXCEPT !.action = a ])
Recorded(d, r, a) ==
    IF d = Failed \/ (r.from # NULL /\ OnHand(d, r.from) < r.quantity) THEN Failed
    ELSE Inserted(d, [ r EXCEPT !.action = a ])

(* log_task_action chains an action to the last active one of its task. *)
LastActive(d, t) ==
    LET chain == { a \in DOMAIN d.journal :
                     /\ d.journal[a].task = t /\ d.journal[a].active
                     /\ d.journal[a].type \in TaskActionFamily }
    IN { a \in chain : \A b \in chain : b <= a }

NextAction(d) == Len(d.journal) + 1

LoggedTaskAction(d, type, t, q) ==
    [ d EXCEPT !.journal = Append(@,
        [ type |-> type, task |-> t, to |-> NULL, quantity |-> q, transfer |-> NULL,
          issue |-> NULL, dependsOn |-> LastActive(d, t), active |-> TRUE ]) ]

LoggedTransfer(d, from, to, q, issue) ==
    [ d EXCEPT !.journal = Append(@,
        [ type |-> "transfer_send", task |-> from, to |-> to, quantity |-> q,
          transfer |-> "accepted", issue |-> issue, dependsOn |-> {}, active |-> TRUE ]) ]

----------------------------------------------------------------------------
(* transfer_send and the transfer of an issue: the transfer is accepted as  *)
(* it is sent.                                                              *)

IsOpen(d, t) == d.tasks[t].status \notin ClosedStatus
TasksOnLine(d, p, s) ==
    { t \in DOMAIN d.tasks : d.tasks[t].position = p /\ d.tasks[t].stage = s }
OpenTasks(d, p, s) == { t \in TasksOnLine(d, p, s) : IsOpen(d, t) }

TasksAlways(d, p, s, q) ==    \* fault: a receiving task is created although one is open
    Append(d.tasks, NewTask(p, s, q, "waiting_previous"))
TasksFor(d, p, s, q) ==
    IF OpenTasks(d, p, s) # {} THEN d.tasks
    ELSE Append(d.tasks, NewTask(p, s, q, "waiting_previous"))

(* The target and the tasks with it, created when there is none open.  With  *)
(* two open an issue takes the first; a transfer may get either, which is    *)
(* what it does when the client names it.                                    *)
WithTarget(d, p, s, q) == [ d EXCEPT !.tasks = TasksFor(d, p, s, q) ]
TargetTask(d, p, s) == First(OpenTasks(d, p, s))

NotBridged(d, t) == d    \* fault: the receiving task is left waiting
Bridged(d, t) ==
    IF d.tasks[t].status = "waiting_previous" THEN [ d EXCEPT !.tasks[t].status = "ready" ] ELSE d

PlanKept(d, t) == d    \* fault: the plan is not expanded
PlanExpanded(d, t) ==
    IF d # Failed /\ Received(d, t) > d.tasks[t].planned
    THEN [ d EXCEPT !.tasks[t].planned = Received(d, t) ] ELSE d

(* From the task from, or from the store when it is NULL, to the task t.      *)
Delivered(d, from, place, t, q, a) ==
    LET bridged == Bridged(d, t)
        sent == Recorded(bridged,
                  Row(from, "transfer_send", q, place, At(d.tasks[t].stage, place[2])), a)
        received == Recorded(sent, Row(t, "transfer_receive", q, NULL, NULL), a)
    IN PlanExpanded(received, t)

(* A target that the client names may be of any later stage, open or not.   *)
Sent(d, from, to, q, overPlan) ==
    LET task == d.tasks[from]
        e == IF to # NULL THEN d ELSE WithTarget(d, task.position, task.stage + 1, q)
        t == IF to # NULL THEN to ELSE TargetTask(e, task.position, task.stage + 1)
    IN IF task.stage = LastStage
          \/ (to # NULL /\ ~(/\ d.tasks[to].position = task.position
                             /\ d.tasks[to].stage > task.stage))
          \/ (~overPlan /\ q > Transferable(d, from))
       THEN Failed
       ELSE Delivered(LoggedTransfer(e, from, t, q, NULL), from, Output(task.stage), t, q, NextAction(d))

TransferSend(from, to, q, overPlan) == Commits(Sent(db, from, to, q, overPlan))

(* build_issue_plan: what the store holds ready for a stage, taken for the   *)
(* latest stage first as long as something is required.                      *)
IssuePlan(d, required, excluded) ==
    LET held == [ s \in Stages |-> IF s \in excluded THEN 0 ELSE OnHand(d, StoreFor(s)) ]
        remaining(s) == required - Total([ n \in Stages |-> IF n > s THEN held[n] ELSE 0 ])
    IN [ s \in Stages |->
           AtLeastZero(IF remaining(s) <= held[s] THEN remaining(s) ELSE held[s]) ]

(* _record_issue_transfer; a completed or skipped stage is not issued to and *)
(* no task replaces its own.                                                 *)
Issued(d, p, s, q, issue) ==
    IF d = Failed THEN Failed
    ELSE IF OpenTasks(d, p, s) = {} THEN Failed
    ELSE LET t == TargetTask(d, p, s) IN
         Delivered(LoggedTransfer(d, NULL, t, q, issue), NULL, StoreFor(s), t, q, NextAction(d))

(* The transfers of an issue, the latest stage first. *)
IssuedToStages(d, p, take, issue) ==
    LET issued[s \in 1..(LastStage + 1)] ==
          IF s > LastStage THEN d
          ELSE IF take[s] > 0 THEN Issued(issued[s + 1], p, s, take[s], issue) ELSE issued[s + 1]
    IN issued[1]

(* _mark_jumped_stages: for each task of the stages before intake that is    *)
(* neither closed nor in progress, skip_stage marks the first of its line.   *)
MovesAlong(status) == status \in ClosedStatus    \* fault: in progress is no reason to keep a stage
KeepsItsStage(status) == status \in ClosedStatus \cup {"in_progress"}

WithJumpedSkipped(d, p, intake, issue) ==
    LET jumped == { s \in 1..(intake - 1) :
                      \E t \in TasksOnLine(d, p, s) : ~KeepsItsStage(d.tasks[t].status) }
        first == { First(TasksOnLine(d, p, s)) : s \in jumped }
    IN IF \E t \in first : d.tasks[t].status = "completed" THEN Failed
       ELSE [ d EXCEPT !.tasks =
                [ t \in DOMAIN @ |->
                    IF t \in first THEN [ @[t] EXCEPT !.status = "skipped", !.skippedBy = issue ]
                    ELSE @[t] ] ]

(* execute_issue with the strategy partial; fail refuses what falls short.   *)
IssueToWork(p, required, excluded) ==
    LET take == IssuePlan(db, required, excluded)
        taken == { s \in Stages : take[s] > 0 }
        issue == NextAction(db)
        issued == IssuedToStages(db, p, take, issue)
    IN /\ taken # {}
       /\ issued # Failed
       /\ Commits(WithJumpedSkipped(issued, p, First(taken), issue))

----------------------------------------------------------------------------
(* The other operations of a task.                                          *)

PortionPosted(d, t, good, defect, a) ==
    LET s == d.tasks[t].stage
        consumed == IF good = 0 THEN d
                    ELSE Recorded(d, Row(t, "transform_consume", good, Input(s), NULL), a)
        produced == IF good = 0 THEN d
                    ELSE Recorded(consumed, Row(t, "complete", good, NULL, Output(s)), a)
    IN IF defect = 0 THEN produced
       ELSE Recorded(produced, Row(t, "scrap", defect, Input(s), ScrapStore(s)), a)

(* auto_create_transfer_after_complete: across storage groups the portion   *)
(* is sent on, and the plan of the receiving task becomes that portion.     *)
PlanIsPortion(d, q) ==
    IF d = Failed THEN Failed ELSE [ d EXCEPT !.tasks[d.journal[Len(d.journal)].to].planned = q ]

SentOn(d, t, good) ==
    IF d = Failed \/ good = 0 \/ d.tasks[t].stage \notin CrossSpg \ {LastStage} THEN d
    ELSE PlanIsPortion(Sent(d, t, NULL, good, FALSE), good)

CompleteTask(t, good, defect, auto) ==
    LET posted == PortionPosted(LoggedTaskAction(db, "task_complete", t, good + defect),
                                t, good, defect, NextAction(db))
    IN /\ db.tasks[t].status \in ActiveStatus
       /\ good + defect > 0
       /\ good + defect <= InWork(db, t)
       /\ Commits(IF auto THEN SentOn(posted, t, good) ELSE posted)

(* Neither of the next two looks at the status of the task. *)
FinalRelease(t, q) ==
    /\ db.tasks[t].stage = LastStage
    /\ q <= Sendable(db, t)
    /\ Commits(Recorded(LoggedTaskAction(db, "final_release", t, q),
                        Row(t, "final_release", q, Output(LastStage), FinishedGoods),
                        NextAction(db)))

ReturnRemainder(t, q) ==
    /\ q <= Received(db, t) - Completed(db, t) - Transferred(db, t)
    /\ Commits(Recorded(LoggedTaskAction(db, "return_to_stock", t, q),
                        Row(t, "return_to_stock", q, Input(db.tasks[t].stage), NULL),
                        NextAction(db)))

PrepareSectionTask(p, s, q) ==
    /\ OpenTasks(db, p, s) = {}
    /\ Commits([ db EXCEPT !.tasks = Append(@, NewTask(p, s, q, "ready")) ])

----------------------------------------------------------------------------
(* Reversal.  A reversal action takes no part in what follows except that   *)
(* it blocks (ReversalJournal): it is left out of the journal here and its  *)
(* compensations name no action.                                            *)

Uncompensated(d, a) ==
    { i \in DOMAIN d.ledger : /\ d.ledger[i].action = a /\ d.ledger[i].reverses = NULL
                              /\ \A j \in DOMAIN d.ledger : d.ledger[j].reverses # i }

MirrorNegated(d, i) ==    \* fault: the compensation is entered with a minus
    [ d.ledger[i] EXCEPT !.quantity = -@, !.action = NULL, !.reverses = i ]
MirrorWithoutTask(d, i) ==    \* fault: the compensation is nobody's
    [ d.ledger[i] EXCEPT !.task = NULL, !.from = d.ledger[i].to, !.to = d.ledger[i].from,
                         !.action = NULL, !.reverses = i ]
Mirror(d, i) ==
    [ d.ledger[i] EXCEPT !.from = d.ledger[i].to, !.to = d.ledger[i].from,
                         !.action = NULL, !.reverses = i ]

(* An action takes material to a place by one transaction at most. *)
Covered(d, G) ==
    \A i \in G : d.ledger[i].to = NULL \/ OnHand(d, d.ledger[i].to) >= d.ledger[i].quantity

StaysAccepted(status) == status    \* fault: the transfer is not cancelled
CancelledIfAccepted(status) == IF status = "accepted" THEN "cancelled" ELSE status

(* The mirrors of the rows G, in the order of the rows. *)
Compensated(d, G) ==
    LET after[n \in 0..Len(d.ledger)] ==
          IF n = 0 THEN d
          ELSE IF n \in G THEN Inserted(after[n - 1], Mirror(d, n)) ELSE after[n - 1]
    IN after[Len(d.ledger)]

Reversed(d, a) ==
    LET G == Uncompensated(d, a) IN
    IF d = Failed THEN Failed
    ELSE IF G # {} /\ Covered(d, G)
    THEN [ Compensated(d, G) EXCEPT !.journal[a].active = FALSE,
                                    !.journal[a].transfer = CancelledIfAccepted(@) ]
    ELSE Failed

(* What is built on a, by way of actions of whatever status. *)
Below(d, a) ==
    LET reached[b \in a..Len(d.journal)] ==
          b = a \/ \E p \in d.journal[b].dependsOn : p >= a /\ reached[p]
    IN { b \in (a + 1)..Len(d.journal) : reached[b] }

(* Node after node, the latest first. *)
CascadeReversed(d, nodes) ==
    LET done[b \in 1..(Len(d.journal) + 1)] ==
          IF b > Len(d.journal) THEN d
          ELSE IF b \in nodes THEN Reversed(done[b + 1], b) ELSE done[b + 1]
    IN done[1]

(* From the journal, with the cascade; one reversed before blocks it. *)
ReverseAction(a) ==
    /\ db.journal[a].type \in FromJournal
    /\ \A b \in {a} \cup Below(db, a) : db.journal[b].active
    /\ Commits(CascadeReversed(db, {a} \cup Below(db, a)))

Cancelled(d, a) ==
    IF d = Failed THEN Failed
    ELSE IF /\ d.journal[a].transfer = "accepted"
            /\ d.journal[a].quantity <= InWork(d, d.journal[a].to)
            /\ d.journal[a].active
         THEN Reversed(d, a) ELSE Failed

CancelTransfer(a) == Commits(Cancelled(db, a))

AllCancelled(d, left) ==
    LET after[n \in 0..Len(d.journal)] ==
          IF n = 0 THEN d
          ELSE IF n \in left THEN Cancelled(after[n - 1], n) ELSE after[n - 1]
    IN after[Len(d.journal)]

(* cancel_issue: every transfer of the issue that is left, unless something  *)
(* was made at its stage; then the stages that this issue skipped are opened *)
(* in their order, ready if none before them is open.                        *)
SkippedStages(d, issue) == { t \in DOMAIN d.tasks : d.tasks[t].skippedBy # NULL }    \* fault: whoever skipped them
SkippedTasks(d, issue) == { t \in DOMAIN d.tasks : d.tasks[t].skippedBy = issue }

Restored(d, T) ==
    LET waits(t) == \E u \in DOMAIN d.tasks :
          /\ d.tasks[u].position = d.tasks[t].position /\ d.tasks[u].stage < d.tasks[t].stage
          /\ IsOpen(d, u) \/ (u \in T /\ u < t)
    IN [ d EXCEPT !.tasks =
           [ t \in DOMAIN @ |->
               IF t \in T
               THEN [ @[t] EXCEPT !.status = IF waits(t) THEN "waiting_previous" ELSE "ready",
                                  !.skippedBy = NULL ]
               ELSE @[t] ],
                  !.reopened = @ \cup T ]

CancelIssue(issue) ==
    LET left == { a \in DOMAIN db.journal : /\ db.journal[a].issue = issue
                                            /\ db.journal[a].transfer # "cancelled" }
        cancelled == AllCancelled(db, left)
    IN /\ left # {}
       /\ \A a \in left : Completed(db, db.journal[a].to) + Rejected(db, db.journal[a].to) = 0
       /\ cancelled # Failed
       /\ Commits(Restored(cancelled, SkippedTasks(cancelled, issue)))

(* correct_transfer, by amend: reversed and sent again in one transaction.   *)
(* The transfer of an issue has no task to send from again.                  *)
AmendedAction(d, a) ==
    IF d = Failed THEN Failed ELSE [ d EXCEPT !.journal[a].transfer = "amended" ]

CorrectTransfer(a, q) ==
    LET old == db.journal[a]
        reversed == Reversed(db, a)
    IN /\ old.transfer = "accepted"
       /\ q # old.quantity
       /\ old.task # NULL
       /\ q <= Transferable(db, old.task) + old.quantity
       /\ q < old.quantity => old.quantity - q <= InWork(db, old.to)
       /\ reversed # Failed
       /\ Commits(AmendedAction(Sent(reversed, old.task, old.to, q, TRUE), a))

----------------------------------------------------------------------------

Operation ==
    \/ \E p \in Positions, required \in Required, excluded \in SUBSET Stages :
         IssueToWork(p, required, excluded)
    \/ \E from \in DOMAIN db.tasks, to \in Nullable(DOMAIN db.tasks),
          q \in Quantities, overPlan \in OverPlan : TransferSend(from, to, q, overPlan)
    \/ \E t \in DOMAIN db.tasks, good, defect \in Quantities \cup {0}, auto \in AutoTransfer :
         CompleteTask(t, good, defect, auto)
    \/ \E t \in DOMAIN db.tasks, q \in Quantities : FinalRelease(t, q)
    \/ \E t \in DOMAIN db.tasks, q \in Quantities : ReturnRemainder(t, q)
    \/ \E p \in Positions, s \in Stages, q \in Quantities : PrepareSectionTask(p, s, q)

Correction ==
    \/ \E a \in DOMAIN db.journal : ReverseAction(a)
    \/ \E a \in DOMAIN db.journal : CancelTransfer(a)
    \/ \E a \in DOMAIN db.journal : CancelIssue(a)
    \/ \E a \in DOMAIN db.journal, q \in Quantities : CorrectTransfer(a, q)

Next == Operation \/ Correction

Spec == Init /\ [][Next]_db

----------------------------------------------------------------------------

TypeOK ==
    /\ db.tasks \in Seq(WorkTask) /\ Len(db.tasks) <= MaxTasks
    /\ db.journal \in Seq(Action) /\ Len(db.journal) <= MaxActions
    /\ db.ledger \in Seq(Transaction)
    /\ \A a \in DOMAIN db.journal : \A b \in db.journal[a].dependsOn : b < a
    /\ db.reopened \subseteq DOMAIN db.tasks

TasksOf(s) == { t \in DOMAIN db.tasks : db.tasks[t].stage = s }

(* What the task has used up of what it received, reversals taken off. *)
Spent(d, T) == Net(d, T, "complete") + Net(d, T, "scrap") + Net(d, T, "return_to_stock")

(* No group of material is ever taken below zero: a portion, a transfer, a   *)
(* release and a return check what is on hand, and what a reversal, a cancel *)
(* or a correction takes back, unchecked when it is recorded, was found      *)
(* covered before, node after node.  The budgets alone would not do: they    *)
(* count a reversed completion twice.                                        *)
NothingNegative == \A place \in Place : OnHand(db, place) >= 0

(* The ledger says of the tasks what it says of the sections: what the tasks *)
(* of a stage have received and not used up lies in its section unworked,    *)
(* what they completed and have not passed on lies there worked, whatever    *)
(* was transferred past a stage, returned, cancelled, corrected or reversed. *)
StockIsThatOfTheTasks ==
    \A s \in Stages :
        /\ Net(db, TasksOf(s), "transfer_receive") - Spent(db, TasksOf(s))
             = Stock(db, { At(s, done) : done \in 0..(s - 1) })
        /\ Net(db, TasksOf(s), "complete") - Net(db, TasksOf(s), "transfer_send")
             - Net(db, TasksOf(s), "final_release") = OnHand(db, Output(s))

NetOfTransfer(a, reason) ==
    LET sent == { i \in DOMAIN db.ledger :
                    db.ledger[i].reason = reason /\ db.ledger[i].action = a }
        undone == { i \in Reversals(db) : db.ledger[i].reverses \in sent }
    IN Amount(db.ledger, sent) - Amount(db.ledger, undone)

(* S6 of the integrity tests, for both sides: a transfer that counts as      *)
(* accepted is in the ledger with its full quantity, sent and received; of a *)
(* cancelled or amended one nothing is in force, and the correction that     *)
(* superseded it is a transfer of its own.                                   *)
TransferMatchesLedger ==
    \A a \in DOMAIN db.journal : db.journal[a].type = "transfer_send" =>
        LET net == IF db.journal[a].transfer = "accepted" THEN db.journal[a].quantity ELSE 0 IN
        /\ NetOfTransfer(a, "transfer_send") = net
        /\ NetOfTransfer(a, "transfer_receive") = net

(* Auto-acceptance: a task that material has come to is in work.  It does    *)
(* not stay waiting or ready, neither after the transfer, whose bridge to    *)
(* ready only makes the status derivable, nor after it has been taken back,  *)
(* except when the cancellation of an issue opened it again.                 *)
ReceivedIsInWork ==
    \A t \in DOMAIN db.tasks \ db.reopened : Gross(db, {t}, "transfer_receive") > 0 =>
        db.tasks[t].status \notin { "waiting_previous", "ready" }

(* Plan generation, transfer_send, the issue and prepare_section_task each   *)
(* may create the task of a line: together they leave at most one open, so   *)
(* that the first open one is the only one.  A second one takes a stage that *)
(* was skipped, replaced, and opened again by the cancellation of the issue. *)
OneOpenTaskPerLine ==
    \A p \in Positions, s \in Stages :
        \A t, u \in OpenTasks(db, p, s) \ db.reopened : t = u

(* "If cumulative received quantity now exceeds the task's planned quantity, *)
(* expand planned_quantity so operators can issue and complete the full      *)
(* received amount": no task has received more than it plans.                *)
PlanCoversReceipts == \A t \in DOMAIN db.tasks : Received(db, t) <= db.tasks[t].planned

(* A task has never used up more than it has received: no portion, cancel or *)
(* correction, and no reversal of later work, lets it live on what was       *)
(* issued to another task of the same section.  Of a task that returned      *)
(* material this is not so: no limit takes earlier returns into account.     *)
WorkedOnlyWhatWasReceived ==
    \A t \in DOMAIN db.tasks : Net(db, {t}, "return_to_stock") = 0 => Spent(db, {t}) <= Received(db, t)

Closes(t) == db.tasks[t].status # "completed" /\ db'.tasks[t].status = "completed"

(* Completed is terminal, so that a task must not be closed over material:   *)
(* when it closes, by the transfer that fulfils its plan, everything it has  *)
(* received has been completed, scrapped or returned.  Where a completion    *)
(* of the task has been reversed this is not so: the budget still counts it. *)
(* Nor of a task that was skipped and opened again: while it was skipped it  *)
(* may have sent on all of its plan, and then what it receives closes it.    *)
ClosedWithNothingInWork ==
    [][\A t \in DOMAIN db.tasks \ db.reopened :
         Closes(t) /\ (Completed(db, t) = Net(db, {t}, "complete"))'
           => (Received(db, t) <= Spent(db, {t}))']_db

Skips(t) == db.tasks[t].status # "skipped" /\ db'.tasks[t].status = "skipped"
Reopens(t) == db.tasks[t].status = "skipped" /\ db'.tasks[t].status # "skipped"

(* An issue that jumps a stage does not write off material that came to it:  *)
(* a task that has received any is skipped only when a part of it has been   *)
(* completed or scrapped (partially_completed is not exempt), or when its    *)
(* line has a second task.  That is so because receiving takes a task to     *)
(* in_progress, whatever has been reversed or cancelled since.  A skipped    *)
(* task that is sent material by name stays skipped, and cancelling the      *)
(* issue opens it as if it had none: the next issue may skip it with it.     *)
OnlyPartlyWorkedIsSkipped ==
    [][\A t \in DOMAIN db.tasks \ db.reopened :
         Skips(t) /\ Received(db', t) > 0 =>
            \/ Completed(db', t) + Rejected(db', t) > 0
            \/ TasksOnLine(db', db.tasks[t].position, db.tasks[t].stage) # {t}]_db

(* "Only skips of this number are lifted": a skipped stage is opened again   *)
(* only with the whole issue that skipped it taken back, whatever transfers  *)
(* of it were cancelled one by one before and whatever others jumped it.     *)
ReopensWithItsIssue ==
    [][\A t \in DOMAIN db.tasks : Reopens(t) =>
         \A a \in DOMAIN db.journal :
            db.journal[a].issue = db.tasks[t].skippedBy => db'.journal[a].transfer = "cancelled"]_db

(* "There is no material at a skipped stage and there never was."            *)
SkippedHasNoMaterial ==
    \A t \in DOMAIN db.tasks : db.tasks[t].status = "skipped" => Received(db, t) = 0

============================================================================
