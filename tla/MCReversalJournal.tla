------------------------- MODULE MCReversalJournal -------------------------
(***************************************************************************)
(* A task on a saw with two units to cut: its portions, its scrap, the     *)
(* final release of what it cut to the store of finished goods, the return *)
(* of what is left, and an adjustment that takes finished goods away.       *)
(***************************************************************************)
EXTENDS ReversalJournal, TLC

CONSTANTS product, saw, scrapStore, finishedGoods, none, cut, task

MCProducts == {product}
MCLocations == {saw, scrapStore, finishedGoods}
MCOperations == {none, cut}
MCTasks == {task}
MCRouteOperations == [ t \in MCTasks |-> cut ]

Base ==
    [ product |-> product, from |-> NULL, to |-> NULL, quantity |-> 1, reason |-> "manual_in",
      quality |-> "good", toQuality |-> "good", operations |-> none, task |-> NULL,
      transfer |-> NULL, action |-> NULL, key |-> NULL, allowNegative |-> FALSE ]

MCInitialLedger == { Transaction([ Base EXCEPT !.to = saw, !.quantity = 2 ], 1) }

OfTask == [ Base EXCEPT !.task = task ]
Consume == [ OfTask EXCEPT !.from = saw, !.reason = "transform_consume" ]
Complete == [ OfTask EXCEPT !.to = saw, !.reason = "complete", !.operations = NULL ]
Scrap == [ OfTask EXCEPT !.from = saw, !.to = scrapStore, !.reason = "scrap",
                         !.toQuality = "scrap" ]
Release == [ OfTask EXCEPT !.from = saw, !.to = finishedGoods, !.reason = "final_release",
                           !.operations = NULL ]
PutBack == [ OfTask EXCEPT !.from = saw, !.reason = "return_to_stock" ]
TakeAway == [ Base EXCEPT !.from = finishedGoods, !.reason = "adjustment_out",
                          !.operations = cut ]

MCDomainOperations ==
    { [ type |-> "task_complete", ref |-> task, commands |-> << Consume, Complete >> ],
      [ type |-> "task_complete", ref |-> task, commands |-> << Scrap >> ],
      [ type |-> "final_release", ref |-> task, commands |-> << Release >> ],
      [ type |-> "return_to_stock", ref |-> task, commands |-> << PutBack >> ],
      [ type |-> "manual_adjustment", ref |-> NULL, commands |-> << TakeAway >> ] }

RequestSymmetry == Permutations(Workers)

============================================================================
