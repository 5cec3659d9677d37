--------------------------- MODULE MCStockLedger ---------------------------
(***************************************************************************)
(* One product travelling raw store -> saw -> terminal, with scrap.  The    *)
(* raw store is lot-tracked.  The commands are those of the call sites:     *)
(* adjustments (stock/api.py), the issue and the transfer                   *)
(* (transfers/services.py), and the portion, the scrap and the return of a  *)
(* task (shopfloor/operations_tasks.py).                                    *)
(***************************************************************************)
EXTENDS StockLedger

CONSTANTS product, rawStore, saw, shipped, none, cut, sawTask, shipTask, issue, shipment,
          receipt, issuing, portion, shipping, correction, issueKey

MCProducts == {product}
MCLocations == {rawStore, saw, shipped}
MCTerminal == {shipped}
MCLotTracked == {rawStore}
MCOperations == {none, cut}
MCTasks == {sawTask, shipTask}
MCRouteOperations == [ t \in MCTasks |-> cut ]
MCTransfers == {issue, shipment}
MCActions == {receipt, issuing, portion, shipping, correction}
MCIdempotencyKeys == {issueKey}
MCBatches == { MCTasks, {sawTask} }

Base ==
    [ product |-> product, from |-> NULL, to |-> NULL, quantity |-> 1, reason |-> "manual_in",
      quality |-> "good", toQuality |-> "good", operations |-> NULL, task |-> NULL,
      transfer |-> NULL, action |-> NULL, key |-> NULL, allowNegative |-> FALSE ]

MCCommands ==
    { [ Base EXCEPT !.to = rawStore, !.quantity = 2, !.operations = none, !.action = receipt ],
      [ Base EXCEPT !.from = rawStore, !.reason = "adjustment_out", !.operations = none,
                    !.action = correction ],
      [ Base EXCEPT !.to = rawStore, !.quantity = 0, !.operations = none, !.action = receipt ],
      [ Base EXCEPT !.from = rawStore, !.reason = "manual_out", !.operations = none,
                    !.action = correction, !.allowNegative = TRUE ],
      [ Base EXCEPT !.from = rawStore, !.to = saw, !.reason = "transfer_send", !.operations = none,
                    !.transfer = issue, !.action = issuing, !.key = issueKey ],
      [ Base EXCEPT !.reason = "transfer_receive", !.operations = none, !.task = sawTask,
                    !.transfer = issue, !.action = issuing ],
      [ Base EXCEPT !.from = saw, !.reason = "transform_consume", !.operations = none,
                    !.task = sawTask, !.action = portion, !.allowNegative = TRUE ],
      [ Base EXCEPT !.to = saw, !.reason = "complete", !.task = sawTask, !.action = portion ],
      [ Base EXCEPT !.from = saw, !.to = rawStore, !.reason = "scrap", !.toQuality = "scrap",
                    !.operations = none, !.task = sawTask, !.action = portion ],
      [ Base EXCEPT !.from = saw, !.to = shipped, !.reason = "transfer_send", !.task = sawTask,
                    !.transfer = shipment, !.action = shipping ],
      [ Base EXCEPT !.from = shipped, !.reason = "adjustment_out", !.operations = cut,
                    !.action = correction ] }

============================================================================
