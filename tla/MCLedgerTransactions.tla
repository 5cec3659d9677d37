------------------------ MODULE MCLedgerTransactions ------------------------
(***************************************************************************)
(* One product on a raw store, a saw and a terminal section, with one      *)
(* receipt of two committed on the raw store.  The requests are an issue   *)
(* to the saw that a client may send twice, a return the other way (the    *)
(* two take the rows in opposite orders), a portion that locks its input   *)
(* row, and an adjustment that asks for more than may be left.              *)
(***************************************************************************)
EXTENDS LedgerTransactions

CONSTANTS product, rawStore, saw, shipped, none, task, issueKey, receiptKey, returnKey

MCProducts == {product}
MCLocations == {rawStore, saw, shipped}
MCOperations == {none}
MCTasks == {task}
MCRouteOperations == [ t \in MCTasks |-> none ]
MCIdempotencyKeys == {issueKey, receiptKey, returnKey}

Base ==
    [ product |-> product, from |-> NULL, to |-> NULL, quantity |-> 1, reason |-> "manual_in",
      quality |-> "good", toQuality |-> "good", operations |-> none, task |-> NULL,
      transfer |-> NULL, action |-> NULL, key |-> NULL, allowNegative |-> FALSE ]

Key(l) == [ product |-> product, location |-> l, quality |-> "good", operations |-> none ]

Receipt(l, q, id) == Transaction([ Base EXCEPT !.to = l, !.quantity = q ], id)
MCInitialLedger == { Receipt(rawStore, 2, 1), Receipt(saw, 1, 2) }

Send(from, to, key) ==
    [ Base EXCEPT !.from = from, !.to = to, !.reason = "transfer_send", !.key = key ]
Received(key) == [ Base EXCEPT !.reason = "transfer_receive", !.task = task, !.key = key ]

Issue ==
    [ lock |-> {}, commits |-> FALSE,
      commands |-> << Send(rawStore, saw, issueKey), Received(receiptKey) >> ]
TakeBack ==
    [ lock |-> {}, commits |-> FALSE,
      commands |-> << [ Base EXCEPT !.from = saw, !.to = rawStore, !.reason = "return_to_stock",
                                    !.key = returnKey ] >> ]
Portion ==
    [ lock |-> {Key(saw)}, commits |-> FALSE,
      commands |-> << [ Base EXCEPT !.from = saw, !.to = shipped, !.reason = "final_release",
                                    !.task = task ] >> ]
Adjustment ==
    [ lock |-> {}, commits |-> TRUE,
      commands |-> << [ Base EXCEPT !.from = rawStore, !.quantity = 2,
                                    !.reason = "adjustment_out" ] >> ]

MCRequests == { Issue, TakeBack, Portion, Adjustment }

============================================================================
