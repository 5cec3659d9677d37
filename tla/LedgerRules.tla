---------------------------- MODULE LedgerRules ----------------------------
(***************************************************************************)
(* The stock ledger's data and the rules of StockCommandService that read  *)
(* no mutable state of their own: the rows of stock_transactions and       *)
(* stock_balances, the five-axis balance key, the sums the projection is   *)
(* computed from, and the checks a command passes before it is written.    *)
(*                                                                         *)
(* A product stands for the pair (product, dimensions): both are equality  *)
(* axes of the balance key and no rule tells them apart.  Quantities are   *)
(* whole units of Numeric(14,3).                                           *)
(***************************************************************************)
EXTENDS Integers, FiniteSets

CONSTANTS
    Products,         \* (product_id, dimensions) pairs
    Locations,        \* sections
    Terminal,         \* sections of type "terminal": no balance is kept for them
    LotTracked,       \* sections of a storage group with requires_lot
    Operations,       \* known values of completed_operations ([] is one of them)
    Tasks,            \* work tasks
    RouteOperations,  \* the operations the route gives a task's output, NULL if unknown
    Transfers,        \* transfers
    Actions,          \* rows of the action journal
    IdempotencyKeys,  \* client-chosen keys
    MaxQuantity,      \* the largest quantity of one command
    NULL              \* SQL NULL

Reason ==
    { "transfer_send", "transfer_receive", "complete", "transform_consume", "scrap",
      "rework", "return_to_stock", "return_to_previous", "final_release",
      "adjustment_in", "adjustment_out", "manual_in", "manual_out", "issue_to_work" }

QualityState == { "good", "scrap", "rework", "final_scrap" }

Nullable(S) == S \cup {NULL}

ASSUME LedgerConstants ==
    /\ Terminal \subseteq Locations
    /\ LotTracked \subseteq Locations
    /\ MaxQuantity \in Nat \ {0}
    /\ RouteOperations \in [Tasks -> Nullable(Operations)]
    /\ NULL \notin Locations
    /\ NULL \notin Operations
    /\ NULL \notin Tasks
    /\ NULL \notin Transfers
    /\ NULL \notin Actions
    /\ NULL \notin IdempotencyKeys
    /\ NULL \notin Nat

BalanceKey ==
    [ product : Products, location : Locations, quality : QualityState,
      operations : Nullable(Operations) ]

StockTransaction ==
    [ id : Nat, product : Products, from : Nullable(Locations), to : Nullable(Locations),
      quantity : 1..MaxQuantity, reason : Reason, fromQuality : QualityState,
      toQuality : QualityState, operations : Nullable(Operations), task : Nullable(Tasks),
      transfer : Nullable(Transfers), action : Nullable(Actions), reverses : Nullable(Nat),
      key : Nullable(IdempotencyKeys) ]

(* A command as the services build it; a compensation never takes this      *)
(* form, it is derived from its source by Mirror.                           *)
StockCommand ==
    [ product : Products, from : Nullable(Locations), to : Nullable(Locations),
      quantity : 0..MaxQuantity, reason : Reason, quality : QualityState,
      toQuality : QualityState, operations : Nullable(Operations), task : Nullable(Tasks),
      transfer : Nullable(Transfers), action : Nullable(Actions),
      key : Nullable(IdempotencyKeys), allowNegative : BOOLEAN ]

----------------------------------------------------------------------------
(* Sums over the ledger.                                                    *)

FromKey(t) ==
    [ product |-> t.product, location |-> t.from, quality |-> t.fromQuality,
      operations |-> t.operations ]

ToKey(t) ==
    [ product |-> t.product, location |-> t.to, quality |-> t.toQuality,
      operations |-> t.operations ]

(* A NULL location belongs to no balance key. *)
TouchedKeys(t) == { FromKey(t), ToKey(t) } \cap BalanceKey

Incoming(L, k) == { t \in L : ToKey(t) = k }
Outgoing(L, k) == { t \in L : FromKey(t) = k }

(* coalesce(sum(quantity), 0), counted unit by unit. *)
Units(S) == { p \in S \X (1..MaxQuantity) : p[2] <= p[1].quantity }
SumQuantity(S) == Cardinality(Units(S))

LedgerNet(L, k) == SumQuantity(Incoming(L, k)) - SumQuantity(Outgoing(L, k))

Materialised(k) == k.location \notin Terminal

(* refresh_balance / _recompute_balance for the keys ks: the row takes the  *)
(* ledger's value (0 is "the row is deleted"); terminal keys are skipped.   *)
RefreshTerminalToo(b, L, ks) ==    \* fault: a row for a terminal section
    [ k \in BalanceKey |-> IF k \in ks THEN LedgerNet(L, k) ELSE b[k] ]

RefreshBalance(b, L, ks) ==
    [ k \in BalanceKey |-> IF k \in ks /\ Materialised(k) THEN LedgerNet(L, k) ELSE b[k] ]

----------------------------------------------------------------------------
(* The checks of StockCommandService.record.                                *)

ValidAnyQuantity(c) ==    \* fault: a quantity of zero passes
    /\ c.reason # "issue_to_work"
    /\ c.from # NULL \/ c.to # NULL \/ c.reason = "transfer_receive"

(* _validate, and the CHECK constraints of stock_transactions. *)
Valid(c) ==
    /\ c.reason # "issue_to_work"
    /\ c.quantity > 0
    /\ c.from # NULL \/ c.to # NULL \/ c.reason = "transfer_receive"
    /\ c.from = NULL \/ c.to = NULL \/ c.from # c.to \/ c.reason = "complete"
    /\ c.reason = "scrap" => c.quality = "good" /\ c.toQuality = "scrap"
    /\ c.reason = "rework" => c.toQuality = "rework"
    /\ c.reason = "complete" => c.toQuality = "good"

(* _resolve_completed_operations for a direct command. *)
ResolvedOperations(c) ==
    IF c.operations = NULL /\ c.task # NULL THEN RouteOperations[c.task] ELSE c.operations

(* A command of the plan may not be written with unknown operations. *)
OperationsKnown(c) == c.task = NULL \/ ResolvedOperations(c) # NULL

(* _ensure_sufficient_balance against the balance row the command reads. *)
SourceKey(c) ==
    [ product |-> c.product, location |-> c.from, quality |-> c.quality,
      operations |-> ResolvedOperations(c) ]

MovesNothing(c) == c.from = c.to /\ c.quality = c.toQuality

SufficientIfAny(c, available) ==    \* fault: the row is there, whatever it holds
    c.from = NULL \/ MovesNothing(c) \/ available > 0 \/ c.allowNegative

Sufficient(c, available) ==
    \/ c.from = NULL
    \/ MovesNothing(c)
    \/ available >= c.quantity
    \/ c.allowNegative /\ c.from \notin LotTracked

(* The row a direct command inserts. *)
Transaction(c, id) ==
    [ id |-> id, product |-> c.product, from |-> c.from, to |-> c.to,
      quantity |-> c.quantity, reason |-> c.reason, fromQuality |-> c.quality,
      toQuality |-> c.toQuality, operations |-> ResolvedOperations(c), task |-> c.task,
      transfer |-> c.transfer, action |-> c.action, reverses |-> NULL, key |-> c.key ]

(* The compensation of t: locations and qualities swapped, everything else  *)
(* that places the material kept (MirrorLedgerMixin._plan_entries).         *)
MirrorWithoutOperations(t, id) ==    \* fault: the operations are not mirrored
    [ id |-> id, product |-> t.product, from |-> t.to, to |-> t.from, quantity |-> t.quantity,
      reason |-> t.reason, fromQuality |-> t.toQuality, toQuality |-> t.fromQuality,
      operations |-> NULL, task |-> t.task, transfer |-> t.transfer, action |-> NULL,
      reverses |-> t.id, key |-> NULL ]
MirrorNegative(t, id) ==    \* fault: the direction kept, the quantity negated
    [ id |-> id, product |-> t.product, from |-> t.from, to |-> t.to, quantity |-> -t.quantity,
      reason |-> t.reason, fromQuality |-> t.fromQuality, toQuality |-> t.toQuality,
      operations |-> t.operations, task |-> t.task, transfer |-> t.transfer, action |-> NULL,
      reverses |-> t.id, key |-> NULL ]
Mirror(t, id) ==
    [ id |-> id, product |-> t.product, from |-> t.to, to |-> t.from, quantity |-> t.quantity,
      reason |-> t.reason, fromQuality |-> t.toQuality, toQuality |-> t.fromQuality,
      operations |-> t.operations, task |-> t.task, transfer |-> t.transfer, action |-> NULL,
      reverses |-> t.id, key |-> NULL ]

============================================================================
