---------------------------- MODULE StockLedger ----------------------------
(***************************************************************************)
(* The ledger and its projection, one database transaction per step:       *)
(* StockCommandService.record, the reversal of an action by                *)
(* StockCompensator, hard_purge, the forced deletion of an import batch    *)
(* and rebuild_all_balances.  How concurrent transactions interleave is    *)
(* the subject of LedgerTransactions.                                      *)
(***************************************************************************)
EXTENDS LedgerRules

CONSTANTS
    Commands,        \* the commands the services may issue
    Batches,         \* import batches, each the set of tasks generated from it
    MaxTransactions  \* bound: ids the identity column gives out

ASSUME StockLedgerConstants ==
    /\ Commands \subseteq StockCommand
    /\ Batches \subseteq SUBSET Tasks
    /\ MaxTransactions \in Nat

VARIABLES
    ledger,   \* stock_transactions
    balance,  \* stock_balances; 0 where there is no row
    nextId    \* the identity column

vars == << ledger, balance, nextId >>

Compensations(t) == { c \in ledger : c.reverses = t.id }
InForce == { t \in ledger : t.reverses = NULL /\ Compensations(t) = {} }
TransactionsOf(a) == { t \in ledger : t.action = a }

Init ==
    /\ ledger = {}
    /\ balance = [ k \in BalanceKey |-> 0 ]
    /\ nextId = 1

----------------------------------------------------------------------------
(* StockCommandService.record for a direct command.  A command whose key is *)
(* in the ledger already returns the prior row: a stuttering step.          *)

Replayed(c) == c.key # NULL /\ \E t \in ledger : t.key = c.key

(* The rows of an action are written by the request that logged it, so none  *)
(* is added once the action has been reversed.                               *)
ActionOpen(c) == \A t \in TransactionsOf(c.action) : Compensations(t) = {}

Record(c) ==
    /\ nextId <= MaxTransactions
    /\ ~Replayed(c)
    /\ ActionOpen(c)
    /\ Valid(c)
    /\ OperationsKnown(c)
    /\ Sufficient(c, IF SourceKey(c) \in BalanceKey THEN balance[SourceKey(c)] ELSE 0)
    /\ LET t == Transaction(c, nextId) IN
         /\ ledger' = ledger \cup {t}
         /\ balance' = RefreshBalance(balance, ledger', TouchedKeys(t))
    /\ nextId' = nextId + 1

----------------------------------------------------------------------------
(* StockCompensator.check, plan and apply: every direct transaction of the  *)
(* action that is still in force is mirrored, if the places the material    *)
(* has to be taken back from hold enough of it.                             *)

GenerationAgain(a) == TransactionsOf(a)    \* fault: reversed rows are taken again
Generation(a) == TransactionsOf(a) \cap InForce

CoverageNeed(G, k) == SumQuantity({ t \in G : ToKey(t) = k })

CoveredPerTransaction(G) ==    \* fault: needs on one key are not added up
    \A t \in G : t.to # NULL => balance[ToKey(t)] >= t.quantity
Covered(G) ==
    \A k \in BalanceKey : CoverageNeed(G, k) > 0 => balance[k] >= CoverageNeed(G, k)

(* Ids go up in the order of the sources' ids. *)
MirrorId(G, t) == nextId + Cardinality({ u \in G : u.id < t.id })

MirroredTwice(G) ==    \* fault: every source is compensated twice
    { Mirror(t, MirrorId(G, t)) : t \in G } \cup
    { Mirror(t, MirrorId(G, t) + Cardinality(G)) : t \in G }
Mirrored(G) == { Mirror(t, MirrorId(G, t)) : t \in G }

ReverseAction(a) ==
    LET G == Generation(a) IN
    /\ G # {}
    /\ nextId + Cardinality(G) <= MaxTransactions + 1
    /\ Covered(G)
    /\ ledger' = ledger \cup Mirrored(G)
    /\ balance' = RefreshBalance(balance, ledger', UNION { TouchedKeys(t) : t \in Mirrored(G) })
    /\ nextId' = nextId + Cardinality(G)

----------------------------------------------------------------------------
(* ReversalService.hard_purge: a reversed action whose transactions all     *)
(* have exactly one compensation disappears from the ledger together with   *)
(* them.  The balances are left alone.                                      *)

PairedOneToOne(a) ==
    /\ TransactionsOf(a) # {}
    /\ \A t \in TransactionsOf(a) : Cardinality(Compensations(t)) = 1

HardPurge(a) ==
    /\ PairedOneToOne(a)
    /\ ledger' = ledger \ (TransactionsOf(a) \cup UNION { Compensations(t) : t \in TransactionsOf(a) })
    /\ UNCHANGED << balance, nextId >>

----------------------------------------------------------------------------
(* force_delete_import_batch: every transaction of the batch's tasks and    *)
(* transfers is deleted and the keys it touched are recomputed from what    *)
(* is left.                                                                 *)

BatchTransfers(ts) == { t.transfer : t \in { u \in ledger : u.task \in ts } } \ {NULL}

BatchTransactions(ts) ==
    { t \in ledger : t.task \in ts \/ t.transfer \in BatchTransfers(ts) }

(* _force_blockers: a transfer with one end outside the batch, a            *)
(* compensation of a transaction outside it.                                *)
CrossesBatch(ts) ==
    \/ \E t \in BatchTransactions(ts) : t.transfer # NULL /\ t.task \notin ts
    \/ \E c \in BatchTransactions(ts) :
         c.reverses # NULL /\ c.reverses \notin { t.id : t \in BatchTransactions(ts) }

ForceDelete(ts) ==
    LET T == BatchTransactions(ts) IN
    /\ T # {}
    /\ ~CrossesBatch(ts)
    /\ ledger' = ledger \ T
    /\ balance' = RefreshBalance(balance, ledger', UNION { TouchedKeys(t) : t \in T })
    /\ UNCHANGED nextId

(* rebuild_all_balances *)
RebuildAllBalances ==
    /\ balance' = [ k \in BalanceKey |-> IF Materialised(k) THEN LedgerNet(ledger, k) ELSE 0 ]
    /\ UNCHANGED << ledger, nextId >>

Next ==
    \/ \E c \in Commands : Record(c)
    \/ \E a \in Actions : ReverseAction(a) \/ HardPurge(a)
    \/ \E ts \in Batches : ForceDelete(ts)
    \/ RebuildAllBalances

Spec == Init /\ [][Next]_vars

----------------------------------------------------------------------------

TypeOK ==
    /\ ledger \subseteq StockTransaction
    /\ IsFiniteSet(ledger)
    /\ \A t \in ledger : t.id < nextId
    /\ \A t, u \in ledger : t.id = u.id => t = u
    /\ nextId \in Nat \ {0}
    /\ balance \in [ BalanceKey -> Int ]

(* S1 of test_integrity_invariants.py: every balance row is the ledger's sum *)
(* over its five-axis key, a row that is missing is a sum of zero, and a     *)
(* terminal section has no row.  hard_purge never recomputes a balance, so   *)
(* this also says that a purged pair was an exact mirror.                    *)
BalanceMatchesLedger ==
    \A k \in BalanceKey :
        balance[k] = IF Materialised(k) THEN LedgerNet(ledger, k) ELSE 0

(* A compensation is the exact mirror of one direct transaction that is      *)
(* still in the ledger, operations included ("the compensation mirrors the   *)
(* attribute"), and no transaction is compensated twice: a deletion takes    *)
(* both or neither, and a compensation is never itself reversed.             *)
CompensationsMirror ==
    /\ \A c \in ledger : c.reverses # NULL =>
         \E t \in ledger : t.reverses = NULL /\ c = Mirror(t, c.id)
    /\ \A c, d \in ledger : c.reverses = d.reverses /\ c.reverses # NULL => c = d

(* "The remainder is >= 0 before and after": only a command that carries     *)
(* allow_negative, at a place without lot tracking, takes a key below zero,  *)
(* and only the forced deletion of a batch may besides.  In particular no    *)
(* reversal and no purge does, and no lot-tracked place ever does.           *)
NegativeOnlyByPermission ==
    [][ \A k \in BalanceKey :
          balance'[k] < balance[k] /\ balance'[k] < 0 =>
            \/ \E c \in Commands :
                 Record(c) /\ c.allowNegative /\ SourceKey(c) = k /\ k.location \notin LotTracked
            \/ \E ts \in Batches : ForceDelete(ts) ]_vars

(* What has arrived at a terminal section stays there: with no balance row   *)
(* neither a command nor the coverage check of a reversal can take it back,  *)
(* short of a command that carries allow_negative; only deleting the batch   *)
(* removes it.                                                               *)
TerminalKeepsMaterial ==
    [][ \A k \in BalanceKey :
          ~Materialised(k) /\ LedgerNet(ledger', k) < LedgerNet(ledger, k) =>
            \/ \E c \in Commands : Record(c) /\ c.allowNegative /\ SourceKey(c) = k
            \/ \E ts \in Batches : ForceDelete(ts) ]_vars

(* The ledger implements the abstract stock: a compensated transaction and   *)
(* its mirror are as if they had never been, purging them is invisible, and  *)
(* everything else moves exactly its quantity between exactly two keys.      *)
Abstract == INSTANCE MovesInForce WITH moves <- InForce, onHand <- balance
ImplementsMoves == Abstract!Spec

============================================================================
