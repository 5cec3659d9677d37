--------------------------- MODULE ReversalJournal ---------------------------
(***************************************************************************)
(* The action journal and ReversalService: what a domain operation logs,   *)
(* what depends on what, the preview with its plan token, the confirmed    *)
(* reversal of an action or of the cascade built on it, and the hard purge *)
(* of what has been reversed.  A reversal request reads (preview, plan of   *)
(* its first node) and then writes, and other requests may commit in       *)
(* between.  What single statements of record() may do to each other is    *)
(* the subject of LedgerTransactions and left out here.                    *)
(*                                                                         *)
(* An action is its position in the journal.  The rows of stock_balances   *)
(* follow the ledger, as RefreshBalance does.                              *)
(***************************************************************************)
EXTENDS LedgerRules, Sequences, FiniteSetsExt

CONSTANTS
    DomainOperations,  \* what the services log: the type, the task, the commands
    InitialLedger,     \* transactions from before the journal
    Workers            \* reversal requests that may be under way

TaskActionFamily == { "task_complete", "final_release", "return_to_stock", "plan_auto_release" }
ActionCompensable == TaskActionFamily \cup
    { "defect_decision", "manual_adjustment", "import_remainders" }

DomainOperation ==
    [ type : ActionCompensable, ref : Nullable(Tasks), commands : Seq(StockCommand) ]

ASSUME ReversalJournalConstants ==
    /\ DomainOperations \subseteq DomainOperation
    /\ \A o \in DomainOperations : Len(o.commands) > 0
    /\ InitialLedger \subseteq StockTransaction
    /\ IsFiniteSet(InitialLedger)
    /\ \A t \in InitialLedger : t.id \in 1..Cardinality(InitialLedger)
    /\ \A t, u \in InitialLedger : t.id = u.id => t = u
    /\ \A t \in InitialLedger : t.action = NULL /\ t.reverses = NULL
    /\ IsFiniteSet(Actions) /\ Actions = 1..Cardinality(Actions)

MaxActions == Cardinality(Actions)    \* bound: rows of the journal

VARIABLES
    db,         \* the committed database: journal, ledger, balance and the next id
    token,      \* the plan token the client holds, NULL at first
    request,    \* per worker: what a reversal request has read, NULL when idle
    overlapped  \* bookkeeping: a request has committed while another was under way

vars == << db, token, request, overlapped >>

Status == { "active", "reversed", "purged" }

JournalEntry ==
    [ type : ActionCompensable \cup {"reversal"}, ref : Nullable(Tasks),
      dependsOn : SUBSET Actions, status : Status, reversedBy : Nullable(Actions) ]

Logged(type, ref, dependsOn) ==
    [ type |-> type, ref |-> ref, dependsOn |-> dependsOn, status |-> "active",
      reversedBy |-> NULL ]

Init ==
    /\ db = [ journal |-> << >>, ledger |-> InitialLedger,
              balance |-> [ k \in BalanceKey |->
                              IF Materialised(k) THEN LedgerNet(InitialLedger, k) ELSE 0 ],
              nextId |-> Cardinality(InitialLedger) + 1 ]
    /\ token = NULL
    /\ request = [ w \in Workers |-> NULL ]
    /\ overlapped = FALSE

(* A request of a worker outside W commits: who is under way may be misled. *)
Commits(W) == overlapped' = (overlapped \/ \E v \in Workers \ W : request[v] # NULL)

----------------------------------------------------------------------------
(* Writing.  Each operator takes a database and gives the next one, or      *)
(* Failed, no database: an exception rolls the whole request back.          *)

Failed == [ rolledBack |-> TRUE ]

Available(d, k) == IF k \in BalanceKey THEN d.balance[k] ELSE 0

Inserted(d, t) ==
    LET L == d.ledger \cup {t} IN
    [ d EXCEPT !.ledger = L, !.nextId = @ + 1,
               !.balance = RefreshBalance(d.balance, L, TouchedKeys(t)) ]

(* record() for a direct command of action a. *)
Recorded(d, c, a) ==
    IF d = Failed THEN Failed
    ELSE IF Valid(c) /\ OperationsKnown(c) /\ Sufficient(c, Available(d, SourceKey(c)))
    THEN Inserted(d, [ Transaction(c, d.nextId) EXCEPT !.action = a ])
    ELSE Failed

(* record() for the compensations of G by the reversal action a, in the     *)
(* order of the sources' ids.  What is on hand is not looked at again; the  *)
(* sources must be there for the foreign key.                               *)
MirrorId(d, G, t) == d.nextId + Cardinality({ u \in G : u.id < t.id })

Mirrors(d, G, a) == { [ Mirror(t, MirrorId(d, G, t)) EXCEPT !.action = a ] : t \in G }

Compensated(d, G, a) ==
    LET M == Mirrors(d, G, a)
        L == d.ledger \cup M
    IN IF G \subseteq d.ledger
       THEN [ d EXCEPT !.ledger = L, !.nextId = @ + Cardinality(G),
                       !.balance = RefreshBalance(@, L, UNION { TouchedKeys(m) : m \in M }) ]
       ELSE Failed

----------------------------------------------------------------------------
(* A domain operation: log_task_action chains it to the last active action  *)
(* of the task's family, log() to nothing.                                  *)

LastActiveForRef(d, ref) ==
    { a \in DOMAIN d.journal :
        /\ d.journal[a].ref = ref
        /\ d.journal[a].status = "active"
        /\ d.journal[a].type \in TaskActionFamily
        /\ \A b \in DOMAIN d.journal :
             b > a => \/ d.journal[b].ref # ref
                      \/ d.journal[b].status # "active"
                      \/ d.journal[b].type \notin TaskActionFamily }

Performed(d, o) ==
    LET a == Len(d.journal) + 1
        entry == Logged(o.type, o.ref,
                        IF o.type \in TaskActionFamily THEN LastActiveForRef(d, o.ref) ELSE {})
        after[n \in 0..Len(o.commands)] ==
          IF n = 0 THEN [ d EXCEPT !.journal = Append(@, entry) ]
          ELSE Recorded(after[n - 1], o.commands[n], a)
    IN after[Len(o.commands)]

Perform(o) ==
    /\ Len(db.journal) < MaxActions
    /\ Performed(db, o) # Failed
    /\ db' = Performed(db, o)
    /\ Commits({})
    /\ UNCHANGED << token, request >>

----------------------------------------------------------------------------
(* _cascade_set: what is built on action a.  An action depends only on      *)
(* earlier ones, and on one of them at most.                                *)

Active(d, a) == d.journal[a].status = "active"

(* Reached from a by way of active actions only, and by any way. *)
ActiveBelow(d, a) ==
    LET reached[b \in a..Len(d.journal)] ==
          b = a \/ (Active(d, b) /\ \E p \in d.journal[b].dependsOn : p >= a /\ reached[p])
    IN { b \in (a + 1)..Len(d.journal) : reached[b] }

OrphansBelow(d, a) ==
    LET reached[b \in a..Len(d.journal)] ==
          b = a \/ \E p \in d.journal[b].dependsOn : p >= a /\ reached[p]
    IN { b \in (a + 1)..Len(d.journal) : reached[b] /\ Active(d, b) } \ ActiveBelow(d, a)

RevertNodesAlone(d, a, cascade) == {a}    \* fault: the cascade is forgotten
RevertNodes(d, a, cascade) == IF cascade THEN {a} \cup ActiveBelow(d, a) ELSE {a}

(* _reverse_topological_order: the largest id that nothing left depends on. *)
(* A dependent has the larger id, so this is from the largest id down.      *)
FirstNode(nodes) == CHOOSE a \in nodes : \A b \in nodes : b <= a

----------------------------------------------------------------------------
(* MirrorLedgerMixin: the generation of an action, its coverage needs and   *)
(* what its compensations do to the coverage of the nodes after it.         *)

Compensations(d, t) == { c \in d.ledger : c.reverses = t.id }

Generation(d, a) ==
    { t \in d.ledger : t.action = a /\ t.reverses = NULL /\ Compensations(d, t) = {} }

CoverageNeed(G, k) == SumQuantity({ t \in G : ToKey(t) = k })

NoAdjustment == [ k \in BalanceKey |-> 0 ]

(* The row counts if it is positive. *)
CoveredAnywhere(d, G, adjustment) ==    \* fault: material elsewhere counts
    \A k \in BalanceKey : CoverageNeed(G, k) = 0 \/
        \E l \in BalanceKey : d.balance[l] + adjustment[l] >= CoverageNeed(G, k)
CoveredWith(d, G, adjustment) ==
    \A k \in BalanceKey :
        LET row == IF d.balance[k] > 0 THEN d.balance[k] ELSE 0
        IN CoverageNeed(G, k) = 0 \/ row + adjustment[k] >= CoverageNeed(G, k)

(* The material goes back in the quality it is taken in, as the code has it. *)
CreditKey(t) == [ FromKey(t) EXCEPT !.quality = t.toQuality ]

NoCoverageEffect(G) == NoAdjustment    \* fault: each node against the snapshot (#274)
CoverageEffect(G) ==
    [ k \in BalanceKey |-> SumQuantity({ t \in G : CreditKey(t) = k }) - CoverageNeed(G, k) ]

----------------------------------------------------------------------------
(* preview_reverse.                                                         *)

HasCompensator(d, a) == d.journal[a].type \in ActionCompensable

(* The virtual walk: the adjustments so far, and whether nothing blocks. *)
CoveredNode(d, v, a) ==
    LET G == Generation(d, a) IN
    IF HasCompensator(d, a) /\ CoveredWith(d, G, v.adjustment)
    THEN [ v EXCEPT !.adjustment =
             [ k \in BalanceKey |-> v.adjustment[k] + CoverageEffect(G)[k] ] ]
    ELSE [ v EXCEPT !.ok = FALSE ]

CascadeCovered(d, nodes) ==
    LET walk[a \in 1..(MaxActions + 1)] ==
          IF a > MaxActions THEN [ adjustment |-> NoAdjustment, ok |-> TRUE ]
          ELSE IF a \in nodes THEN CoveredNode(d, walk[a + 1], a) ELSE walk[a + 1]
    IN walk[1].ok

DependentsAllow(d, a, cascade) ==
    /\ ~cascade => ActiveBelow(d, a) = {}
    /\ cascade => OrphansBelow(d, a) = {}

PreviewClear(d, a, cascade) ==
    /\ Active(d, a)
    /\ DependentsAllow(d, a, cascade)
    /\ CascadeCovered(d, RevertNodes(d, a, cascade))

(* The snapshot of the world that the token carries. *)
Fingerprint(d, nodes) ==
    [ tx |-> IF d.ledger = {} THEN 0 ELSE Max({ t.id : t \in d.ledger }),
      act |-> Len(d.journal),
      statuses |-> { << n, d.journal[n].status >> : n \in nodes } ]

PreviewReverse(a, cascade) ==
    /\ PreviewClear(db, a, cascade)
    /\ token' = [ kind |-> "reverse", action |-> a, cascade |-> cascade,
                  fp |-> Fingerprint(db, RevertNodes(db, a, cascade)) ]
    /\ UNCHANGED << db, request, overlapped >>

----------------------------------------------------------------------------
(* reverse: the token and a fresh preview, then node after node.            *)

HoldsToken(kind) == token # NULL /\ token.kind = kind

(* What has been read before the first write; the target stays in memory    *)
(* with the status it had.                                                  *)
ReversalOf(d, a, cascade) ==
    LET nodes == RevertNodes(d, a, cascade) IN
    [ target |-> a, nodes |-> nodes, planned |-> Generation(d, FirstNode(nodes)) ]

BeginReverse(w) ==
    /\ request[w] = NULL
    /\ HoldsToken("reverse")
    /\ PreviewClear(db, token.action, token.cascade)
    /\ token.fp = Fingerprint(db, RevertNodes(db, token.action, token.cascade))
    /\ request' = [ request EXCEPT ![w] = ReversalOf(db, token.action, token.cascade) ]
    /\ UNCHANGED << db, token, overlapped >>

(* The node a, whose transactions to compensate are G: its own reversal     *)
(* action, the compensations, and the node's new status.                    *)
WithoutStatus(d, a, rev) == d.journal    \* fault: the node stays active
WithStatus(d, a, rev) ==
    [ d.journal EXCEPT ![a].status = "reversed", ![a].reversedBy = rev ]

ReversedNode(d, a, G) ==
    LET rev == Len(d.journal) + 1
        logged == Append(d.journal, Logged("reversal", d.journal[a].ref, d.journal[a].dependsOn))
        written == Compensated([ d EXCEPT !.journal = logged ], G, rev)
    IN IF G = {} \/ written = Failed THEN Failed
       ELSE [ written EXCEPT !.journal = WithStatus(written, a, rev) ]

NextNode(d, r, a) ==
    IF d = Failed THEN Failed
    ELSE IF a = FirstNode(r.nodes) THEN ReversedNode(d, a, r.planned)
    ELSE IF a # r.target /\ ~Active(d, a) THEN d
    ELSE IF HasCompensator(d, a) /\ CoveredWith(d, Generation(d, a), NoAdjustment)
    THEN ReversedNode(d, a, Generation(d, a))
    ELSE Failed

Reversed(d, r) ==
    LET done[a \in 1..(MaxActions + 1)] ==
          IF a > MaxActions THEN d
          ELSE IF a \in r.nodes THEN NextNode(done[a + 1], r, a) ELSE done[a + 1]
    IN done[1]

FinishReverse(w) ==
    /\ request[w] # NULL
    /\ Len(db.journal) + Cardinality(request[w].nodes) <= MaxActions
    /\ Reversed(db, request[w]) # Failed
    /\ db' = Reversed(db, request[w])
    /\ request' = [ request EXCEPT ![w] = NULL ]
    /\ Commits({w})
    /\ UNCHANGED token

(* An exception, or the end of the process: the transaction is rolled back. *)
AbortReverse(w) ==
    /\ request[w] # NULL
    /\ request' = [ request EXCEPT ![w] = NULL ]
    /\ UNCHANGED << db, token, overlapped >>

----------------------------------------------------------------------------
(* hard_purge: the dry run and the confirmation.                            *)

TransactionsOf(d, a) == { t \in d.ledger : t.action = a }

SourcesOnly(d, a) == TransactionsOf(d, a)    \* fault: the compensations are left
PairsOf(d, a) == TransactionsOf(d, a) \cup UNION { Compensations(d, t) : t \in TransactionsOf(d, a) }

Purgeable(d, a) ==
    /\ d.journal[a].status = "reversed"
    /\ ActiveBelow(d, a) \cup OrphansBelow(d, a) = {}
    /\ TransactionsOf(d, a) # {}
    /\ \A t \in TransactionsOf(d, a) : Cardinality(Compensations(d, t)) = 1

DryRunPurge(a) ==
    /\ Purgeable(db, a)
    /\ token' = [ kind |-> "purge", action |-> a, cascade |-> FALSE, fp |-> Fingerprint(db, {a}) ]
    /\ UNCHANGED << db, request, overlapped >>

ConfirmPurge ==
    /\ HoldsToken("purge")
    /\ Purgeable(db, token.action)
    /\ token.fp = Fingerprint(db, {token.action})
    /\ db' = [ db EXCEPT !.ledger = @ \ PairsOf(db, token.action),
                         !.journal[token.action].status = "purged" ]
    /\ Commits({})
    /\ UNCHANGED << token, request >>

----------------------------------------------------------------------------

Next ==
    \/ \E o \in DomainOperations : Perform(o)
    \/ \E a \in DOMAIN db.journal, cascade \in BOOLEAN : PreviewReverse(a, cascade)
    \/ \E w \in Workers : BeginReverse(w) \/ FinishReverse(w) \/ AbortReverse(w)
    \/ \E a \in DOMAIN db.journal : DryRunPurge(a)
    \/ ConfirmPurge

Spec == Init /\ [][Next]_vars

----------------------------------------------------------------------------

PlanToken ==
    [ kind : {"reverse", "purge"}, action : Actions, cascade : BOOLEAN,
      fp : [ tx : Nat, act : Nat, statuses : SUBSET (Actions \X Status) ] ]

TypeOK ==
    /\ db.journal \in Seq(JournalEntry) /\ Len(db.journal) <= MaxActions
    /\ db.ledger \subseteq StockTransaction
    /\ db.balance \in [ BalanceKey -> Int ]
    /\ \A t \in db.ledger : t.id < db.nextId
    /\ token \in Nullable(PlanToken)
    /\ \A w \in Workers : request[w] # NULL =>
         /\ request[w].target \in DOMAIN db.journal
         /\ request[w].planned \subseteq StockTransaction

IsDomain(a) == db.journal[a].type # "reversal"

(* The journal says of an action what the ledger says of its transactions,   *)
(* as long as no two requests overlap: of an active one all are in force, of *)
(* a reversed one each is compensated exactly once and by the reversal       *)
(* action it names, of a purged one neither they nor the compensations are   *)
(* left, and every reversal action compensates exactly one action.           *)
JournalMatchesLedger ==
    ~overlapped => \A a \in DOMAIN db.journal :
        LET e == db.journal[a] IN
        /\ e.status = "active" /\ IsDomain(a) => Generation(db, a) = TransactionsOf(db, a)
        /\ e.status = "reversed" => \A t \in TransactionsOf(db, a) :
             \E c \in db.ledger : Compensations(db, t) = {c} /\ c.action = e.reversedBy
        /\ e.status = "purged" =>
             TransactionsOf(db, a) \cup TransactionsOf(db, e.reversedBy) = {}
        /\ ~IsDomain(a) => \E b \in DOMAIN db.journal :
             { n \in DOMAIN db.journal : db.journal[n].reversedBy = a } = {b}

(* The confirmed cascade takes everything built on the target with it: no    *)
(* active action of a task rests on one that has been reversed, as long as   *)
(* no operation was logged while a reversal was under way.                   *)
NothingBuiltOnReversed ==
    ~overlapped => \A a \in DOMAIN db.journal :
        IsDomain(a) /\ Active(db, a) => \A p \in db.journal[a].dependsOn : Active(db, p)

(* The node-by-node execution of a reversal against the real balances.       *)
Carried(d, n) ==
    IF d # Failed /\ HasCompensator(d, n) /\ CoveredWith(d, Generation(d, n), NoAdjustment)
    THEN ReversedNode(d, n, Generation(d, n)) ELSE Failed

CarriedOut(d, nodes) ==
    LET done[a \in 1..(MaxActions + 1)] ==
          IF a > MaxActions THEN d
          ELSE IF a \in nodes THEN Carried(done[a + 1], a) ELSE done[a + 1]
    IN done[1]

(* The virtual walk of the preview (#274) tells the truth: it finds the      *)
(* cascade covered exactly when carrying it out, node after node, against    *)
(* the balances each compensation really leaves, never falls short.          *)
PreviewTellsTheTruth ==
    ~overlapped => \A a \in DOMAIN db.journal, cascade \in BOOLEAN :
        LET nodes == RevertNodes(db, a, cascade) IN
        IsDomain(a) /\ Active(db, a) /\ DependentsAllow(db, a, cascade) =>
            (CascadeCovered(db, nodes) <=> CarriedOut(db, nodes) # Failed)

(* Whatever overlaps: once an action is reversed nothing of it is in force,  *)
(* a purge takes the transactions and all their compensations, and no        *)
(* compensation is left without the transaction it reverses.                 *)
StatusNeverAheadOfLedger ==
    /\ \A a \in DOMAIN db.journal : IsDomain(a) /\ ~Active(db, a) => Generation(db, a) = {}
    /\ \A a \in DOMAIN db.journal :
         db.journal[a].status = "purged" => TransactionsOf(db, a) = {}
    /\ \A c \in db.ledger : c.reverses # NULL => \E t \in db.ledger : t.id = c.reverses

(* What the comments promise of _cascade_set and _purge_pairs: "nodes        *)
(* already reversed are skipped", "live dependents block the purge".  What   *)
(* holds an action back is an operation that is in force.                    *)
OnlyLiveWorkBlocks ==
    \A a \in DOMAIN db.journal :
        LET holding == ActiveBelow(db, a) \cup OrphansBelow(db, a) IN
        IsDomain(a) /\ holding # {} => \E b \in holding : IsDomain(b)

(* What _coverage_deficit promises of a reversal, "the remainder is >= 0     *)
(* before and after", when no command of the plant asks for less: whatever   *)
(* was taken away between preview and confirmation, no cascade overdraws a   *)
(* key, unless a withdrawal commits while a reversal is under way.           *)
NeverNegative == ~overlapped => \A k \in BalanceKey : db.balance[k] >= 0

============================================================================
