------------------------- MODULE LedgerTransactions -------------------------
(***************************************************************************)
(* Requests that write to the ledger at the same time.  Each runs in one   *)
(* PostgreSQL transaction at READ COMMITTED, and record() is the sequence  *)
(* of statements it sends: look the key up, read the balance row, insert,  *)
(* then for each side of the movement sum the incoming rows, sum the       *)
(* outgoing rows, read the balance row and flush the new value, as an      *)
(* absolute number, into it.  Between two statements any other request may *)
(* go on.  A statement sees what is committed and what its own transaction *)
(* wrote; a write waits for the row, or for the unique key, while another  *)
(* transaction in progress has written it.  An endpoint that does not      *)
(* commit itself leaves the commit to get_db, after its answer.            *)
(***************************************************************************)
EXTENDS LedgerRules, Sequences

CONSTANTS
    Workers,       \* requests being served
    Requests,      \* what a request does: rows it locks first, its commands, who commits
    InitialLedger  \* transactions committed before

Request == [ lock : SUBSET BalanceKey, commands : Seq(StockCommand), commits : BOOLEAN ]

KeysOf(r) == { r.commands[i].key : i \in DOMAIN r.commands } \ {NULL}

ASSUME LedgerTransactionsConstants ==
    /\ Requests \subseteq Request
    /\ \A r \in Requests : Len(r.commands) > 0
    /\ \A r, s \in Requests : r = s \/ KeysOf(r) \cap KeysOf(s) = {}
    /\ \A r \in Requests : \A i \in DOMAIN r.commands : ~r.commands[i].allowNegative

(* What was committed before was written by such requests, one after the    *)
(* other.                                                                   *)
ASSUME InitialLedgerWritten ==
    /\ InitialLedger \subseteq StockTransaction
    /\ IsFiniteSet(InitialLedger)
    /\ \A t \in InitialLedger : t.id <= Cardinality(InitialLedger)
    /\ \A t, u \in InitialLedger : t.key = u.key /\ t.key # NULL => t = u
    /\ \A r \in Requests :
         KeysOf(r) \cap { t.key : t \in InitialLedger } \in { {}, KeysOf(r) }
    /\ \A k \in BalanceKey : LedgerNet(InitialLedger, k) >= 0

VARIABLES
    ledger,   \* committed stock_transactions
    rows,     \* committed stock_balances: NULL or [row, quantity]
    nextId,   \* the identity columns of both tables
    session,  \* per worker: the open transaction
    answer    \* per worker: what the client is told

VARIABLES  \* bookkeeping for the properties only
    seen,     \* per worker: keys it has read, those changed since, rows not to be trusted
    suspect,  \* keys whose row the last writer computed from stale sums
    overdrawn \* keys drawn upon after a check that had become stale

code == << ledger, rows, nextId, session, answer >>
aux == << seen, suspect, overdrawn >>
vars == << code, aux >>

Row == [ row : Nat, quantity : Int \ {0} ]

ASSUME NullIsNoRow == NULL \notin Row

NoWrites == [ k \in {} |-> NULL ]
NothingSeen == [ sums |-> {}, staleSums |-> {}, checks |-> {}, staleChecks |-> {},
                 misled |-> {} ]

(* A transaction in progress: the row locks it took, the rows it inserted   *)
(* into the ledger, the balance rows it wrote, and what record() is at.     *)
Idle ==
    [ pc |-> "idle", request |-> NULL, n |-> 1, locked |-> {}, own |-> {}, wrote |-> NoWrites,
      sides |-> << >>, sum |-> 0, write |-> NULL ]
Ended(w) == [ Idle EXCEPT !.pc = "done", !.request = session[w].request ]

Current(w) == session[w].request.commands[session[w].n]

(* What a statement of w sees. *)
Visible(w) == ledger \cup session[w].own
VisibleRow(w, k) == IF k \in DOMAIN session[w].wrote THEN session[w].wrote[k] ELSE rows[k]
Quantity(r) == IF r = NULL THEN 0 ELSE r.quantity

InitialRow(k) ==
    IF Materialised(k) /\ LedgerNet(InitialLedger, k) # 0
    THEN [ row |-> 0, quantity |-> LedgerNet(InitialLedger, k) ] ELSE NULL

Init ==
    /\ ledger = InitialLedger
    /\ rows = [ k \in BalanceKey |-> InitialRow(k) ]
    /\ nextId = Cardinality(InitialLedger) + 1
    /\ session = [ w \in Workers |-> Idle ]
    /\ answer = [ w \in Workers |-> "none" ]
    /\ seen = [ w \in Workers |-> NothingSeen ]
    /\ suspect = {}
    /\ overdrawn = {}

----------------------------------------------------------------------------
(* Locks.                                                                   *)

WritersOf(w, k) ==    \* fault: the rows are selected without FOR UPDATE
    { v \in Workers \ {w} : k \in DOMAIN session[v].wrote }
RowHolders(w, k) ==
    { v \in Workers \ {w} : k \in session[v].locked \cup DOMAIN session[v].wrote }
KeyHolders(w, key) == { v \in Workers \ {w} : \E t \in session[v].own : t.key = key }

Blockers(w) ==
    CASE session[w].pc = "lock" -> UNION { RowHolders(w, k) : k \in session[w].request.lock }
      [] session[w].pc = "insert" /\ Current(w).key # NULL -> KeyHolders(w, Current(w).key)
      [] session[w].pc = "flush" /\ session[w].write.kind # "nothing" ->
             RowHolders(w, Head(session[w].sides))
      [] OTHER -> {}

----------------------------------------------------------------------------
(* Steps of a session.                                                      *)

At(w, pc) == session[w].pc = pc

Goto(w, s, pc) == session' = [ session EXCEPT ![w] = [ s EXCEPT !.pc = pc ] ]

(* record() returns: the next command of the request, or its end. *)
Return(w, s) ==
    IF s.n < Len(s.request.commands) THEN Goto(w, [ s EXCEPT !.n = s.n + 1 ], "lookup")
    ELSE Goto(w, s, IF s.request.commits THEN "commit" ELSE "respond")

(* An exception leaves record(): get_db rolls the transaction back. *)
RollBack(w, why) ==
    /\ session' = [ session EXCEPT ![w] = Ended(w) ]
    /\ answer' = [ answer EXCEPT ![w] = why ]
    /\ seen' = [ seen EXCEPT ![w] = NothingSeen ]
    /\ UNCHANGED << ledger, rows, nextId, suspect, overdrawn >>

(* The connection or the process is lost: the client hears nothing, unless  *)
(* it has been answered already.                                            *)
Lost(w) ==
    /\ session[w].pc \notin {"idle", "done"}
    /\ RollBack(w, IF answer[w] = "ok" THEN "ok" ELSE "lost")

Begin(w) ==
    /\ At(w, "idle")
    /\ \E r \in Requests :
         Goto(w, [ Idle EXCEPT !.request = r ], IF r.lock = {} THEN "lookup" ELSE "lock")
    /\ UNCHANGED << ledger, rows, nextId, answer, aux >>

(* SELECT ... FOR UPDATE on the rows there are; a missing row locks nothing. *)
Lock(w) ==
    /\ At(w, "lock")
    /\ Blockers(w) = {}
    /\ Goto(w, [ session[w] EXCEPT !.locked = { k \in session[w].request.lock : rows[k] # NULL } ], "lookup")
    /\ UNCHANGED << ledger, rows, nextId, answer, aux >>

(* _find_by_idempotency_key: a hit returns the prior row. *)
Lookup(w) ==
    /\ At(w, "lookup")
    /\ IF Current(w).key # NULL /\ \E t \in Visible(w) : t.key = Current(w).key
       THEN Return(w, session[w])
       ELSE Goto(w, session[w], "check")
    /\ UNCHANGED << ledger, rows, nextId, answer, aux >>

(* _validate, _resolve_completed_operations, _ensure_sufficient_balance. *)
Acceptable(w) ==
    LET c == Current(w)
        k == SourceKey(c) IN
    /\ Valid(c)
    /\ OperationsKnown(c)
    /\ Sufficient(c, IF k \in BalanceKey THEN Quantity(VisibleRow(w, k)) ELSE 0)

Check(w) ==
    /\ At(w, "check")
    /\ IF Acceptable(w)
       THEN /\ Goto(w, session[w], "insert")
            /\ seen' = [ seen EXCEPT
                 ![w].checks = @ \cup ({SourceKey(Current(w))} \cap BalanceKey),
                 ![w].misled = @ \cup ({SourceKey(Current(w))} \cap (suspect \cup seen[w].staleSums)) ]
            /\ UNCHANGED << ledger, rows, nextId, answer, suspect, overdrawn >>
       ELSE RollBack(w, "rejected")

(* INSERT and flush.  The unique index lets it wait for a transaction in    *)
(* progress with the same key; once that has committed it is a conflict.    *)
SidesOf(t) ==
    LET side(k) == IF k \in BalanceKey /\ Materialised(k) THEN << k >> ELSE << >>
    IN side(FromKey(t)) \o side(ToKey(t))

InsertUnchecked(w) ==    \* fault: no unique index
    /\ At(w, "insert")
    /\ LET t == Transaction(Current(w), nextId)
           s == [ session[w] EXCEPT !.own = @ \cup {t}, !.sides = SidesOf(t) ]
       IN IF s.sides = << >> THEN Return(w, s) ELSE Goto(w, s, "sumIn")
    /\ nextId' = nextId + 1
    /\ UNCHANGED << ledger, rows, answer, aux >>
Insert(w) ==
    /\ At(w, "insert")
    /\ Blockers(w) = {}
    /\ IF Current(w).key # NULL /\ \E t \in Visible(w) : t.key = Current(w).key
       THEN RollBack(w, "conflict")
       ELSE /\ LET t == Transaction(Current(w), nextId)
                   s == [ session[w] EXCEPT !.own = @ \cup {t}, !.sides = SidesOf(t) ]
               IN IF s.sides = << >> THEN Return(w, s) ELSE Goto(w, s, "sumIn")
            /\ nextId' = nextId + 1
            /\ UNCHANGED << ledger, rows, answer, aux >>

(* _recompute_balance for the side in hand: four statements. *)
SumIncoming(w) ==
    /\ At(w, "sumIn")
    /\ LET k == Head(session[w].sides) IN
       /\ Goto(w, [ session[w] EXCEPT !.sum = SumQuantity(Incoming(Visible(w), k)) ], "sumOut")
       /\ seen' = [ seen EXCEPT ![w].sums = @ \cup {k}, ![w].staleSums = @ \ {k} ]
    /\ UNCHANGED << ledger, rows, nextId, answer, suspect, overdrawn >>

SumOutgoing(w) ==
    /\ At(w, "sumOut")
    /\ LET k == Head(session[w].sides) IN
       Goto(w, [ session[w] EXCEPT !.sum = @ - SumQuantity(Outgoing(Visible(w), k)) ], "findRow")
    /\ UNCHANGED << ledger, rows, nextId, answer, aux >>

(* The pending write of the unit of work.  Setting an attribute to the      *)
(* value it was loaded with leaves the column out of the UPDATE: "touch".   *)
PendingWriteKeepsZero(found, sum) ==    \* fault: a row that becomes zero stays
    IF found = NULL THEN [ kind |-> "insert", row |-> NULL ]
    ELSE [ kind |-> "update", row |-> found.row ]
PendingWrite(found, sum) ==
    CASE sum = 0 /\ found = NULL -> [ kind |-> "nothing", row |-> NULL ]
      [] sum = 0 /\ found # NULL -> [ kind |-> "delete", row |-> found.row ]
      [] sum # 0 /\ found = NULL -> [ kind |-> "insert", row |-> NULL ]
      [] OTHER -> [ kind |-> IF found.quantity = sum THEN "touch" ELSE "update",
                    row |-> found.row ]

FindRow(w) ==
    /\ At(w, "findRow")
    /\ Goto(w, [ session[w] EXCEPT !.write =
                   PendingWrite(VisibleRow(w, Head(session[w].sides)), session[w].sum) ], "flush")
    /\ UNCHANGED << ledger, rows, nextId, answer, aux >>

(* The flush, against the row as it is once nobody else holds it: an UPDATE *)
(* that matches no row is a StaleDataError, an INSERT that meets a row an   *)
(* IntegrityError, a DELETE that matches no row only a warning.             *)
FlushSucceeds(p, now) ==
    \/ p.kind \in {"nothing", "delete"}
    \/ p.kind = "insert" /\ now = NULL
    \/ p.kind \in {"update", "touch"} /\ now # NULL /\ now.row = p.row

Written(p, now, sum) ==
    CASE p.kind = "delete" -> NULL
      [] p.kind = "insert" -> [ row |-> nextId, quantity |-> sum ]
      [] p.kind = "update" -> [ row |-> p.row, quantity |-> sum ]
      [] OTHER -> now

LeavesRowAlone(p, now) ==
    \/ p.kind = "nothing"
    \/ p.kind = "delete" /\ (now = NULL \/ now.row # p.row)

NextSide(w, s) ==
    IF Len(s.sides) > 1 THEN Goto(w, [ s EXCEPT !.sides = Tail(s.sides) ], "sumIn")
    ELSE Return(w, [ s EXCEPT !.sides = << >> ])

Flush(w) ==
    /\ At(w, "flush")
    /\ Blockers(w) = {}
    /\ LET k == Head(session[w].sides)
           p == session[w].write
           now == VisibleRow(w, k)
           kept == [ j \in DOMAIN session[w].wrote \cup {k} |->
                       IF j = k THEN Written(p, now, session[w].sum) ELSE session[w].wrote[j] ]
       IN IF ~FlushSucceeds(p, now)
          THEN RollBack(w, "error")
          ELSE /\ NextSide(w, IF LeavesRowAlone(p, now) THEN session[w]
                              ELSE [ session[w] EXCEPT !.wrote = kept ])
               /\ nextId' = IF p.kind = "insert" THEN nextId + 1 ELSE nextId
               /\ UNCHANGED << ledger, rows, answer, aux >>

(* The endpoint returns: FastAPI sends the answer, then get_db commits. *)
Respond(w) ==
    /\ At(w, "respond")
    /\ Goto(w, session[w], "commit")
    /\ answer' = [ answer EXCEPT ![w] = "ok" ]
    /\ UNCHANGED << ledger, rows, nextId, aux >>

Touched(w) == UNION { TouchedKeys(t) : t \in session[w].own }

(* The others' reads of the keys w touched are stale from here on. *)
Outdated(v, ks) ==
    [ seen[v] EXCEPT !.staleSums = @ \cup (ks \cap seen[v].sums),
                     !.staleChecks = @ \cup (ks \cap seen[v].checks) ]

CommitLedgerOnly(w) ==    \* fault: the projection is committed apart, and lost
    /\ At(w, "commit")
    /\ ledger' = ledger \cup session[w].own
    /\ session' = [ session EXCEPT ![w] = Ended(w) ]
    /\ answer' = [ answer EXCEPT ![w] = "ok" ]
    /\ seen' = [ v \in Workers |-> IF v = w THEN NothingSeen ELSE Outdated(v, Touched(w)) ]
    /\ UNCHANGED << rows, nextId, suspect, overdrawn >>
Commit(w) ==
    /\ At(w, "commit")
    /\ ledger' = ledger \cup session[w].own
    /\ rows' = [ k \in BalanceKey |-> VisibleRow(w, k) ]
    /\ session' = [ session EXCEPT ![w] = Ended(w) ]
    /\ answer' = [ answer EXCEPT ![w] = "ok" ]
    /\ seen' = [ v \in Workers |-> IF v = w THEN NothingSeen ELSE Outdated(v, Touched(w)) ]
    /\ suspect' = (suspect \ Touched(w)) \cup seen[w].staleSums
    /\ overdrawn' = overdrawn \cup seen[w].staleChecks \cup seen[w].misled
    /\ UNCHANGED nextId

(* PostgreSQL's deadlock detector rolls back one transaction of a cycle. *)
InWaitCycle(w) ==
    \E S \in SUBSET Workers :
        /\ w \in S
        /\ \A v \in S : Blockers(v) \cap S # {}
        /\ \A v \in S : \E u \in S : v \in Blockers(u)

NoVictim(w) == FALSE /\ RollBack(w, "deadlock")    \* fault: nobody breaks the cycle
DeadlockVictim(w) == InWaitCycle(w) /\ RollBack(w, "deadlock")

Statement(w) ==
    \/ Lock(w) \/ Lookup(w) \/ Check(w) \/ Insert(w)
    \/ SumIncoming(w) \/ SumOutgoing(w) \/ FindRow(w) \/ Flush(w)
    \/ Respond(w) \/ Commit(w)

(* All the requests there were have been answered. *)
Served == (\A w \in Workers : At(w, "done")) /\ UNCHANGED vars

Next ==
    \/ \E w \in Workers : Begin(w) \/ Statement(w) \/ DeadlockVictim(w) \/ Lost(w)
    \/ Served

(* The server goes on with a request it has begun, and the detector runs. *)
Fairness ==
    \A w \in Workers : WF_vars(Statement(w)) /\ WF_vars(DeadlockVictim(w))

Spec == Init /\ [][Next]_vars /\ Fairness

----------------------------------------------------------------------------

TypeOK ==
    /\ ledger \subseteq StockTransaction
    /\ rows \in [ BalanceKey -> Nullable(Row) ]
    /\ nextId \in Nat
    /\ answer \in [ Workers -> {"none", "ok", "rejected", "conflict", "error", "deadlock",
                               "lost"} ]
    /\ \A w \in Workers :
         /\ session[w].own \subseteq StockTransaction
         /\ \A k \in DOMAIN session[w].wrote :
              k \in BalanceKey /\ session[w].wrote[k] \in Nullable(Row)
         /\ At(w, "done") => answer[w] # "none"

InLedger(k) == IF Materialised(k) THEN LedgerNet(ledger, k) ELSE 0

(* S1 with requests in flight: a committed balance row is the committed      *)
(* ledger's sum, except for a key whose last writer had summed it before     *)
(* another request that touches it committed.  The exception ends with the   *)
(* next request that recomputes the key undisturbed.                         *)
BalanceExactUnlessRaced ==
    \A k \in BalanceKey \ suspect : Quantity(rows[k]) = InLedger(k)

(* "The remainder is >= 0": the ledger of a key goes below zero only when a  *)
(* request drew on it after _ensure_sufficient_balance had read a row that   *)
(* was wrong, or that another request has changed before the commit.         *)
NegativeOnlyByStaleCheck ==
    \A k \in BalanceKey : LedgerNet(ledger, k) < 0 => k \in overdrawn

(* A row taken with FOR UPDATE before the commands run, as                   *)
(* _good_input_balance does, keeps both the check and the recomputation of   *)
(* its key good until the commit, whatever requests that take no lock do.    *)
(* The exception is a request that had lost a race for the key before: its   *)
(* DELETE met no row, so it holds none, and it commits under the lock.       *)
LockedStaleOnlyIfSuspect ==
    \A w \in Workers :
        session[w].locked \cap (seen[w].staleSums \cup seen[w].staleChecks) \subseteq suspect

(* A request retried or sent twice, after a rejection, a conflict or a lost  *)
(* connection, is written at most once and as a whole: no key is in the      *)
(* ledger twice, and the keys of a request are there together or not at all. *)
OncePerRequest ==
    /\ \A t, u \in ledger : t.key = u.key /\ t.key # NULL => t = u
    /\ \A r \in Requests : KeysOf(r) \cap { t.key : t \in ledger } \in { {}, KeysOf(r) }

(* Every request that was begun is answered: the waits for rows and keys     *)
(* end, for a cycle of them loses one transaction to the deadlock detector.  *)
EveryRequestEnds == \A w \in Workers : ~At(w, "idle") ~> At(w, "done")

(* What _recompute_balance promises, "one balance row recomputed from the    *)
(* ledger (an atomic UPSERT)", of every reachable state: the committed row   *)
(* is the committed ledger's sum.                                            *)
BalanceAlwaysExact == \A k \in BalanceKey : Quantity(rows[k]) = InLedger(k)

(* What get_db demands of a mutating endpoint, "it must commit ITSELF before *)
(* the answer is formed": what a client is told has been written is in the   *)
(* committed ledger.                                                         *)
AnsweredIsWritten ==
    \A w \in Workers : answer[w] = "ok" =>
        KeysOf(session[w].request) \subseteq { t.key : t \in ledger }

============================================================================
