----------------------- MODULE ReversalJournalProofs ------------------------
(***************************************************************************)
(* The invariants of ReversalJournal, for every value of its constants.    *)
(*                                                                         *)
(* What holds of every committed database whatever overlaps is Sound; what *)
(* holds as long as no two requests have overlapped is Matched and         *)
(* NothingBuilt, and it rests on Current: the plan of a request under way  *)
(* is still the plan of the database it will be carried out against.       *)
(***************************************************************************)
EXTENDS ReversalJournal, LedgerSums, SequenceTheorems

(* What a transaction commits. *)
Database ==
    [ journal : Seq(JournalEntry), ledger : SUBSET StockTransaction,
      balance : [ BalanceKey -> Int ], nextId : Nat ]

(* The types, one row per id below the next id, and exact balances. *)
WellTyped(d) ==
    /\ d \in Database /\ Len(d.journal) <= MaxActions
    /\ IsFiniteSet(d.ledger)
    /\ \A t \in d.ledger : t.id < d.nextId
    /\ \A t, u \in d.ledger : t.id = u.id => t = u
    /\ Exact(d.balance, d.ledger)

(* a is a domain operation, not a reversal. *)
DomainIn(d, a) == d.journal[a].type # "reversal"

(* The row that c mirrors. *)
Source(d, c, t) ==
    /\ t \in d.ledger /\ t.id = c.reverses /\ t.reverses = NULL /\ t.action # NULL
    /\ c.quantity = t.quantity /\ FromKey(c) = ToKey(t) /\ ToKey(c) = FromKey(t)

(* Direct transactions are those of domain actions, compensations those of  *)
(* reversal actions.                                                        *)
Attributed(d) ==
    /\ \A t \in d.ledger : t.reverses = NULL /\ t.action # NULL =>
         t.action \in DOMAIN d.journal /\ DomainIn(d, t.action)
    /\ \A c \in d.ledger : c.reverses # NULL =>
         /\ c.action \in DOMAIN d.journal /\ ~DomainIn(d, c.action)
         /\ \E t \in d.ledger : Source(d, c, t)

(* An action depends on earlier ones, a reversal is never reversed, and of a *)
(* reversed or purged action nothing is in force.                           *)
JournalSound(d) ==
    \A a \in DOMAIN d.journal :
        /\ d.journal[a].dependsOn \subseteq 1..(a - 1)
        /\ ~DomainIn(d, a) => Active(d, a) /\ d.journal[a].reversedBy = NULL
        /\ ~Active(d, a) => Generation(d, a) = {}
        /\ d.journal[a].status = "purged" => TransactionsOf(d, a) = {}

(* The key that a command puts material on. *)
TargetKey(c) ==
    [ product |-> c.product, location |-> c.to, quality |-> c.toQuality,
      operations |-> ResolvedOperations(c) ]

(* t is the row of a command of the operation o. *)
RowOf(o, t) == \E n \in 1..Len(o.commands) : /\ FromKey(t) = SourceKey(o.commands[n])
                                            /\ ToKey(t) = TargetKey(o.commands[n])

(* The rows of a domain action are those of an operation with its type and   *)
(* reference, an active one has some, and an operation depends on others of  *)
(* its family and reference only.                                           *)
Ordered(d) ==
    /\ \A t \in d.ledger : t.reverses = NULL /\ t.action # NULL =>
         \E o \in DomainOperations : /\ d.journal[t.action].type = o.type
                                     /\ d.journal[t.action].ref = o.ref /\ RowOf(o, t)
    /\ \A a \in DOMAIN d.journal : DomainIn(d, a) =>
         /\ Active(d, a) => TransactionsOf(d, a) # {}
         /\ \A p \in d.journal[a].dependsOn :
              /\ d.journal[a].type \in TaskActionFamily /\ d.journal[p].type \in TaskActionFamily
              /\ d.journal[p].ref = d.journal[a].ref

(* What always holds. *)
Sound(d) == WellTyped(d) /\ Attributed(d) /\ JournalSound(d) /\ Ordered(d)

(* What the journal says of an action is what the ledger says of its         *)
(* transactions, and what has no reversal has no compensations.  Holds while *)
(* no two requests overlap, as the next three do.                           *)
Matched(d) ==
    /\ \A a \in DOMAIN d.journal :
         /\ Active(d, a) => /\ d.journal[a].reversedBy = NULL
                            /\ DomainIn(d, a) => \A t \in TransactionsOf(d, a) : Compensations(d, t) = {}
         /\ d.journal[a].status = "reversed" =>
              \A t \in TransactionsOf(d, a) : \E c \in d.ledger : Compensations(d, t) = {c}
         /\ ~Active(d, a) => d.journal[a].reversedBy \in DOMAIN d.journal
                             /\ ~DomainIn(d, d.journal[a].reversedBy)
         /\ ~DomainIn(d, a) => \E b \in DOMAIN d.journal : d.journal[b].reversedBy = a
    /\ \A a, b \in DOMAIN d.journal :
         d.journal[a].reversedBy = d.journal[b].reversedBy => d.journal[a].reversedBy = NULL \/ a = b
    /\ \A t \in d.ledger : \A c \in Compensations(d, t) : d.journal[t.action].reversedBy = c.action

(* No active action rests on one that is not. *)
NothingBuilt(d) ==
    \A a \in DOMAIN d.journal :
        DomainIn(d, a) /\ Active(d, a) => \A p \in d.journal[a].dependsOn : Active(d, p)

(* What a request has read is of actions that exist, and nothing of its first *)
(* node has come into force since.                                          *)
RequestSound(d, r) ==
    /\ r.target \in DOMAIN d.journal
    /\ r.nodes \subseteq DOMAIN d.journal /\ r.nodes # {}
    /\ \A n \in r.nodes : DomainIn(d, n)
    /\ r.planned \subseteq StockTransaction /\ IsFiniteSet(r.planned)
    /\ \A t \in r.planned : t.action = FirstNode(r.nodes) /\ t.reverses = NULL
    /\ Generation(d, FirstNode(r.nodes)) \subseteq r.planned

(* It is what a request would read now, and its preview is clear. *)
Current(d, r) ==
    \E a \in DOMAIN d.journal, cascade \in BOOLEAN :
        PreviewClear(d, a, cascade) /\ r = ReversalOf(d, a, cascade)

(* The inductive invariant. *)
JournalInv ==
    /\ Sound(db)
    /\ token \in Nullable(PlanToken) /\ (token # NULL => token.action \in DOMAIN db.journal)
    /\ overlapped \in BOOLEAN
    /\ request = [ w \in Workers |-> request[w] ]
    /\ \A w \in Workers : request[w] # NULL => RequestSound(db, request[w])
    /\ ~overlapped => /\ Matched(db) /\ NothingBuilt(db)
                      /\ \A w \in Workers : request[w] # NULL => Current(db, request[w])

----------------------------------------------------------------------------
(* Types.                                                                   *)

(* The actions are the positions 1 to MaxActions of the journal. *)
LEMMA ActionIds == MaxActions \in Nat /\ Actions = 1..MaxActions
  BY ReversalJournalConstants, FS_CardinalityType DEF MaxActions

(* The fields of a database. *)
LEMMA DatabaseFields ==
    ASSUME NEW d, WellTyped(d)
    PROVE  /\ d.journal \in Seq(JournalEntry) /\ Len(d.journal) \in 0..MaxActions
           /\ DOMAIN d.journal = 1..Len(d.journal) /\ DOMAIN d.journal \subseteq Actions
           /\ \A a \in DOMAIN d.journal : d.journal[a] \in JournalEntry
           /\ d.ledger \subseteq StockTransaction /\ d.nextId \in Nat
           /\ d.balance \in [ BalanceKey -> Int ]
           /\ \A t \in d.ledger : t.id \in Nat /\ t.id # NULL /\ t.id < d.nextId
           /\ d = [ journal |-> d.journal, ledger |-> d.ledger, balance |-> d.balance,
                    nextId |-> d.nextId ]
  <1>1. d \in Database /\ Len(d.journal) <= MaxActions /\ \A t \in d.ledger : t.id < d.nextId
    BY DEF WellTyped
  <1>2. d.journal \in Seq(JournalEntry) /\ d.ledger \subseteq StockTransaction /\ d.nextId \in Nat
        /\ d.balance \in [ BalanceKey -> Int ]
        /\ d = [ journal |-> d.journal, ledger |-> d.ledger, balance |-> d.balance,
                 nextId |-> d.nextId ]
    BY <1>1 DEF Database
  <1>3. /\ Len(d.journal) \in 0..MaxActions
        /\ DOMAIN d.journal = 1..Len(d.journal) /\ DOMAIN d.journal \subseteq Actions
        /\ \A a \in DOMAIN d.journal : d.journal[a] \in JournalEntry
    BY <1>1, <1>2, ActionIds
  <1>4. \A t \in d.ledger : t.id \in Nat /\ t.id # NULL
    BY <1>2, LedgerConstants DEF StockTransaction
  <1> QED
    BY <1>1, <1>2, <1>3, <1>4

----------------------------------------------------------------------------
(* Writing rows.                                                            *)

(* e is d with more rows, all of them new and of action a. *)
Extended(d, e, a) ==
    /\ WellTyped(e)
    /\ d.ledger \subseteq e.ledger /\ d.nextId <= e.nextId
    /\ \A t \in e.ledger \ d.ledger : t.action = a /\ d.nextId <= t.id

(* Writing finitely many rows with new ids and refreshing their keys. *)
LEMMA RowsAdded ==
    ASSUME NEW d, WellTyped(d), NEW M, M \subseteq StockTransaction, IsFiniteSet(M),
           NEW n \in Nat, \A t \in M : d.nextId <= t.id /\ t.id < n, d.nextId <= n,
           \A t, u \in M : t.id = u.id => t = u,
           NEW ks, \A t \in M : TouchedKeys(t) \subseteq ks,
           NEW J \in Seq(JournalEntry), Len(J) <= MaxActions
    PROVE  WellTyped([ journal |-> J, ledger |-> d.ledger \cup M,
                       balance |-> RefreshBalance(d.balance, d.ledger \cup M, ks), nextId |-> n ])
  <1> DEFINE L == d.ledger \cup M
             b == RefreshBalance(d.balance, L, ks)
             e == [ journal |-> J, ledger |-> L, balance |-> b, nextId |-> n ]
  <1>1. /\ d.ledger \subseteq StockTransaction /\ d.nextId \in Nat /\ d.balance \in [ BalanceKey -> Int ]
        /\ \A t \in d.ledger : t.id \in Nat /\ t.id < d.nextId
    BY DatabaseFields
  <1>2. IsFiniteSet(L) /\ L \subseteq StockTransaction
    BY <1>1, FS_Union DEF WellTyped
  <1>3. b \in [ BalanceKey -> Int ]
    BY <1>1, <1>2, RefreshType
  <1>4. \A t \in M : t.id \in Nat
    BY DEF StockTransaction
  <1>5. \A t \in (d.ledger \ L) \cup (L \ d.ledger) : TouchedKeys(t) \subseteq ks
    OBVIOUS
  <1>6. Exact(d.balance, d.ledger)
    BY DEF WellTyped
  <1>7. (\A t \in L : t.id < n) /\ \A t, u \in L : t.id = u.id => t = u
    BY <1>1, <1>4 DEF WellTyped
  <1> HIDE DEF L
  <1>8. Exact(b, L)
    BY <1>5, <1>6, RefreshExact
  <1> HIDE DEF b
  <1>9. e \in Database
    BY <1>2, <1>3 DEF Database
  <1>10. e.journal = J /\ e.ledger = L /\ e.balance = b /\ e.nextId = n
    OBVIOUS
  <1> HIDE DEF e
  <1>11. WellTyped(e)
    BY <1>2, <1>7, <1>8, <1>9, <1>10 DEF WellTyped
  <1> QED
    BY <1>11 DEF e, b, L

(* record() either fails or adds one direct row of the action it is given,   *)
(* and takes a key below zero only with allow_negative.                      *)
LEMMA RecordedRow ==
    ASSUME NEW d, WellTyped(d), NEW c \in StockCommand, NEW a \in Actions,
           Recorded(d, c, a) # Failed
    PROVE  LET e == Recorded(d, c, a) IN
           /\ Extended(d, e, a) /\ e.journal = d.journal
           /\ \E t : /\ e.ledger \ d.ledger = {t} /\ t.reverses = NULL
                     /\ FromKey(t) = SourceKey(c) /\ ToKey(t) = TargetKey(c)
           /\ ~c.allowNegative /\ (\A k \in BalanceKey : d.balance[k] >= 0) =>
                \A k \in BalanceKey : e.balance[k] >= 0
  <1> DEFINE t == [ Transaction(c, d.nextId) EXCEPT !.action = a ]
             L == d.ledger \cup {t}
             e == Recorded(d, c, a)
  <1>1. Valid(c) /\ Sufficient(c, Available(d, SourceKey(c))) /\ e = Inserted(d, t)
    BY DEF Recorded
  <1>2. /\ d.ledger \subseteq StockTransaction /\ d.nextId \in Nat /\ d.balance \in [ BalanceKey -> Int ]
        /\ d.journal \in Seq(JournalEntry) /\ Len(d.journal) <= MaxActions
        /\ d = [ journal |-> d.journal, ledger |-> d.ledger, balance |-> d.balance,
                 nextId |-> d.nextId ]
        /\ \A u \in d.ledger : u.id < d.nextId /\ u.id \in Nat
    BY DatabaseFields, ActionIds
  <1>3. Transaction(c, d.nextId) \in StockTransaction
    BY <1>1, <1>2, TransactionType
  <1>4. t \in StockTransaction
    BY <1>3 DEF StockTransaction, Nullable
  <1>5. /\ t.id = d.nextId /\ t.reverses = NULL /\ t.action = a /\ t.quantity = c.quantity
        /\ FromKey(t) = SourceKey(c) /\ ToKey(t) = TargetKey(c)
        /\ t.from = c.from /\ t.to = c.to /\ t.fromQuality = c.quality /\ t.toQuality = c.toQuality
    BY DEF Transaction, FromKey, SourceKey, ToKey, TargetKey
  <1> HIDE DEF t
  <1>6. e = [ journal |-> d.journal, ledger |-> L,
              balance |-> RefreshBalance(d.balance, L, TouchedKeys(t)), nextId |-> d.nextId + 1 ]
    BY <1>1, <1>2 DEF Inserted
  <1> HIDE DEF e
  <1>7. WellTyped(e)
    <2> DEFINE M == {t}
    <2>1. M \subseteq StockTransaction /\ d.nextId + 1 \in Nat /\ d.nextId <= d.nextId + 1
      BY <1>2, <1>4
    <2>2. IsFiniteSet(M)
      BY FS_Singleton
    <2>3. /\ \A u \in M : d.nextId <= u.id /\ u.id < d.nextId + 1 /\ TouchedKeys(u) \subseteq TouchedKeys(t)
          /\ \A u, v \in M : u.id = v.id => u = v
      BY <1>2, <1>5
    <2>4. e = [ journal |-> d.journal, ledger |-> d.ledger \cup M,
                balance |-> RefreshBalance(d.balance, d.ledger \cup M, TouchedKeys(t)),
                nextId |-> d.nextId + 1 ]
      BY <1>6
    <2> HIDE DEF M
    <2>5. WellTyped([ journal |-> d.journal, ledger |-> d.ledger \cup M,
                      balance |-> RefreshBalance(d.balance, d.ledger \cup M, TouchedKeys(t)),
                      nextId |-> d.nextId + 1 ])
      BY <1>2, <2>1, <2>2, <2>3, RowsAdded
    <2> QED
      BY <2>4, <2>5, Zenon
  <1>8. Extended(d, e, a) /\ e.journal = d.journal /\ e.ledger \ d.ledger = {t}
    BY <1>2, <1>5, <1>6, <1>7 DEF Extended
  <1>9. ASSUME ~c.allowNegative, \A k \in BalanceKey : d.balance[k] >= 0, NEW k \in BalanceKey
        PROVE  e.balance[k] >= 0
    <2>1. /\ e.balance[k] = IF Materialised(k) THEN LedgerNet(L, k) ELSE 0
          /\ d.balance[k] = IF Materialised(k) THEN LedgerNet(d.ledger, k) ELSE 0
      BY <1>6, <1>7 DEF WellTyped, Exact
    <2>2. L \ {t} = d.ledger /\ {t} \in SUBSET L /\ IsFiniteSet(L)
      BY <1>2, <1>5, <1>6, <1>7 DEF WellTyped
    <2>3. /\ LedgerNet(L, k) = LedgerNet(d.ledger, k) + LedgerNet({t}, k)
          /\ LedgerNet(d.ledger, k) \in Int
      BY <2>2, NetOfRest
    <2>4. t.quantity \in 1..MaxQuantity /\ t.quantity \in Nat
      BY <1>4, LedgerConstants DEF StockTransaction
    <2>5. LedgerNet({t}, k) = (IF ToKey(t) = k THEN t.quantity ELSE 0)
                              - (IF FromKey(t) = k THEN t.quantity ELSE 0)
      BY <2>4, NetOfOne
    <2>6. d.balance[k] \in Int /\ d.balance[k] >= 0
      BY <1>2, <1>9
    <2>7. CASE FromKey(t) # k \/ ToKey(t) = k
      BY <2>1, <2>3, <2>4, <2>5, <2>6, <2>7
    <2>8. CASE FromKey(t) = k /\ ToKey(t) # k
      <3>1. c.from # NULL /\ ~MovesNothing(c)
        <4>1. t.from \in Locations
          BY <2>8 DEF FromKey, BalanceKey
        <4> QED
          BY <1>5, <2>8, <4>1, LedgerConstants DEF MovesNothing, FromKey, ToKey
      <3>2. d.balance[k] >= c.quantity
        BY <1>1, <1>5, <1>9, <2>8, <3>1 DEF Sufficient, Available
      <3> QED
        BY <1>5, <2>1, <2>3, <2>4, <2>5, <2>6, <2>8, <3>2
    <2> QED
      BY <2>7, <2>8
  <1> QED
    BY <1>5, <1>8, <1>9 DEF e
----------------------------------------------------------------------------
(* A domain operation.                                                      *)

(* Nothing is below zero. *)
NonNegative(d) == \A k \in BalanceKey : d.balance[k] >= 0

(* No command of the plant may take more than there is. *)
NothingForced ==
    \A o \in DomainOperations : \A n \in 1..Len(o.commands) : ~o.commands[n].allowNegative

(* The journal with one entry more. *)
LEMMA JournalGrows ==
    ASSUME NEW d, WellTyped(d), Len(d.journal) < MaxActions, NEW entry \in JournalEntry
    PROVE  LET a == Len(d.journal) + 1
               J == Append(d.journal, entry) IN
           /\ J \in Seq(JournalEntry) /\ Len(J) = a /\ Len(J) <= MaxActions
           /\ a \in Actions /\ J[a] = entry /\ DOMAIN J = 1..a
           /\ \A b \in DOMAIN d.journal : b \in DOMAIN J /\ b < a /\ J[b] = d.journal[b]
           /\ \A b \in DOMAIN J : b \in DOMAIN d.journal \/ b = a
  <1>1. /\ d.journal \in Seq(JournalEntry) /\ Len(d.journal) \in Nat /\ MaxActions \in Nat
        /\ DOMAIN d.journal = 1..Len(d.journal) /\ Actions = 1..MaxActions
    BY DatabaseFields, ActionIds
  <1> DEFINE J == Append(d.journal, entry)
  <1>2. /\ J \in Seq(JournalEntry) /\ Len(J) = Len(d.journal) + 1 /\ J[Len(d.journal) + 1] = entry
        /\ \A b \in 1..Len(d.journal) : J[b] = d.journal[b]
    BY <1>1, AppendProperties
  <1>3. DOMAIN J = 1..(Len(d.journal) + 1)
    BY <1>1, <1>2
  <1> HIDE DEF J
  <1>4. /\ J \in Seq(JournalEntry) /\ Len(J) = Len(d.journal) + 1 /\ Len(J) <= MaxActions
        /\ Len(d.journal) + 1 \in Actions /\ J[Len(d.journal) + 1] = entry
        /\ DOMAIN J = 1..(Len(d.journal) + 1)
    BY <1>1, <1>2, <1>3
  <1>5. /\ \A b \in DOMAIN d.journal : b \in DOMAIN J /\ b < Len(d.journal) + 1 /\ J[b] = d.journal[b]
        /\ \A b \in DOMAIN J : b \in DOMAIN d.journal \/ b = Len(d.journal) + 1
    BY <1>1, <1>2, <1>3
  <1> QED
    BY <1>4, <1>5 DEF J

(* A well-typed database with another journal. *)
LEMMA WithJournal ==
    ASSUME NEW d, WellTyped(d), NEW J \in Seq(JournalEntry), Len(J) <= MaxActions
    PROVE  LET e == [ d EXCEPT !.journal = J ] IN
           /\ WellTyped(e) /\ e.journal = J /\ e.ledger = d.ledger
           /\ e.balance = d.balance /\ e.nextId = d.nextId
  <1> DEFINE e == [ d EXCEPT !.journal = J ]
  <1>1. /\ d = [ journal |-> d.journal, ledger |-> d.ledger, balance |-> d.balance,
                 nextId |-> d.nextId ]
        /\ d.ledger \subseteq StockTransaction /\ d.nextId \in Nat /\ d.balance \in [ BalanceKey -> Int ]
    BY DatabaseFields
  <1>2. e = [ journal |-> J, ledger |-> d.ledger, balance |-> d.balance, nextId |-> d.nextId ]
    BY <1>1
  <1> HIDE DEF e
  <1>3. e \in Database /\ e.journal = J /\ e.ledger = d.ledger /\ e.balance = d.balance
        /\ e.nextId = d.nextId
    BY <1>1, <1>2 DEF Database
  <1>4. WellTyped(e)
    BY <1>3 DEF WellTyped
  <1> QED
    BY <1>3, <1>4 DEF e

(* e is d with more direct rows of action a, those of the operation o, none  *)
(* of which overdraws a key unless a command may.                           *)
Written(d, e, a, o) ==
    /\ Extended(d, e, a) /\ e.journal = d.journal
    /\ \A t \in e.ledger \ d.ledger : t.reverses = NULL /\ RowOf(o, t)
    /\ NothingForced /\ NonNegative(d) => NonNegative(e)

(* One command more. *)
LEMMA WrittenNext ==
    ASSUME NEW d, NEW e, NEW a \in Actions, NEW o \in DomainOperations,
           Written(d, e, a, o), WellTyped(d), NEW n \in 1..Len(o.commands),
           Recorded(e, o.commands[n], a) # Failed
    PROVE  /\ Written(d, Recorded(e, o.commands[n], a), a, o)
           /\ Recorded(e, o.commands[n], a).ledger \ d.ledger # {}
  <1> DEFINE c == o.commands[n]
             f == Recorded(e, c, a)
  <1>1. c \in StockCommand /\ WellTyped(e) /\ (NothingForced => ~c.allowNegative)
    <2>1. o.commands \in Seq(StockCommand)
      BY ReversalJournalConstants DEF DomainOperation
    <2>2. c \in StockCommand
      BY <2>1
    <2> QED
      BY <2>2 DEF Written, Extended, NothingForced
  <1> HIDE DEF c
  <1>2. /\ Extended(e, f, a) /\ f.journal = e.journal
        /\ \E t : /\ f.ledger \ e.ledger = {t} /\ t.reverses = NULL
                  /\ FromKey(t) = SourceKey(c) /\ ToKey(t) = TargetKey(c)
        /\ ~c.allowNegative /\ (\A k \in BalanceKey : e.balance[k] >= 0) =>
              \A k \in BalanceKey : f.balance[k] >= 0
    BY <1>1, RecordedRow DEF c
  <1>8. f.ledger \ e.ledger # {} /\ \A t \in f.ledger \ e.ledger : t.reverses = NULL /\ RowOf(o, t)
    BY <1>2 DEF RowOf, c
  <1> HIDE DEF f
  <1>3. NothingForced /\ NonNegative(d) => NonNegative(f)
    BY <1>1, <1>2 DEF Written, NonNegative
  <1>4. \A t \in f.ledger \ d.ledger : t \in f.ledger \ e.ledger \/ t \in e.ledger \ d.ledger
    OBVIOUS
  <1>5. d.nextId \in Nat /\ e.nextId \in Nat /\ f.nextId \in Nat
        /\ \A t \in f.ledger : t.id \in Nat
    BY <1>1, <1>2, DatabaseFields DEF Extended
  <1>6. Extended(d, f, a)
    BY <1>2, <1>4, <1>5 DEF Written, Extended
  <1>7. Written(d, f, a, o)
    BY <1>2, <1>3, <1>4, <1>6, <1>8 DEF Written
  <1>9. f.ledger \ d.ledger # {}
    BY <1>8 DEF Written, Extended
  <1> QED
    BY <1>7, <1>9 DEF f, c

(* What log_task_action writes first. *)
PerformedEntry(d, o) ==
    Logged(o.type, o.ref, IF o.type \in TaskActionFamily THEN LastActiveForRef(d, o.ref) ELSE {})

(* The transaction of a domain operation: its entry, then its rows. *)
LEMMA PerformedRows ==
    ASSUME NEW d, WellTyped(d), Len(d.journal) < MaxActions, NEW o \in DomainOperations,
           Performed(d, o) # Failed
    PROVE  LET a == Len(d.journal) + 1
               x == [ d EXCEPT !.journal = Append(@, PerformedEntry(d, o)) ] IN
           /\ PerformedEntry(d, o) \in JournalEntry
           /\ Written(x, Performed(d, o), a, o) /\ Performed(d, o).ledger \ d.ledger # {}
  <1> DEFINE a == Len(d.journal) + 1
             entry == PerformedEntry(d, o)
             x == [ d EXCEPT !.journal = Append(@, entry) ]
             N == Len(o.commands)
             S == { v \in Database : Written(x, v, a, o) } \cup {Failed}
             Step(v, n) == Recorded(v, o.commands[n], a)
             R == [ p \in S \X (1..N) |-> Step(p[1], p[2]) ]
             IsAfter(g) == g = [ n \in 0..N |-> IF n = 0 THEN x ELSE Step(g[n - 1], n) ]
  <1>1. o \in DomainOperation /\ N \in Nat /\ N > 0
    BY ReversalJournalConstants DEF DomainOperation
  <1>2. entry \in JournalEntry
    <2>1. LastActiveForRef(d, o.ref) \subseteq Actions
      BY DatabaseFields DEF LastActiveForRef
    <2> QED
      BY <1>1, <2>1 DEF PerformedEntry, Logged, JournalEntry, DomainOperation, Status, Nullable
  <1>3. /\ Append(d.journal, entry) \in Seq(JournalEntry) /\ Len(Append(d.journal, entry)) <= MaxActions
        /\ a \in Actions
    BY <1>2, JournalGrows
  <1>4. WellTyped(x)
    <2>1. x = [ d EXCEPT !.journal = Append(d.journal, entry) ]
      OBVIOUS
    <2> HIDE DEF entry, x
    <2> QED
      BY <1>3, <2>1, WithJournal
  <1> HIDE DEF entry, x, a
  <1>5. x \in Database /\ Written(x, x, a, o)
    <2>1. x \in Database /\ x.nextId \in Nat
      BY <1>4, DatabaseFields DEF WellTyped
    <2> QED
      BY <1>4, <2>1 DEF Written, Extended
  <1>6. \A v \in S, n \in 1..N : Step(v, n) \in S
    <2> SUFFICES ASSUME NEW v \in S, NEW n \in 1..N, Step(v, n) # Failed
                 PROVE  Step(v, n) \in { w \in Database : Written(x, w, a, o) }
      OBVIOUS
    <2>1. v # Failed
      BY DEF Recorded
    <2>2. Written(x, v, a, o)
      BY <2>1
    <2>3. Written(x, Step(v, n), a, o)
      BY <1>3, <1>4, <2>2, WrittenNext
    <2>4. Step(v, n) \in Database
      BY <2>3 DEF Written, Extended, WellTyped
    <2> QED
      BY <2>3, <2>4
  <1>7. x \in S
    BY <1>5
  <1> HIDE DEF Step
  <1>8. R \in [ S \X (1..N) -> S ]
    BY <1>6
  <1>9. \A v \in S, n \in 1..N : R[<< v, n >>] = Step(v, n)
    OBVIOUS
  <1> HIDE DEF S, R, N
  <1>10. PICK g : /\ g \in [ 0..N -> S ] /\ g[0] = x
                  /\ \A i \in 1..N : g[i] = R[<< g[i - 1], i >>]
    <2>1. N \in Nat
      BY <1>1
    <2>2. PICK g : Chained(g, N, S, x, R)
      BY <1>7, <1>8, <2>1, Chain
    <2> QED
      BY <2>2 DEF Chained
  <1>11. \A i \in 1..N : g[i] = Step(g[i - 1], i)
    <2>1. \A i \in 1..N : i - 1 \in 0..N /\ g[i - 1] \in S
      BY <1>1, <1>10
    <2> QED
      BY <1>9, <1>10, <2>1
  <1>12. IsAfter(g)
    <2>1. \A n \in 0..N : g[n] = IF n = 0 THEN x ELSE Step(g[n - 1], n)
      BY <1>1, <1>10, <1>11
    <2> QED
      BY <1>10, <2>1
  <1> DEFINE after == CHOOSE h : IsAfter(h)
  <1>13. IsAfter(after)
    BY <1>12
  <1>14. after = g
    <2> HIDE DEF after
    <2>1. \A h : IsAfter(h) => /\ h = [ n \in 0..N |-> h[n] ] /\ h[0] = x
                               /\ \A n \in 1..N : h[n] = Step(h[n - 1], n)
      BY <1>1, SMTT(30)
    <2>2. /\ after = [ n \in 0..N |-> after[n] ] /\ after[0] = x
          /\ \A n \in 1..N : after[n] = Step(after[n - 1], n)
      BY <1>13, <2>1
    <2>3. 0..N \subseteq { n \in 0..N : after[n] = g[n] }
      <3> DEFINE T == { n \in 0..N : after[n] = g[n] }
      <3>1. 0 \in T
        BY <1>1, <1>10, <2>2
      <3>2. ASSUME NEW i \in 1..N, i - 1 \in T PROVE i \in T
        <4>1. i \in 0..N /\ after[i - 1] = g[i - 1]
          BY <1>1, <3>2
        <4>2. after[i] = Step(after[i - 1], i) /\ g[i] = Step(g[i - 1], i)
          BY <1>11, <2>2
        <4>3. after[i] = g[i]
          BY <4>1, <4>2, Zenon
        <4> QED
          BY <4>1, <4>3
      <3> HIDE DEF T
      <3>3. 0..N \subseteq T
        BY <1>1, <3>1, <3>2, Upwards
      <3> QED
        BY <3>3 DEF T
    <2> QED
      BY <1>10, <2>2, <2>3
  <1>15. Performed(d, o) = after[N]
    BY DEF Performed, Step, N, x, entry, a, PerformedEntry
  <1> HIDE DEF after
  <1>16. Performed(d, o) \in S
    <2>1. N \in 0..N /\ after[N] = g[N]
      BY <1>1, <1>14
    <2>2. g[N] \in S
      BY <1>10, <2>1
    <2> QED
      BY <1>15, <2>1, <2>2, Zenon
  <1>17. Written(x, Performed(d, o), a, o)
    BY <1>16 DEF S
  <1>18. Performed(d, o).ledger \ d.ledger # {}
    <2>1. /\ N \in 1..N /\ N - 1 \in 0..N /\ after[N] = g[N]
          /\ g[N] = Step(g[N - 1], N) /\ g[N - 1] \in S
      BY <1>1, <1>10, <1>11, <1>14
    <2>2. Step(g[N - 1], N) = Performed(d, o)
      BY <1>15, <2>1
    <2>3. g[N - 1] # Failed /\ Step(g[N - 1], N) # Failed
      BY <2>2 DEF Step, Recorded
    <2>4. Written(x, g[N - 1], a, o)
      BY <2>1, <2>3 DEF S
    <2>5. Step(g[N - 1], N).ledger \ x.ledger # {}
      BY <1>3, <1>4, <2>1, <2>3, <2>4, WrittenNext DEF Step, N
    <2>6. x.ledger = d.ledger
      BY DatabaseFields DEF x
    <2> QED
      BY <2>2, <2>5, <2>6
  <1> QED
    BY <1>2, <1>17, <1>18 DEF x, a, entry
(* e is a later state of d: no action of d changes its type, and what is no  *)
(* longer in force does not come back into force.                           *)
Grown(d, e) ==
    \A a \in DOMAIN d.journal :
        /\ a \in DOMAIN e.journal /\ e.journal[a].type = d.journal[a].type
        /\ Generation(e, a) \subseteq Generation(d, a)

(* No row compensates one that is yet to be written. *)
LEMMA NoneAhead ==
    ASSUME NEW d, Sound(d), NEW c \in d.ledger, NEW n \in Nat, d.nextId <= n
    PROVE  c.reverses # n
  <1> SUFFICES ASSUME c.reverses = n PROVE FALSE
    OBVIOUS
  <1>1. c.reverses # NULL
    BY LedgerConstants
  <1>2. PICK t \in d.ledger : Source(d, c, t)
    BY <1>1 DEF Sound, Attributed
  <1>3. t.id = n /\ t.id < d.nextId /\ t.id \in Nat /\ d.nextId \in Nat
    BY <1>2, DatabaseFields DEF Sound, Source
  <1> QED
    BY <1>3

(* The rows of a domain operation are in force and those of the other       *)
(* actions as they were.                                                    *)
LEMMA WrittenRows ==
    ASSUME NEW d, Sound(d), Len(d.journal) < MaxActions, NEW e,
           NEW entry \in JournalEntry, NEW o,
           Written([ d EXCEPT !.journal = Append(@, entry) ], e, Len(d.journal) + 1, o)
    PROVE  LET a == Len(d.journal) + 1 IN
           /\ WellTyped(e) /\ e.journal = Append(d.journal, entry)
           /\ d.ledger \subseteq e.ledger
           /\ \A t \in e.ledger \ d.ledger : t.action = a /\ t.reverses = NULL /\ RowOf(o, t)
           /\ \A b \in DOMAIN d.journal : TransactionsOf(e, b) = TransactionsOf(d, b)
           /\ \A t \in d.ledger : Compensations(e, t) = Compensations(d, t)
           /\ \A t \in e.ledger \ d.ledger : Compensations(e, t) = {}
           /\ \A b \in DOMAIN d.journal : Generation(e, b) = Generation(d, b)
           /\ NothingForced /\ NonNegative(d) => NonNegative(e)
  <1> DEFINE a == Len(d.journal) + 1
             x == [ d EXCEPT !.journal = Append(@, entry) ]
  <1>1. WellTyped(d)
    BY DEF Sound
  <1>2. /\ x.journal = Append(d.journal, entry) /\ x.ledger = d.ledger
        /\ x.balance = d.balance /\ x.nextId = d.nextId
    BY <1>1, DatabaseFields
  <1>3. Written(x, e, a, o)
    OBVIOUS
  <1> HIDE DEF x
  <1>4. /\ WellTyped(e) /\ e.journal = Append(d.journal, entry)
        /\ d.ledger \subseteq e.ledger
        /\ \A t \in e.ledger \ d.ledger : t.action = a /\ t.reverses = NULL /\ d.nextId <= t.id
                                        /\ RowOf(o, t)
        /\ NothingForced /\ NonNegative(d) => NonNegative(e)
    BY <1>2, <1>3 DEF Written, Extended, NonNegative
  <1>5. ASSUME NEW b \in DOMAIN d.journal PROVE TransactionsOf(e, b) = TransactionsOf(d, b)
    <2>1. b # a
      BY <1>1, DatabaseFields
    <2> HIDE DEF a
    <2> QED
      BY <1>4, <2>1 DEF TransactionsOf
  <1>6. \A t \in e.ledger : t.id \in Nat
    BY <1>4, DatabaseFields
  <1>7. ASSUME NEW t \in d.ledger PROVE Compensations(e, t) = Compensations(d, t)
    <2>1. t.id # NULL
      BY <1>4, <1>6, LedgerConstants
    <2> HIDE DEF a
    <2> QED
      BY <1>4, <2>1 DEF Compensations
  <1>8. ASSUME NEW t \in e.ledger \ d.ledger PROVE Compensations(e, t) = {}
    <2>1. d.nextId <= t.id /\ t.id # NULL /\ t.id \in Nat
      BY <1>4, <1>6, LedgerConstants
    <2>2. \A c \in d.ledger : c.reverses # t.id
      BY <2>1, NoneAhead
    <2>3. \A c \in e.ledger \ d.ledger : c.reverses # t.id
      BY <1>4, <2>1
    <2> QED
      BY <2>2, <2>3 DEF Compensations
  <1>9. ASSUME NEW b \in DOMAIN d.journal PROVE Generation(e, b) = Generation(d, b)
    <2>1. \A D : Generation(D, b) =
                   { t \in TransactionsOf(D, b) : t.reverses = NULL /\ Compensations(D, t) = {} }
      BY DEF Generation, TransactionsOf
    <2>2. \A t \in TransactionsOf(d, b) : Compensations(e, t) = Compensations(d, t)
      BY <1>7 DEF TransactionsOf
    <2> QED
      BY <1>5, <2>1, <2>2
  <1> QED
    BY <1>4, <1>5, <1>7, <1>8, <1>9

(* What the entry of a domain operation says. *)
LEMMA EntryOfOperation ==
    ASSUME NEW d, WellTyped(d), NEW o \in DomainOperations
    PROVE  LET entry == PerformedEntry(d, o) IN
           /\ entry.type # "reversal" /\ entry.status = "active" /\ entry.reversedBy = NULL
           /\ entry.type = o.type /\ entry.ref = o.ref
           /\ \A p \in entry.dependsOn :
                /\ p \in DOMAIN d.journal /\ Active(d, p)
                /\ o.type \in TaskActionFamily /\ d.journal[p].type \in TaskActionFamily
                /\ d.journal[p].ref = o.ref
  <1>1. o.type \in ActionCompensable
    BY ReversalJournalConstants DEF DomainOperation
  <1>2. o.type # "reversal"
    BY <1>1 DEF ActionCompensable, TaskActionFamily
  <1> QED
    BY <1>2 DEF PerformedEntry, Logged, LastActiveForRef, Active

(* A domain operation keeps what always holds. *)
LEMMA PerformedSound ==
    ASSUME NEW d, Sound(d), Len(d.journal) < MaxActions, NEW o \in DomainOperations,
           Performed(d, o) # Failed
    PROVE  Sound(Performed(d, o)) /\ Grown(d, Performed(d, o))
  <1> DEFINE a == Len(d.journal) + 1
             entry == PerformedEntry(d, o)
             e == Performed(d, o)
             J == Append(d.journal, entry)
  <1>1. WellTyped(d)
    BY DEF Sound
  <1>2. /\ entry \in JournalEntry /\ Written([ d EXCEPT !.journal = Append(@, entry) ], e, a, o)
        /\ e.ledger \ d.ledger # {}
    BY <1>1, PerformedRows
  <1>3. /\ entry.type # "reversal" /\ entry.status = "active" /\ entry.reversedBy = NULL
        /\ entry.type = o.type /\ entry.ref = o.ref
        /\ \A p \in entry.dependsOn :
             /\ p \in DOMAIN d.journal /\ Active(d, p)
             /\ o.type \in TaskActionFamily /\ d.journal[p].type \in TaskActionFamily
             /\ d.journal[p].ref = o.ref
    BY <1>1, EntryOfOperation
  <1> HIDE DEF entry, e
  <1>4. /\ WellTyped(e) /\ e.journal = J
        /\ d.ledger \subseteq e.ledger
        /\ \A t \in e.ledger \ d.ledger : t.action = a /\ t.reverses = NULL /\ RowOf(o, t)
        /\ \A b \in DOMAIN d.journal : TransactionsOf(e, b) = TransactionsOf(d, b)
        /\ \A b \in DOMAIN d.journal : Generation(e, b) = Generation(d, b)
    BY <1>2, WrittenRows
  <1>5. /\ J[a] = entry /\ DOMAIN J = 1..a /\ a \in DOMAIN J /\ a \in Nat
        /\ \A b \in DOMAIN d.journal : b \in DOMAIN J /\ b < a /\ J[b] = d.journal[b]
        /\ \A b \in DOMAIN J : b \in DOMAIN d.journal \/ b = a
        /\ DOMAIN d.journal = 1..Len(d.journal) /\ Len(d.journal) \in Nat
    <2>1. /\ J[a] = entry /\ DOMAIN J = 1..a
          /\ \A b \in DOMAIN d.journal : b \in DOMAIN J /\ b < a /\ J[b] = d.journal[b]
          /\ \A b \in DOMAIN J : b \in DOMAIN d.journal \/ b = a
      BY <1>1, <1>2, JournalGrows
    <2> QED
      BY <1>1, <2>1, DatabaseFields
  <1> HIDE DEF J, a
  <1>6. Attributed(e)
    <2>1. ASSUME NEW t \in e.ledger, t.reverses = NULL, t.action # NULL
          PROVE  t.action \in DOMAIN e.journal /\ DomainIn(e, t.action)
      <3>1. CASE t \in d.ledger
        BY <1>4, <1>5, <2>1, <3>1 DEF Sound, Attributed, DomainIn
      <3>2. CASE t \notin d.ledger
        BY <1>3, <1>4, <1>5, <3>2 DEF DomainIn
      <3> QED
        BY <3>1, <3>2
    <2>2. ASSUME NEW c \in e.ledger, c.reverses # NULL
          PROVE  /\ c.action \in DOMAIN e.journal /\ ~DomainIn(e, c.action)
                 /\ \E t \in e.ledger : Source(e, c, t)
      <3>1. c \in d.ledger
        BY <1>4, <2>2
      <3>2. /\ c.action \in DOMAIN d.journal /\ ~DomainIn(d, c.action)
            /\ \E t \in d.ledger : Source(d, c, t)
        BY <2>2, <3>1 DEF Sound, Attributed
      <3> QED
        BY <1>4, <1>5, <3>2 DEF Source, DomainIn
    <2> QED
      BY <2>1, <2>2 DEF Attributed
  <1>7. JournalSound(e)
    <2> SUFFICES ASSUME NEW b \in DOMAIN J
                 PROVE  /\ J[b].dependsOn \subseteq 1..(b - 1)
                        /\ J[b].type = "reversal" => J[b].status = "active" /\ J[b].reversedBy = NULL
                        /\ J[b].status # "active" => Generation(e, b) = {}
                        /\ J[b].status = "purged" => TransactionsOf(e, b) = {}
      BY <1>4 DEF JournalSound, DomainIn, Active
    <2>1. CASE b \in DOMAIN d.journal
      BY <1>4, <1>5, <2>1 DEF Sound, JournalSound, DomainIn, Active
    <2>2. CASE b = a
      <3>1. entry.dependsOn \subseteq 1..(a - 1)
        BY <1>3, <1>5
      <3> QED
        BY <1>3, <1>5, <2>2, <3>1
    <2> QED
      BY <1>5, <2>1, <2>2
  <1>8. Grown(d, e)
    BY <1>4, <1>5 DEF Grown
  <1>9. Ordered(e)
    <2>1. ASSUME NEW t \in e.ledger, t.reverses = NULL, t.action # NULL
          PROVE  \E u \in DomainOperations : /\ e.journal[t.action].type = u.type
                                             /\ e.journal[t.action].ref = u.ref /\ RowOf(u, t)
      <3>1. CASE t \in d.ledger
        <4>1. t.action \in DOMAIN d.journal
          BY <2>1, <3>1 DEF Sound, Attributed
        <4> QED
          BY <1>4, <1>5, <2>1, <3>1, <4>1 DEF Sound, Ordered
      <3>2. CASE t \notin d.ledger
        BY <1>3, <1>4, <1>5, <3>2
      <3> QED
        BY <3>1, <3>2
    <2>2. ASSUME NEW b \in DOMAIN J, J[b].type # "reversal"
          PROVE  /\ J[b].status = "active" => TransactionsOf(e, b) # {}
                 /\ \A p \in J[b].dependsOn :
                      /\ J[b].type \in TaskActionFamily /\ J[p].type \in TaskActionFamily
                      /\ J[p].ref = J[b].ref
      <3>1. CASE b \in DOMAIN d.journal
        <4>1. \A p \in d.journal[b].dependsOn : p \in DOMAIN d.journal
          BY <1>5, <3>1 DEF Sound, JournalSound
        <4> QED
          BY <1>4, <1>5, <2>2, <3>1, <4>1 DEF Sound, Ordered, DomainIn, Active
      <3>2. CASE b = a
        <4>1. TransactionsOf(e, a) # {}
          BY <1>2, <1>4 DEF TransactionsOf
        <4> QED
          BY <1>3, <1>5, <3>2, <4>1
      <3> QED
        BY <1>5, <3>1, <3>2
    <2> QED
      BY <1>4, <2>1, <2>2 DEF Ordered, DomainIn, Active
  <1> QED
    BY <1>4, <1>6, <1>7, <1>8, <1>9 DEF Sound, e

(* A domain operation keeps what holds while no two requests overlap. *)
LEMMA PerformedMatched ==
    ASSUME NEW d, Sound(d), Matched(d), NothingBuilt(d), Len(d.journal) < MaxActions,
           NEW o \in DomainOperations, Performed(d, o) # Failed
    PROVE  /\ Matched(Performed(d, o)) /\ NothingBuilt(Performed(d, o))
           /\ NothingForced /\ NonNegative(d) => NonNegative(Performed(d, o))
  <1> DEFINE a == Len(d.journal) + 1
             entry == PerformedEntry(d, o)
             e == Performed(d, o)
             J == Append(d.journal, entry)
  <1>1. WellTyped(d)
    BY DEF Sound
  <1>2. entry \in JournalEntry /\ Written([ d EXCEPT !.journal = Append(@, entry) ], e, a, o)
    BY <1>1, PerformedRows
  <1>3. /\ entry.type # "reversal" /\ entry.status = "active" /\ entry.reversedBy = NULL
        /\ \A p \in entry.dependsOn : p \in DOMAIN d.journal /\ Active(d, p)
    BY <1>1, EntryOfOperation
  <1> HIDE DEF entry, e
  <1>4. /\ WellTyped(e) /\ e.journal = J
        /\ d.ledger \subseteq e.ledger
        /\ \A t \in e.ledger \ d.ledger : t.action = a /\ t.reverses = NULL /\ RowOf(o, t)
        /\ \A b \in DOMAIN d.journal : TransactionsOf(e, b) = TransactionsOf(d, b)
        /\ \A t \in d.ledger : Compensations(e, t) = Compensations(d, t)
        /\ \A t \in e.ledger \ d.ledger : Compensations(e, t) = {}
        /\ \A b \in DOMAIN d.journal : Generation(e, b) = Generation(d, b)
        /\ NothingForced /\ NonNegative(d) => NonNegative(e)
    BY <1>2, WrittenRows
  <1>5. /\ J[a] = entry /\ a \in DOMAIN J /\ a # NULL
        /\ \A b \in DOMAIN d.journal : b \in DOMAIN J /\ b # a /\ J[b] = d.journal[b]
        /\ \A b \in DOMAIN J : b \in DOMAIN d.journal \/ b = a
    <2>1. /\ J[a] = entry /\ DOMAIN J = 1..a /\ a \in Actions
          /\ \A b \in DOMAIN d.journal : b \in DOMAIN J /\ b < a /\ J[b] = d.journal[b]
          /\ \A b \in DOMAIN J : b \in DOMAIN d.journal \/ b = a
      BY <1>1, <1>2, JournalGrows
    <2>2. Len(d.journal) \in Nat /\ a \in 1..a
      BY <1>1, DatabaseFields
    <2> QED
      BY <2>1, <2>2, LedgerConstants
  <1> HIDE DEF J, a
  <1>6. \A b \in DOMAIN d.journal : d.journal[b].reversedBy # a
    BY <1>5 DEF Sound, JournalSound, Matched
  <1>7. ASSUME NEW b \in DOMAIN J
        PROVE  /\ J[b].status = "active" =>
                    /\ J[b].reversedBy = NULL
                    /\ J[b].type # "reversal" => \A t \in TransactionsOf(e, b) : Compensations(e, t) = {}
               /\ J[b].status = "reversed" =>
                    \A t \in TransactionsOf(e, b) : \E c \in e.ledger : Compensations(e, t) = {c}
               /\ J[b].status # "active" => J[b].reversedBy \in DOMAIN J /\ J[J[b].reversedBy].type = "reversal"
               /\ J[b].type = "reversal" => \E n \in DOMAIN J : J[n].reversedBy = b
    <2>1. CASE b \in DOMAIN d.journal
      <3>1. \A t \in TransactionsOf(d, b) : t \in d.ledger /\ Compensations(e, t) = Compensations(d, t)
        BY <1>4 DEF TransactionsOf
      <3>2. J[b] = d.journal[b] /\ TransactionsOf(e, b) = TransactionsOf(d, b)
        BY <1>4, <1>5, <2>1
      <3>3. /\ J[b].status = "active" =>
                    /\ J[b].reversedBy = NULL
                    /\ J[b].type # "reversal" => \A t \in TransactionsOf(d, b) : Compensations(d, t) = {}
            /\ J[b].status = "reversed" =>
                    \A t \in TransactionsOf(d, b) : \E c \in d.ledger : Compensations(d, t) = {c}
            /\ J[b].status # "active" => d.journal[b].reversedBy \in DOMAIN d.journal
                                         /\ d.journal[d.journal[b].reversedBy].type = "reversal"
            /\ J[b].type = "reversal" => \E n \in DOMAIN d.journal : d.journal[n].reversedBy = b
        BY <2>1, <3>2 DEF Matched, Active, DomainIn
      <3> QED
        BY <1>4, <1>5, <3>1, <3>2, <3>3
    <2>2. CASE b = a
      <3>1. \A t \in TransactionsOf(e, a) : Compensations(e, t) = {}
        <4> SUFFICES ASSUME NEW t \in TransactionsOf(e, a) PROVE Compensations(e, t) = {}
          OBVIOUS
        <4>1. t \in e.ledger /\ t.action = a
          BY DEF TransactionsOf
        <4>2. CASE t \notin d.ledger
          BY <1>4, <4>1, <4>2
        <4>3. CASE t \in d.ledger
          <5>1. t.action \in DOMAIN d.journal
            BY <1>5, <4>1, <4>3 DEF Sound, Attributed
          <5> QED
            BY <1>5, <4>1, <5>1
        <4> QED
          BY <4>2, <4>3
      <3> QED
        BY <1>3, <1>5, <2>2, <3>1
    <2> QED
      BY <1>5, <2>1, <2>2
  <1>8. ASSUME NEW b \in DOMAIN J, NEW n \in DOMAIN J, J[b].reversedBy = J[n].reversedBy
        PROVE  J[b].reversedBy = NULL \/ b = n
    BY <1>3, <1>5, <1>8 DEF Matched
  <1>9. ASSUME NEW t \in e.ledger, NEW c \in Compensations(e, t)
        PROVE  J[t.action].reversedBy = c.action
    <2>1. t \in d.ledger /\ c \in Compensations(d, t) /\ c \in d.ledger /\ c.reverses = t.id
      BY <1>4 DEF Compensations
    <2>2. d.journal[t.action].reversedBy = c.action
      BY <2>1 DEF Matched
    <2>3. c.reverses # NULL
      BY <1>1, <2>1, DatabaseFields
    <2>4. PICK s \in d.ledger : Source(d, c, s)
      BY <2>1, <2>3 DEF Sound, Attributed
    <2>5. s = t
      BY <1>1, <2>1, <2>4 DEF Source, WellTyped
    <2>6. t.action \in DOMAIN d.journal
      BY <2>4, <2>5 DEF Sound, Attributed, Source
    <2> QED
      BY <1>5, <2>2, <2>6
  <1>10. Matched(e)
    BY <1>4, <1>7, <1>8, <1>9 DEF Matched, Active, DomainIn
  <1>11. NothingBuilt(e)
    <2> SUFFICES ASSUME NEW b \in DOMAIN J, J[b].type # "reversal", J[b].status = "active",
                        NEW p \in J[b].dependsOn
                 PROVE  J[p].status = "active"
      BY <1>4 DEF NothingBuilt, DomainIn, Active
    <2>1. CASE b \in DOMAIN d.journal
      <3>1. p \in DOMAIN d.journal
        BY <1>1, <1>5, <2>1, DatabaseFields DEF Sound, JournalSound
      <3> QED
        BY <1>5, <2>1, <3>1 DEF NothingBuilt, DomainIn, Active
    <2>2. CASE b = a
      BY <1>3, <1>5, <2>2 DEF Active
    <2> QED
      BY <1>5, <2>1, <2>2
  <1> QED
    BY <1>4, <1>10, <1>11 DEF e
----------------------------------------------------------------------------
(* The reversal of one node.                                                *)

(* M holds new rows of action a, one for each row of G by f, which swaps the *)
(* keys of a row.                                                           *)
MirroredBy(d, G, a, M, f) ==
    /\ IsFiniteSet(M)
    /\ \A c \in M : /\ c.id \in Nat /\ d.nextId <= c.id /\ c.id < d.nextId + Cardinality(G)
                    /\ c.action = a
    /\ \A c, u \in M : c.id = u.id => c = u
    /\ f \in Bijection(G, M)
    /\ \A t \in G : /\ f[t] \in M /\ f[t].reverses = t.id /\ f[t].quantity = t.quantity
                    /\ FromKey(f[t]) = ToKey(t) /\ ToKey(f[t]) = FromKey(t)

(* The compensations that a reversal inserts. *)
LEMMA MirrorRows ==
    ASSUME NEW d, d.nextId \in Nat, NEW a, NEW G, G \subseteq StockTransaction, IsFiniteSet(G),
           \A t, u \in G : t.id = u.id => t = u
    PROVE  /\ \E f : MirroredBy(d, G, a, Mirrors(d, G, a), f)
           /\ a \in Actions => Mirrors(d, G, a) \subseteq StockTransaction
           /\ d.nextId + Cardinality(G) \in Nat /\ d.nextId <= d.nextId + Cardinality(G)
  <1> DEFINE M == Mirrors(d, G, a)
             rank(t) == Cardinality({ u \in G : u.id < t.id })
             id(t) == MirrorId(d, G, t)
             image(t) == [ Mirror(t, id(t)) EXCEPT !.action = a ]
             f == [ t \in G |-> image(t) ]
             n == d.nextId + Cardinality(G)
  <1>1. Cardinality(G) \in Nat /\ \A t \in G : t \in StockTransaction /\ t.id \in Nat
    BY FS_CardinalityType DEF StockTransaction
  <1>2. \A t \in G : /\ rank(t) \in Nat /\ rank(t) < Cardinality(G)
                     /\ \A u \in G : rank(u) = rank(t) => u = t
    BY <1>1, Ranks
  <1>3. \A t \in G : id(t) = d.nextId + rank(t)
    BY DEF MirrorId
  <1> HIDE DEF rank
  <1> HIDE DEF id
  <1>4. /\ \A t \in G : id(t) \in Nat /\ d.nextId <= id(t) /\ id(t) < n
        /\ \A t, u \in G : id(t) = id(u) => t = u
    <2>1. ASSUME NEW t \in G, NEW u \in G
          PROVE  /\ id(t) \in Nat /\ d.nextId <= id(t) /\ id(t) < n
                 /\ id(t) = id(u) => t = u
      <3>1. id(t) = d.nextId + rank(t) /\ id(u) = d.nextId + rank(u) /\ Cardinality(G) \in Nat
        BY <1>1, <1>3
      <3>2. /\ rank(t) \in Nat /\ rank(t) < Cardinality(G) /\ rank(u) \in Nat
            /\ rank(t) = rank(u) => t = u
        BY <1>2
      <3> HIDE DEF id
      <3> QED
        BY <3>1, <3>2
    <2> QED
      BY <2>1
  <1>5. n \in Nat /\ d.nextId <= n
    BY <1>1
  <1> HIDE DEF n
  <1>6. \A t \in G : LET c == image(t) IN
          /\ (a \in Actions => c \in StockTransaction) /\ c.id = id(t) /\ c.reverses = t.id /\ c.action = a
          /\ c.quantity = t.quantity /\ FromKey(c) = ToKey(t) /\ ToKey(c) = FromKey(t)
    <2> SUFFICES ASSUME NEW t \in G
                 PROVE  LET c == image(t) IN
                        /\ (a \in Actions => c \in StockTransaction) /\ c.id = id(t) /\ c.reverses = t.id /\ c.action = a
                        /\ c.quantity = t.quantity /\ FromKey(c) = ToKey(t) /\ ToKey(c) = FromKey(t)
      OBVIOUS
    <2> DEFINE m == Mirror(t, id(t))
    <2>1. /\ m \in StockTransaction /\ m.id = id(t) /\ m.reverses = t.id
          /\ m.quantity = t.quantity /\ FromKey(m) = ToKey(t) /\ ToKey(m) = FromKey(t)
      BY <1>1, <1>4, MirrorType
    <2>2. image(t) = [ m EXCEPT !.action = a ]
      OBVIOUS
    <2> HIDE DEF m, image
    <2> QED
      BY <2>1, <2>2 DEF StockTransaction, FromKey, ToKey, Nullable
  <1>7. M = { image(t) : t \in G }
    BY DEF Mirrors, id
  <1> HIDE DEF image, M
  <1>8. f \in Bijection(G, M)
    <2>1. f \in [ G -> M ]
      BY <1>7
    <2>2. \A t, u \in G : f[t] = f[u] => t = u
      BY <1>4, <1>6
    <2>3. \A c \in M : \E t \in G : f[t] = c
      BY <1>7
    <2> QED
      BY <2>1, <2>2, <2>3 DEF Bijection, Injection, Surjection, IsInjective
  <1>9. IsFiniteSet(M)
    <2>1. f \in Surjection(G, M)
      BY <1>8 DEF Bijection
    <2> HIDE DEF f
    <2> QED
      BY <1>1, <2>1, FS_Surjection
  <1>10. /\ a \in Actions => M \subseteq StockTransaction
         /\ \A c \in M : c.id \in Nat /\ d.nextId <= c.id /\ c.id < n /\ c.action = a
         /\ \A c, u \in M : c.id = u.id => c = u
    BY <1>4, <1>6, <1>7
  <1>11. \A t \in G : /\ f[t] \in M /\ f[t].reverses = t.id /\ f[t].quantity = t.quantity
                      /\ FromKey(f[t]) = ToKey(t) /\ ToKey(f[t]) = FromKey(t)
    BY <1>6, <1>7
  <1> QED
    <2>1. MirroredBy(d, G, a, M, f)
      BY <1>8, <1>9, <1>10, <1>11 DEF MirroredBy, n
    <2> QED
      BY <1>5, <1>10, <2>1 DEF M, n

(* f takes each row of G to its compensation in M. *)
Swaps(G, M, f) ==
    /\ f \in Bijection(G, M)
    /\ \A t \in G : /\ f[t].quantity = t.quantity
                    /\ FromKey(f[t]) = ToKey(t) /\ ToKey(f[t]) = FromKey(t)

(* What the compensations M of the rows G did to the exact balances of a     *)
(* ledger L2: what G moved has come back to where it was taken.             *)
LEMMA BalanceOfMirrors ==
    ASSUME NEW L2, IsFiniteSet(L2), NEW G, IsFiniteSet(G), NEW M, M \subseteq L2, NEW f, Swaps(G, M, f),
           NEW b, Exact(b, L2 \ M), NEW b2, Exact(b2, L2), NEW k \in BalanceKey
    PROVE  /\ SumQuantity(Outgoing(G, k)) \in Nat /\ SumQuantity(Incoming(G, k)) \in Nat
           /\ b2[k] = IF Materialised(k)
                      THEN b[k] + SumQuantity(Outgoing(G, k)) - SumQuantity(Incoming(G, k))
                      ELSE 0
  <1>1. /\ b2[k] = IF Materialised(k) THEN LedgerNet(L2, k) ELSE 0
        /\ b[k] = IF Materialised(k) THEN LedgerNet(L2 \ M, k) ELSE 0
    BY DEF Exact
  <1>2. LedgerNet(L2, k) = LedgerNet(L2 \ M, k) + LedgerNet(M, k) /\ LedgerNet(L2 \ M, k) \in Int
    BY NetOfRest
  <1>3. /\ LedgerNet(M, k) = SumQuantity(Outgoing(G, k)) - SumQuantity(Incoming(G, k))
        /\ SumQuantity(Outgoing(G, k)) \in Nat /\ SumQuantity(Incoming(G, k)) \in Nat
    BY NetOfMirrors DEF Swaps
  <1> QED
    BY <1>1, <1>2, <1>3

(* What the reversal of a node writes. *)
ReversalEntry(d, a) == Logged("reversal", d.journal[a].ref, d.journal[a].dependsOn)

NodeReversed(d, a, G, e) ==
    LET rev == Len(d.journal) + 1
        new == e.ledger \ d.ledger IN
    /\ WellTyped(e) /\ G # {} /\ G \subseteq d.ledger /\ d.ledger \subseteq e.ledger
    /\ Len(e.journal) = rev /\ DOMAIN e.journal = 1..rev
    /\ e.journal[rev] = ReversalEntry(d, a)
    /\ e.journal[a] = [ d.journal[a] EXCEPT !.status = "reversed", !.reversedBy = rev ]
    /\ \A b \in DOMAIN d.journal \ {a} : e.journal[b] = d.journal[b]
    /\ \A c \in new : /\ c.action = rev /\ d.nextId <= c.id
                      /\ \E t \in G : /\ c.reverses = t.id /\ c.quantity = t.quantity
                                      /\ FromKey(c) = ToKey(t) /\ ToKey(c) = FromKey(t)
    /\ \A t \in G : \E c \in new : { u \in new : u.reverses = t.id } = {c}
    /\ \A k \in BalanceKey :
         /\ SumQuantity(Outgoing(G, k)) \in Nat /\ SumQuantity(Incoming(G, k)) \in Nat
         /\ e.balance[k] = IF Materialised(k)
                           THEN d.balance[k] + SumQuantity(Outgoing(G, k)) - SumQuantity(Incoming(G, k))
                           ELSE 0

(* The reversal of a node, if it does not fail, compensates each of the rows *)
(* it is given once and by a new action, which the node names.              *)
LEMMA ReversedNodeShape ==
    ASSUME NEW d, WellTyped(d), Len(d.journal) < MaxActions, NEW a \in DOMAIN d.journal, NEW G,
           ReversedNode(d, a, G) # Failed
    PROVE  NodeReversed(d, a, G, ReversedNode(d, a, G))
  <1> DEFINE rev == Len(d.journal) + 1
             J == Append(d.journal, ReversalEntry(d, a))
             x == [ d EXCEPT !.journal = J ]
             M == Mirrors(d, G, rev)
             n == d.nextId + Cardinality(G)
             L == d.ledger \cup M
             ks == UNION { TouchedKeys(m) : m \in M }
             H == [ J EXCEPT ![a].status = "reversed", ![a].reversedBy = rev ]
             e == ReversedNode(d, a, G)
  <1>1. ReversalEntry(d, a) \in JournalEntry
    <2>1. d.journal[a] \in JournalEntry
      BY DatabaseFields
    <2> QED
      BY <2>1 DEF ReversalEntry, Logged, JournalEntry, Status, Nullable
  <1>2. /\ J \in Seq(JournalEntry) /\ Len(J) = rev /\ Len(J) <= MaxActions
        /\ rev \in Actions /\ J[rev] = ReversalEntry(d, a) /\ DOMAIN J = 1..rev
        /\ \A b \in DOMAIN d.journal : b \in DOMAIN J /\ b < rev /\ J[b] = d.journal[b]
    BY <1>1, JournalGrows
  <1>3. /\ d.ledger \subseteq StockTransaction /\ d.nextId \in Nat /\ d.balance \in [ BalanceKey -> Int ]
        /\ d = [ journal |-> d.journal, ledger |-> d.ledger, balance |-> d.balance,
                 nextId |-> d.nextId ]
        /\ \A t \in d.ledger : t.id < d.nextId /\ t.id \in Nat
        /\ Len(d.journal) \in Nat
    BY DatabaseFields
  <1> HIDE DEF J, rev
  <1>4. /\ x.journal = J /\ x.ledger = d.ledger /\ x.balance = d.balance /\ x.nextId = d.nextId
        /\ x = [ journal |-> J, ledger |-> d.ledger, balance |-> d.balance, nextId |-> d.nextId ]
    BY <1>3
  <1>5. Mirrors(x, G, rev) = M
    BY <1>4 DEF Mirrors, MirrorId
  <1>6. G # {} /\ Compensated(x, G, rev) # Failed /\ e = [ Compensated(x, G, rev) EXCEPT !.journal = WithStatus(Compensated(x, G, rev), a, rev) ]
    BY DEF ReversedNode, J, x, rev, ReversalEntry
  <1>7. G \subseteq d.ledger
    BY <1>4, <1>6, Zenon DEF Compensated
  <1> HIDE DEF x, M
  <1>8. e = [ journal |-> H, ledger |-> L, balance |-> RefreshBalance(d.balance, L, ks), nextId |-> n ]
    <2> DEFINE y == Compensated(x, G, rev)
    <2>1. y = [ x EXCEPT !.ledger = L, !.nextId = @ + Cardinality(G),
                         !.balance = RefreshBalance(@, L, ks) ]
      BY <1>4, <1>5, <1>7 DEF Compensated
    <2> HIDE DEF L, ks
    <2>2. y = [ journal |-> J, ledger |-> L, balance |-> RefreshBalance(d.balance, L, ks), nextId |-> n ]
      BY <1>4, <2>1
    <2>3. e = [ y EXCEPT !.journal = WithStatus(y, a, rev) ]
      BY <1>6
    <2> HIDE DEF y, e
    <2> QED
      BY <2>2, <2>3 DEF WithStatus
  <1>9. /\ n \in Nat /\ d.nextId <= n /\ IsFiniteSet(G)
        /\ M \subseteq StockTransaction /\ \E f : MirroredBy(d, G, rev, M, f)
    <2>1. G \subseteq StockTransaction /\ IsFiniteSet(G) /\ \A t, u \in G : t.id = u.id => t = u
      BY <1>3, <1>7, FS_Subset DEF WellTyped
    <2> QED
      BY <1>2, <1>3, <2>1, MirrorRows DEF M
  <1>10. PICK f : /\ M \subseteq StockTransaction /\ IsFiniteSet(M)
                  /\ \A c \in M : d.nextId <= c.id /\ c.id < n /\ c.action = rev
                  /\ \A c, u \in M : c.id = u.id => c = u
                  /\ f \in Bijection(G, M)
                  /\ \A t \in G : /\ f[t] \in M /\ f[t].reverses = t.id /\ f[t].quantity = t.quantity
                                  /\ FromKey(f[t]) = ToKey(t) /\ ToKey(f[t]) = FromKey(t)
    BY <1>9, Zenon DEF MirroredBy, n
  <1>11. /\ H \in Seq(JournalEntry) /\ Len(H) = rev /\ DOMAIN H = 1..rev
         /\ H[rev] = ReversalEntry(d, a)
         /\ H[a] = [ d.journal[a] EXCEPT !.status = "reversed", !.reversedBy = rev ]
         /\ \A b \in DOMAIN d.journal \ {a} : H[b] = d.journal[b]
    <2>1. a \in DOMAIN J /\ a # rev /\ J[a] = d.journal[a] /\ J[a] \in JournalEntry
      BY <1>2, <1>3 DEF rev
    <2>2. [ J[a] EXCEPT !.status = "reversed", !.reversedBy = rev ] \in JournalEntry
      BY <1>2, <2>1 DEF JournalEntry, Status, Nullable
    <2>3. H = [ J EXCEPT ![a] = [ J[a] EXCEPT !.status = "reversed", !.reversedBy = rev ] ]
      BY <1>2, <2>1
    <2>4. H \in Seq(JournalEntry) /\ Len(H) = rev
      BY <1>2, <2>1, <2>2, <2>3, ExceptSeq
    <2> QED
      BY <1>2, <2>1, <2>3, <2>4
  <1> HIDE DEF H, n
  <1>12. \A m \in M : TouchedKeys(m) \subseteq ks
    OBVIOUS
  <1> HIDE DEF ks
  <1>13. WellTyped(e)
    <2>1. Len(H) <= MaxActions
      BY <1>2, <1>11
    <2>2. WellTyped([ journal |-> H, ledger |-> L,
                      balance |-> RefreshBalance(d.balance, L, ks), nextId |-> n ])
      BY <1>9, <1>10, <1>11, <1>12, <2>1, RowsAdded
    <2> QED
      BY <1>8, <2>2, Zenon
  <1>14. e.journal = H /\ e.ledger = L
    BY <1>8
  <1> HIDE DEF e
  <1>15. L \ d.ledger = M
    BY <1>3, <1>10
  <1>16. ASSUME NEW k \in BalanceKey
         PROVE  /\ SumQuantity(Outgoing(G, k)) \in Nat /\ SumQuantity(Incoming(G, k)) \in Nat
                /\ e.balance[k] = IF Materialised(k)
                                  THEN d.balance[k] + SumQuantity(Outgoing(G, k)) - SumQuantity(Incoming(G, k))
                                  ELSE 0
    <2>1. Exact(e.balance, L) /\ Exact(d.balance, d.ledger) /\ L \ M = d.ledger
      BY <1>3, <1>10, <1>13, <1>14 DEF WellTyped
    <2>2. IsFiniteSet(L) /\ IsFiniteSet(G) /\ M \subseteq L
      BY <1>9, <1>13, <1>14 DEF WellTyped
    <2>3. Swaps(G, M, f)
      BY <1>10 DEF Swaps
    <2> HIDE DEF L
    <2>4. Exact(e.balance, L) /\ Exact(d.balance, L \ M)
      BY <2>1
    <2> QED
      BY <2>2, <2>3, <2>4, BalanceOfMirrors, Zenon
  <1>17. ASSUME NEW c \in M
         PROVE  \E t \in G : /\ c.reverses = t.id /\ c.quantity = t.quantity
                             /\ FromKey(c) = ToKey(t) /\ ToKey(c) = FromKey(t)
    <2>1. PICK t \in G : f[t] = c
      BY <1>10 DEF Bijection, Surjection
    <2> QED
      BY <1>10, <2>1
  <1>18. ASSUME NEW t \in G PROVE \E c \in M : { u \in M : u.reverses = t.id } = {c}
    <2>1. f[t] \in M /\ f[t].reverses = t.id
      BY <1>10
    <2>2. ASSUME NEW u \in M, u.reverses = t.id PROVE u = f[t]
      <3>1. PICK s \in G : f[s] = u
        BY <1>10 DEF Bijection, Surjection
      <3>2. s.id = t.id
        BY <1>10, <2>2, <3>1
      <3>3. s = t
        BY <1>7, <3>2 DEF WellTyped
      <3> QED
        BY <3>1, <3>3
    <2> QED
      BY <2>1, <2>2
  <1> QED
    <2> HIDE DEF L
    <2>1. /\ d.ledger \subseteq e.ledger /\ e.ledger \ d.ledger = M
          /\ Len(e.journal) = rev /\ DOMAIN e.journal = 1..rev
          /\ e.journal[rev] = ReversalEntry(d, a)
          /\ e.journal[a] = [ d.journal[a] EXCEPT !.status = "reversed", !.reversedBy = rev ]
          /\ \A b \in DOMAIN d.journal \ {a} : e.journal[b] = d.journal[b]
      BY <1>11, <1>14, <1>15 DEF L
    <2>2. \A c \in M : /\ c.action = rev /\ d.nextId <= c.id
                      /\ \E t \in G : /\ c.reverses = t.id /\ c.quantity = t.quantity
                                      /\ FromKey(c) = ToKey(t) /\ ToKey(c) = FromKey(t)
      BY <1>10, <1>17
    <2>3. NodeReversed(d, a, G, e)
      BY <1>6, <1>7, <1>13, <1>16, <1>18, <2>1, <2>2 DEF NodeReversed, rev
    <2> QED
      BY <2>3 DEF e
(* G are rows of action a that it wrote itself. *)
OwnRows(a, G) == \A t \in G : t.action = a /\ t.reverses = NULL

(* After the reversal of a node its rows have one compensation more, all     *)
(* others those they had.                                                   *)
LEMMA NodeRows ==
    ASSUME NEW d, Sound(d), NEW a \in DOMAIN d.journal, NEW G, OwnRows(a, G),
           NEW e, NodeReversed(d, a, G, e)
    PROVE  /\ \A t \in d.ledger \ G : Compensations(e, t) = Compensations(d, t)
           /\ \A t \in G : \E c \in e.ledger \ d.ledger :
                Compensations(e, t) = Compensations(d, t) \cup {c}
           /\ \A t \in e.ledger \ d.ledger : Compensations(e, t) = {}
           /\ \A b \in DOMAIN d.journal : /\ TransactionsOf(e, b) = TransactionsOf(d, b)
                                          /\ Generation(e, b) \subseteq Generation(d, b)
           /\ \A b \in DOMAIN d.journal : b # Len(d.journal) + 1
           /\ \A c \in e.ledger \ d.ledger : c.reverses # NULL
  <1> DEFINE rev == Len(d.journal) + 1
             new == e.ledger \ d.ledger
  <1>1. /\ WellTyped(d) /\ WellTyped(e) /\ G \subseteq d.ledger /\ d.ledger \subseteq e.ledger
        /\ \A c \in new : c.action = rev /\ d.nextId <= c.id /\ \E t \in G : c.reverses = t.id
        /\ \A t \in G : \E c \in new : { u \in new : u.reverses = t.id } = {c}
    BY DEF Sound, NodeReversed
  <1>2. /\ \A t \in e.ledger : t.id \in Nat /\ t.id # NULL
        /\ \A t \in d.ledger : t.id < d.nextId
        /\ d.nextId \in Nat
        /\ \A t, u \in d.ledger : t.id = u.id => t = u
    BY <1>1, DatabaseFields DEF WellTyped
  <1>3. \A b \in DOMAIN d.journal : b # rev
    BY <1>1, DatabaseFields
  <1> HIDE DEF rev
  <1>4. \A c \in new : c.reverses # NULL
    BY <1>1, <1>2
  <1>5. \A t \in e.ledger : Compensations(e, t) = Compensations(d, t) \cup { u \in new : u.reverses = t.id }
    BY <1>1 DEF Compensations
  <1>6. ASSUME NEW t \in d.ledger \ G PROVE Compensations(e, t) = Compensations(d, t)
    <2>1. { u \in new : u.reverses = t.id } = {}
      BY <1>1, <1>2
    <2> QED
      BY <1>1, <1>5, <2>1
  <1>7. ASSUME NEW t \in G
        PROVE  \E c \in new : Compensations(e, t) = Compensations(d, t) \cup {c}
    <2>1. t \in e.ledger
      BY <1>1
    <2> QED
      BY <1>1, <1>5, <2>1
  <1>8. ASSUME NEW t \in new PROVE Compensations(e, t) = {}
    <2>1. d.nextId <= t.id /\ t.id \in Nat
      BY <1>1, <1>2
    <2>2. \A c \in d.ledger : c.reverses # t.id
      BY <2>1, NoneAhead
    <2>3. \A c \in new : c.reverses # t.id
      BY <1>1, <1>2, <2>1
    <2> QED
      BY <2>2, <2>3 DEF Compensations
  <1>9. ASSUME NEW b \in DOMAIN d.journal
        PROVE  TransactionsOf(e, b) = TransactionsOf(d, b) /\ Generation(e, b) \subseteq Generation(d, b)
    <2>1. TransactionsOf(e, b) = TransactionsOf(d, b)
      BY <1>1, <1>3 DEF TransactionsOf
    <2>2. \A D : Generation(D, b) =
                   { t \in TransactionsOf(D, b) : t.reverses = NULL /\ Compensations(D, t) = {} }
      BY DEF Generation, TransactionsOf
    <2>3. \A t \in TransactionsOf(d, b) : Compensations(d, t) \subseteq Compensations(e, t)
      BY <1>1 DEF TransactionsOf, Compensations
    <2> QED
      BY <2>1, <2>2, <2>3
  <1> QED
    BY <1>3, <1>4, <1>6, <1>7, <1>8, <1>9 DEF rev

(* The journal after the reversal of a node. *)
LEMMA NodeJournal ==
    ASSUME NEW d, WellTyped(d), NEW a \in DOMAIN d.journal, NEW G, NEW e, NodeReversed(d, a, G, e)
    PROVE  LET rev == Len(d.journal) + 1 IN
           /\ DOMAIN e.journal = DOMAIN d.journal \cup {rev} /\ rev \notin DOMAIN d.journal
           /\ rev # NULL /\ rev \in Nat
           /\ e.journal[rev].type = "reversal" /\ e.journal[rev].status = "active"
           /\ e.journal[rev].reversedBy = NULL
           /\ e.journal[rev].dependsOn = d.journal[a].dependsOn
           /\ e.journal[a].type = d.journal[a].type /\ e.journal[a].ref = d.journal[a].ref
           /\ e.journal[a].status = "reversed"
           /\ e.journal[a].reversedBy = rev /\ e.journal[a].dependsOn = d.journal[a].dependsOn
           /\ \A b \in DOMAIN d.journal : b # a => e.journal[b] = d.journal[b]
           /\ DOMAIN d.journal = 1..Len(d.journal) /\ Len(d.journal) \in Nat
  <1>1. /\ DOMAIN d.journal = 1..Len(d.journal) /\ Len(d.journal) \in Nat
        /\ d.journal[a] \in JournalEntry
    BY DatabaseFields
  <1>2. /\ DOMAIN e.journal = 1..(Len(d.journal) + 1)
        /\ e.journal[Len(d.journal) + 1] = ReversalEntry(d, a)
        /\ e.journal[a] = [ d.journal[a] EXCEPT !.status = "reversed", !.reversedBy = Len(d.journal) + 1 ]
        /\ \A b \in DOMAIN d.journal \ {a} : e.journal[b] = d.journal[b]
    BY DEF NodeReversed
  <1>3. /\ e.journal[a].type = d.journal[a].type /\ e.journal[a].ref = d.journal[a].ref
        /\ e.journal[a].status = "reversed"
        /\ e.journal[a].reversedBy = Len(d.journal) + 1
        /\ e.journal[a].dependsOn = d.journal[a].dependsOn
    BY <1>1, <1>2 DEF JournalEntry
  <1>4. LET r == e.journal[Len(d.journal) + 1] IN
        /\ r.type = "reversal" /\ r.status = "active" /\ r.reversedBy = NULL
        /\ r.dependsOn = d.journal[a].dependsOn
    BY <1>2 DEF ReversalEntry, Logged
  <1>5. /\ DOMAIN e.journal = DOMAIN d.journal \cup {Len(d.journal) + 1}
        /\ Len(d.journal) + 1 \notin DOMAIN d.journal
        /\ Len(d.journal) + 1 # NULL /\ Len(d.journal) + 1 \in Nat
    BY <1>1, <1>2, LedgerConstants
  <1> QED
    BY <1>1, <1>2, <1>3, <1>4, <1>5

(* The reversal of a node keeps what always holds, if it compensates all     *)
(* that is in force of the node.                                            *)
LEMMA NodeSound ==
    ASSUME NEW d, Sound(d), NEW a \in DOMAIN d.journal, DomainIn(d, a), NEW G, OwnRows(a, G),
           Generation(d, a) \subseteq G, NEW e, NodeReversed(d, a, G, e)
    PROVE  Sound(e) /\ Grown(d, e)
  <1> DEFINE rev == Len(d.journal) + 1
             new == e.ledger \ d.ledger
  <1>1. /\ WellTyped(d) /\ WellTyped(e) /\ G \subseteq d.ledger /\ d.ledger \subseteq e.ledger
        /\ \A c \in new : c.action = rev /\ \E t \in G : c.reverses = t.id /\ c.quantity = t.quantity
                                      /\ FromKey(c) = ToKey(t) /\ ToKey(c) = FromKey(t)
    BY DEF Sound, NodeReversed
  <1>2. /\ \A t \in G : \E c \in new : Compensations(e, t) = Compensations(d, t) \cup {c}
        /\ \A t \in d.ledger \ G : Compensations(e, t) = Compensations(d, t)
        /\ \A b \in DOMAIN d.journal : /\ TransactionsOf(e, b) = TransactionsOf(d, b)
                                       /\ Generation(e, b) \subseteq Generation(d, b)
        /\ \A c \in new : c.reverses # NULL
    BY NodeRows
  <1>3. /\ DOMAIN e.journal = DOMAIN d.journal \cup {rev} /\ rev \notin DOMAIN d.journal /\ rev \in Nat
        /\ e.journal[rev].type = "reversal" /\ e.journal[rev].status = "active"
        /\ e.journal[rev].reversedBy = NULL
        /\ e.journal[rev].dependsOn = d.journal[a].dependsOn
        /\ e.journal[a].type = d.journal[a].type /\ e.journal[a].ref = d.journal[a].ref
        /\ e.journal[a].status = "reversed"
        /\ e.journal[a].dependsOn = d.journal[a].dependsOn
        /\ \A b \in DOMAIN d.journal : b # a => e.journal[b] = d.journal[b]
        /\ \A b \in DOMAIN d.journal : b \in Nat /\ b < rev
    BY <1>1, NodeJournal
  <1> HIDE DEF rev
  <1>4. \A b \in DOMAIN d.journal : /\ e.journal[b].type = d.journal[b].type
                                    /\ e.journal[b].ref = d.journal[b].ref
                                    /\ e.journal[b].dependsOn = d.journal[b].dependsOn
                                    /\ Active(e, b) => Active(d, b)
    BY <1>3 DEF Active
  <1>5. Attributed(e)
    <2>1. ASSUME NEW t \in e.ledger, t.reverses = NULL, t.action # NULL
          PROVE  t.action \in DOMAIN e.journal /\ DomainIn(e, t.action)
      <3>1. t \in d.ledger
        BY <1>2, <2>1
      <3>2. t.action \in DOMAIN d.journal /\ DomainIn(d, t.action)
        BY <2>1, <3>1 DEF Sound, Attributed
      <3> QED
        BY <1>3, <1>4, <3>2 DEF DomainIn
    <2>2. ASSUME NEW c \in e.ledger, c.reverses # NULL
          PROVE  /\ c.action \in DOMAIN e.journal /\ ~DomainIn(e, c.action)
                 /\ \E t \in e.ledger : Source(e, c, t)
      <3>1. CASE c \in d.ledger
        <4>1. /\ c.action \in DOMAIN d.journal /\ ~DomainIn(d, c.action)
              /\ \E t \in d.ledger : Source(d, c, t)
          BY <2>2, <3>1 DEF Sound, Attributed
        <4> QED
          BY <1>1, <1>3, <1>4, <4>1 DEF Source, DomainIn
      <3>2. CASE c \in new
        <4>1. PICK t \in G : c.reverses = t.id /\ c.quantity = t.quantity
                             /\ FromKey(c) = ToKey(t) /\ ToKey(c) = FromKey(t)
          BY <1>1, <3>2
        <4>2. t \in e.ledger /\ t.reverses = NULL /\ t.action # NULL
          BY <1>1, DatabaseFields, LedgerConstants DEF OwnRows
        <4>3. Source(e, c, t)
          BY <4>1, <4>2 DEF Source
        <4> QED
          BY <1>1, <1>3, <3>2, <4>2, <4>3 DEF DomainIn
      <3> QED
        BY <2>2, <3>1, <3>2
    <2> QED
      BY <2>1, <2>2 DEF Attributed
  <1>6. Generation(e, a) = {}
    <2> SUFFICES ASSUME NEW t \in Generation(e, a) PROVE FALSE
      OBVIOUS
    <2>1. t \in Generation(d, a)
      BY <1>2
    <2>2. t \in G /\ Compensations(e, t) = {}
      BY <2>1 DEF Generation
    <2> QED
      BY <1>2, <2>2
  <1>7. JournalSound(e)
    <2> SUFFICES ASSUME NEW b \in DOMAIN e.journal
                 PROVE  /\ e.journal[b].dependsOn \subseteq 1..(b - 1)
                        /\ ~DomainIn(e, b) => Active(e, b) /\ e.journal[b].reversedBy = NULL
                        /\ ~Active(e, b) => Generation(e, b) = {}
                        /\ e.journal[b].status = "purged" => TransactionsOf(e, b) = {}
      BY DEF JournalSound
    <2>1. CASE b = a
      BY <1>3, <1>6, <2>1 DEF Sound, JournalSound, DomainIn, Active
    <2>2. CASE b \in DOMAIN d.journal /\ b # a
      BY <1>2, <1>3, <2>2 DEF Sound, JournalSound, DomainIn, Active
    <2>3. CASE b = rev
      <3>1. d.journal[a].dependsOn \subseteq 1..(a - 1) /\ a \in Nat /\ a < rev
        BY <1>3 DEF Sound, JournalSound
      <3>2. 1..(a - 1) \subseteq 1..(rev - 1)
        BY <1>3, <3>1
      <3> QED
        BY <1>3, <2>3, <3>1, <3>2 DEF DomainIn, Active
    <2> QED
      BY <1>3, <2>1, <2>2, <2>3
  <1>8. Grown(d, e)
    BY <1>2, <1>3, <1>4 DEF Grown
  <1>9. Ordered(e)
    <2>1. ASSUME NEW t \in e.ledger, t.reverses = NULL, t.action # NULL
          PROVE  \E o \in DomainOperations : /\ e.journal[t.action].type = o.type
                                             /\ e.journal[t.action].ref = o.ref /\ RowOf(o, t)
      <3>1. t \in d.ledger
        BY <1>2, <2>1
      <3>2. t.action \in DOMAIN d.journal
        BY <2>1, <3>1 DEF Sound, Attributed
      <3> QED
        BY <1>4, <2>1, <3>1, <3>2 DEF Sound, Ordered
    <2>2. ASSUME NEW b \in DOMAIN e.journal, DomainIn(e, b)
          PROVE  /\ Active(e, b) => TransactionsOf(e, b) # {}
                 /\ \A p \in e.journal[b].dependsOn :
                      /\ e.journal[b].type \in TaskActionFamily
                      /\ e.journal[p].type \in TaskActionFamily
                      /\ e.journal[p].ref = e.journal[b].ref
      <3>1. b \in DOMAIN d.journal /\ DomainIn(d, b)
        BY <1>3, <1>4, <2>2 DEF DomainIn
      <3>2. \A p \in d.journal[b].dependsOn : p \in DOMAIN d.journal
        BY <1>1, <3>1, DatabaseFields DEF Sound, JournalSound
      <3> QED
        BY <1>2, <1>4, <3>1, <3>2 DEF Sound, Ordered
    <2> QED
      BY <2>1, <2>2 DEF Ordered
  <1> QED
    BY <1>1, <1>5, <1>7, <1>8, <1>9 DEF Sound

(* The reversal of an active action, of exactly what is in force of it,      *)
(* leaves journal and ledger agreeing.                                      *)
LEMMA NodeMatched ==
    ASSUME NEW d, Sound(d), Matched(d), NEW a \in DOMAIN d.journal, DomainIn(d, a), Active(d, a),
           NEW e, NodeReversed(d, a, Generation(d, a), e)
    PROVE  Matched(e)
  <1> DEFINE rev == Len(d.journal) + 1
             G == Generation(d, a)
             new == e.ledger \ d.ledger
  <1>1. OwnRows(a, G) /\ G \subseteq d.ledger
    BY DEF OwnRows, Generation
  <1>2. /\ WellTyped(d) /\ d.ledger \subseteq e.ledger
        /\ \A c \in new : c.action = rev /\ \E t \in G : c.reverses = t.id
    BY DEF Sound, NodeReversed
  <1>3. /\ \A t \in d.ledger \ G : Compensations(e, t) = Compensations(d, t)
        /\ \A t \in G : \E c \in new : Compensations(e, t) = Compensations(d, t) \cup {c}
        /\ \A t \in new : Compensations(e, t) = {}
        /\ \A b \in DOMAIN d.journal : TransactionsOf(e, b) = TransactionsOf(d, b)
    BY <1>1, NodeRows
  <1>4. /\ DOMAIN e.journal = DOMAIN d.journal \cup {rev} /\ rev \notin DOMAIN d.journal /\ rev # NULL
        /\ e.journal[rev].type = "reversal" /\ e.journal[rev].status = "active"
        /\ e.journal[rev].reversedBy = NULL
        /\ e.journal[a].type = d.journal[a].type /\ e.journal[a].status = "reversed"
        /\ e.journal[a].reversedBy = rev
        /\ \A b \in DOMAIN d.journal : b # a => e.journal[b] = d.journal[b]
    BY <1>2, NodeJournal
  <1>5. TransactionsOf(d, a) = G /\ \A t \in G : Compensations(d, t) = {}
    <2>1. ASSUME NEW t \in TransactionsOf(d, a) PROVE t \in G
      <3>1. t \in d.ledger /\ t.action = a /\ Compensations(d, t) = {}
        BY DEF Matched, TransactionsOf
      <3>2. t.reverses = NULL
        BY <3>1 DEF Sound, Attributed
      <3> QED
        BY <3>1, <3>2 DEF Generation
    <2> QED
      BY <2>1 DEF Generation, TransactionsOf
  <1> HIDE DEF rev, G
  <1>6. d.journal[a].reversedBy = NULL
    BY DEF Matched
  <1>7. \A b \in DOMAIN d.journal : d.journal[b].reversedBy # rev
    BY <1>4 DEF Matched
  <1>8. ASSUME NEW b \in DOMAIN e.journal
        PROVE  /\ Active(e, b) =>
                    /\ e.journal[b].reversedBy = NULL
                    /\ DomainIn(e, b) => \A t \in TransactionsOf(e, b) : Compensations(e, t) = {}
               /\ e.journal[b].status = "reversed" =>
                    \A t \in TransactionsOf(e, b) : \E c \in e.ledger : Compensations(e, t) = {c}
               /\ ~Active(e, b) => e.journal[b].reversedBy \in DOMAIN e.journal
                                   /\ ~DomainIn(e, e.journal[b].reversedBy)
               /\ ~DomainIn(e, b) => \E n \in DOMAIN e.journal : e.journal[n].reversedBy = b
    <2>1. CASE b = a
      <3>1. ASSUME NEW t \in TransactionsOf(e, a) PROVE \E c \in e.ledger : Compensations(e, t) = {c}
        BY <1>3, <1>5
      <3> QED
        BY <1>4, <2>1, <3>1 DEF Active, DomainIn
    <2>2. CASE b \in DOMAIN d.journal /\ b # a
      <3>1. e.journal[b] = d.journal[b] /\ TransactionsOf(e, b) = TransactionsOf(d, b)
        BY <1>3, <1>4, <2>2
      <3>2. \A t \in TransactionsOf(d, b) : t \in d.ledger \ G /\ Compensations(e, t) = Compensations(d, t)
        BY <1>1, <1>3, <2>2 DEF TransactionsOf, OwnRows
      <3>3. d.journal[b].reversedBy \in DOMAIN d.journal =>
              e.journal[d.journal[b].reversedBy].type = d.journal[d.journal[b].reversedBy].type
        BY <1>4
      <3>4. \A n \in DOMAIN d.journal : d.journal[n].reversedBy = b => e.journal[n].reversedBy = b
        <4>1. b # NULL
          BY <1>2, <2>2, DatabaseFields, LedgerConstants
        <4> QED
          BY <1>4, <1>6, <4>1
      <3> QED
        BY <1>2, <1>4, <2>2, <3>1, <3>2, <3>3, <3>4 DEF Matched, Active, DomainIn
    <2>3. CASE b = rev
      BY <1>4, <2>3 DEF Active, DomainIn
    <2> QED
      BY <1>4, <2>1, <2>2, <2>3
  <1>9. ASSUME NEW b \in DOMAIN e.journal, NEW n \in DOMAIN e.journal,
               e.journal[b].reversedBy = e.journal[n].reversedBy
        PROVE  e.journal[b].reversedBy = NULL \/ b = n
    BY <1>4, <1>7, <1>9 DEF Matched
  <1>10. ASSUME NEW t \in e.ledger, NEW c \in Compensations(e, t)
         PROVE  e.journal[t.action].reversedBy = c.action
    <2>1. CASE t \in G
      <3>1. c \in new /\ t.action = a
        BY <1>1, <1>3, <1>5, <2>1 DEF OwnRows
      <3> QED
        BY <1>2, <1>4, <3>1
    <2>2. CASE t \in d.ledger \ G
      <3>1. c \in Compensations(d, t) /\ c \in d.ledger /\ c.reverses = t.id
        BY <1>3, <2>2 DEF Compensations
      <3>2. d.journal[t.action].reversedBy = c.action
        BY <2>2, <3>1 DEF Matched
      <3>3. c.reverses # NULL
        BY <1>2, <2>2, <3>1, DatabaseFields
      <3>4. PICK s \in d.ledger : Source(d, c, s)
        BY <3>1, <3>3 DEF Sound, Attributed
      <3>5. s = t
        BY <1>2, <2>2, <3>1, <3>4 DEF Source, WellTyped
      <3>6. t.action \in DOMAIN d.journal
        BY <3>4, <3>5 DEF Sound, Attributed, Source
      <3>7. t.action # a
        BY <1>5, <2>2 DEF TransactionsOf
      <3> QED
        BY <1>4, <3>2, <3>6, <3>7
    <2>3. CASE t \in new
      BY <1>3, <2>3
    <2> QED
      BY <2>1, <2>2, <2>3
  <1> QED
    BY <1>8, <1>9, <1>10 DEF Matched

(* A covered node overdraws nothing. *)
LEMMA NodeNonNegative ==
    ASSUME NEW d, NonNegative(d), NEW a, NEW G, CoveredWith(d, G, NoAdjustment),
           d.balance \in [ BalanceKey -> Int ], NEW e, NodeReversed(d, a, G, e)
    PROVE  NonNegative(e)
  <1> SUFFICES ASSUME NEW k \in BalanceKey PROVE e.balance[k] >= 0
    BY DEF NonNegative
  <1>1. /\ SumQuantity(Outgoing(G, k)) \in Nat /\ SumQuantity(Incoming(G, k)) \in Nat
        /\ e.balance[k] = IF Materialised(k)
                          THEN d.balance[k] + SumQuantity(Outgoing(G, k)) - SumQuantity(Incoming(G, k))
                          ELSE 0
    BY DEF NodeReversed
  <1>2. d.balance[k] \in Int /\ d.balance[k] >= 0
    BY DEF NonNegative
  <1>3. CoverageNeed(G, k) = SumQuantity(Incoming(G, k))
    BY DEF CoverageNeed, Incoming
  <1>4. CoverageNeed(G, k) = 0 \/ d.balance[k] >= CoverageNeed(G, k)
    <2>1. NoAdjustment[k] = 0
      BY DEF NoAdjustment
    <2>2. CoverageNeed(G, k) = 0 \/ (IF d.balance[k] > 0 THEN d.balance[k] ELSE 0) + NoAdjustment[k] >= CoverageNeed(G, k)
      BY DEF CoveredWith
    <2> QED
      BY <1>1, <1>2, <1>3, <2>1, <2>2
  <1> QED
    BY <1>1, <1>2, <1>3, <1>4
----------------------------------------------------------------------------
(* The reversal of the nodes of a request, from the largest down.           *)

(* The largest node comes first. *)
LEMMA FirstNodeIsLargest ==
    ASSUME NEW n \in Nat, NEW nodes \in SUBSET (0..n), nodes # {}
    PROVE  FirstNode(nodes) \in nodes /\ \A b \in nodes : b <= FirstNode(nodes)
  <1> DEFINE T == { m \in 0..n : n - m \in nodes }
  <1>1. T \in SUBSET Nat
    OBVIOUS
  <1>2. T # {}
    <2>1. PICK b \in nodes : TRUE
      OBVIOUS
    <2>2. n - b \in 0..n /\ n - (n - b) = b
      BY <2>1
    <2> QED
      BY <2>1, <2>2
  <1>3. PICK m \in T : \A k \in T : m <= k
    <2> HIDE DEF T
    <2> QED
      BY <1>1, <1>2, Least
  <1>4. n - m \in nodes /\ \A b \in nodes : b <= n - m
    <2>1. \A b \in nodes : n - b \in T /\ b \in Nat
      OBVIOUS
    <2> QED
      BY <1>3, <2>1
  <1> QED
    BY <1>4 DEF FirstNode

(* What becomes of a database when the turn of action a comes. *)
InTurn(e, r, a) == IF a \in r.nodes THEN NextNode(e, r, a) ELSE e

(* The virtual walk at action a, and the database when the turn of a comes   *)
(* in the reversal of nodes as PreviewTellsTheTruth carries it out.         *)
InWalk(d, nodes, v, a) == IF a \in nodes THEN CoveredNode(d, v, a) ELSE v

InCascade(e, nodes, a) == IF a \in nodes THEN Carried(e, a) ELSE e

(* One turn of the three recursions that go from the largest action down. *)
Turn(what, d, r, x, a) ==
    CASE what = "reverse" -> InTurn(x, r, a)
      [] what = "preview" -> InWalk(d, r, x, a)
      [] OTHER -> InCascade(x, r, a)

Turns(what, d, r, start, g) ==
    g = [ a \in 1..(MaxActions + 1) |->
            IF a > MaxActions THEN start ELSE Turn(what, d, r, g[a + 1], a) ]

(* Such a recursion is well defined. *)
LEMMA TurnsExist ==
    ASSUME NEW what, NEW d, NEW r, NEW start
    PROVE  \E g : Turns(what, d, r, start, g)
  <1> DEFINE N == MaxActions
             From(m) == (N + 1 - m)..(N + 1)
             Is(m, g) == g = [ a \in From(m) |-> IF a > N THEN start ELSE Turn(what, d, r, g[a + 1], a) ]
             T == { m \in 0..N : \E g : Is(m, g) }
  <1>1. N \in Nat
    BY ActionIds
  <1> HIDE DEF N
  <1>2. 0 \in T
    <2> DEFINE g == [ a \in From(0) |-> start ]
    <2>1. \A a \in From(0) : a > N
      BY <1>1
    <2>2. Is(0, g)
      BY <2>1
    <2> QED
      BY <1>1, <2>2
  <1>3. ASSUME NEW m \in 1..N, m - 1 \in T PROVE m \in T
    <2>1. PICK g : Is(m - 1, g)
      BY <1>3
    <2> DEFINE b == N + 1 - m
               h == [ a \in From(m) |-> IF a = b THEN Turn(what, d, r, g[b + 1], b) ELSE g[a] ]
    <2>2. /\ b \in From(m) /\ b \in 1..N /\ b + 1 \in From(m) /\ b + 1 # b
          /\ \A a \in From(m) : a = b \/ a \in From(m - 1)
          /\ \A a \in From(m - 1) : a \in From(m) /\ a # b /\ (a > N \/ a + 1 \in From(m - 1))
      BY <1>1
    <2> HIDE DEF b, From
    <2>3. \A a \in From(m - 1) : g[a] = IF a > N THEN start ELSE Turn(what, d, r, g[a + 1], a)
      BY <2>1
    <2>4. /\ h[b] = Turn(what, d, r, g[b + 1], b) /\ h[b + 1] = g[b + 1]
          /\ \A a \in From(m - 1) : h[a] = g[a]
      BY <2>2
    <2>5. ASSUME NEW a \in From(m)
          PROVE  h[a] = IF a > N THEN start ELSE Turn(what, d, r, h[a + 1], a)
      <3>1. CASE a = b
        <4>1. ~(a > N)
          BY <1>1, <2>2, <3>1
        <4> HIDE DEF h
        <4> QED
          BY <2>4, <3>1, <4>1
      <3>2. CASE a \in From(m - 1)
        <4>1. h[a] = g[a] /\ (a > N \/ h[a + 1] = g[a + 1])
          BY <2>2, <2>4, <3>2
        <4>2. g[a] = IF a > N THEN start ELSE Turn(what, d, r, g[a + 1], a)
          BY <2>3, <3>2
        <4> HIDE DEF h
        <4> QED
          BY <4>1, <4>2
      <3> QED
        BY <2>2, <3>1, <3>2
    <2>6. h = [ a \in From(m) |-> h[a] ]
      OBVIOUS
    <2> HIDE DEF h
    <2>7. Is(m, h)
      BY <2>5, <2>6
    <2> QED
      BY <2>7
  <1> HIDE DEF T
  <1>4. N \in T
    BY <1>1, <1>2, <1>3, Upwards
  <1>5. PICK g : Is(N, g)
    BY <1>4 DEF T
  <1>6. From(N) = 1..(N + 1)
    BY <1>1
  <1> QED
    BY <1>5, <1>6 DEF Turns, N

(* The databases g between the turns, from d to the outcome. *)
TurnByTurn(d, r, g) ==
    /\ g[MaxActions + 1] = d
    /\ \A a \in 1..MaxActions : g[a] = InTurn(g[a + 1], r, a)
    /\ g[1] = Reversed(d, r)

(* The reversal goes turn by turn. *)
LEMMA ReversedTurnByTurn ==
    ASSUME NEW d, NEW r
    PROVE  \E g : TurnByTurn(d, r, g)
  <1> DEFINE N == MaxActions
             Body(g) == [ a \in 1..(MaxActions + 1) |-> IF a > MaxActions THEN d ELSE
                            IF a \in r.nodes THEN NextNode(g[a + 1], r, a) ELSE g[a + 1] ]
             done == CHOOSE g : g = Body(g)
  <1>1. N \in Nat
    BY ActionIds
  <1>2. \E g : g = Body(g)
    <2>1. PICK g : Turns("reverse", d, r, d, g)
      BY TurnsExist
    <2>2. \A x, a : Turn("reverse", d, r, x, a) = IF a \in r.nodes THEN NextNode(x, r, a) ELSE x
      BY DEF Turn, InTurn
    <2>3. g = Body(g)
      BY <2>1, <2>2 DEF Turns
    <2> QED
      BY <2>3
  <1>3. done = Body(done)
    BY <1>2
  <1>4. Reversed(d, r) = done[1]
    BY DEF Reversed
  <1> HIDE DEF done
  <1>5. /\ done[N + 1] = d
        /\ \A a \in 1..N : done[a] = InTurn(done[a + 1], r, a)
    BY <1>1, <1>3 DEF InTurn, N
  <1>6. TurnByTurn(d, r, done)
    BY <1>4, <1>5 DEF TurnByTurn, N
  <1> QED
    BY <1>6

(* Later is transitive. *)
LEMMA GrownFurther ==
    ASSUME NEW d, NEW e, NEW f, Grown(d, e), Grown(e, f)
    PROVE  Grown(d, f)
  BY DEF Grown

(* What a request has read is as good in a later state. *)
LEMMA RequestKept ==
    ASSUME NEW d, WellTyped(d), NEW r, RequestSound(d, r), NEW e, Grown(d, e)
    PROVE  RequestSound(e, r)
  <1>1. FirstNode(r.nodes) \in r.nodes
    <2>1. Len(d.journal) \in Nat /\ r.nodes \in SUBSET (0..Len(d.journal)) /\ r.nodes # {}
      BY DatabaseFields DEF RequestSound
    <2> QED
      BY <2>1, FirstNodeIsLargest
  <1> QED
    BY <1>1 DEF RequestSound, Grown, DomainIn

(* The turn of one node, whatever other requests have done. *)
LEMMA NextNodeSound ==
    ASSUME NEW e, Sound(e), NEW r, RequestSound(e, r), NEW a \in r.nodes,
           Len(e.journal) < MaxActions, NextNode(e, r, a) # Failed
    PROVE  LET f == NextNode(e, r, a) IN
           Sound(f) /\ Grown(e, f) /\ Len(f.journal) <= Len(e.journal) + 1
  <1> DEFINE f == NextNode(e, r, a)
  <1> SUFFICES Sound(f) /\ Grown(e, f) /\ Len(f.journal) <= Len(e.journal) + 1
    OBVIOUS
  <1>1. WellTyped(e) /\ a \in DOMAIN e.journal /\ DomainIn(e, a) /\ Len(e.journal) \in Nat
    BY DatabaseFields DEF Sound, RequestSound
  <1>2. \/ f = e
        \/ f = ReversedNode(e, a, r.planned) /\ a = FirstNode(r.nodes)
        \/ f = ReversedNode(e, a, Generation(e, a))
    BY DEF NextNode
  <1>3. ASSUME NEW G, OwnRows(a, G), Generation(e, a) \subseteq G, f = ReversedNode(e, a, G)
        PROVE  Sound(f) /\ Grown(e, f) /\ Len(f.journal) <= Len(e.journal) + 1
    <2>1. f # Failed
      OBVIOUS
    <2> HIDE DEF f
    <2>2. NodeReversed(e, a, G, f)
      BY <1>1, <1>3, <2>1, ReversedNodeShape
    <2>3. Sound(f) /\ Grown(e, f)
      BY <1>1, <1>3, <2>2, NodeSound
    <2>4. Len(f.journal) = Len(e.journal) + 1
      BY <2>2 DEF NodeReversed
    <2> QED
      BY <1>1, <2>3, <2>4
  <1>4. CASE f = e
    <2> HIDE DEF f
    <2> QED
      BY <1>1, <1>4 DEF Grown
  <1>5. CASE f = ReversedNode(e, a, r.planned) /\ a = FirstNode(r.nodes)
    <2>1. OwnRows(a, r.planned) /\ Generation(e, a) \subseteq r.planned
      BY <1>5 DEF RequestSound, OwnRows
    <2> HIDE DEF f
    <2> QED
      BY <1>3, <1>5, <2>1
  <1>6. CASE f = ReversedNode(e, a, Generation(e, a))
    <2>1. OwnRows(a, Generation(e, a))
      BY DEF OwnRows, Generation
    <2> HIDE DEF f
    <2> QED
      BY <1>3, <1>6, <2>1
  <1> HIDE DEF f
  <1> QED
    BY <1>2, <1>4, <1>5, <1>6

(* The nodes whose turn has come. *)
Done(r, i) == { n \in r.nodes : i <= n }

(* One more at each turn of a node. *)
LEMMA DoneCount ==
    ASSUME NEW r, r.nodes \subseteq 1..MaxActions, NEW i \in 1..MaxActions
    PROVE  /\ Cardinality(Done(r, i)) \in Nat /\ Cardinality(Done(r, i + 1)) \in Nat
           /\ Cardinality(Done(r, i)) <= Cardinality(r.nodes)
           /\ Cardinality(r.nodes) \in Nat
           /\ i \in r.nodes => /\ Cardinality(Done(r, i)) = Cardinality(Done(r, i + 1)) + 1
           /\ i \notin r.nodes => Done(r, i) = Done(r, i + 1)
           /\ Done(r, MaxActions + 1) = {}
  <1>1. MaxActions \in Nat
    BY ActionIds
  <1>2. IsFiniteSet(1..MaxActions)
    BY <1>1, FS_Interval
  <1>3. IsFiniteSet(r.nodes)
    BY <1>2, FS_Subset
  <1>4. Done(r, i) \in SUBSET r.nodes /\ Done(r, i + 1) \in SUBSET r.nodes
    BY DEF Done
  <1>5. /\ IsFiniteSet(Done(r, i)) /\ IsFiniteSet(Done(r, i + 1))
        /\ Cardinality(Done(r, i)) <= Cardinality(r.nodes)
    BY <1>3, <1>4, FS_Subset
  <1>6. /\ Cardinality(Done(r, i)) \in Nat /\ Cardinality(Done(r, i + 1)) \in Nat
        /\ Cardinality(r.nodes) \in Nat
    BY <1>3, <1>5, FS_CardinalityType
  <1>7. ASSUME i \in r.nodes
        PROVE  Cardinality(Done(r, i)) = Cardinality(Done(r, i + 1)) + 1
    <2>1. Done(r, i) = Done(r, i + 1) \cup {i} /\ i \notin Done(r, i + 1)
      BY <1>1, <1>7 DEF Done
    <2> QED
      BY <1>5, <2>1, FS_AddElement
  <1>8. i \notin r.nodes => Done(r, i) = Done(r, i + 1)
    BY <1>1 DEF Done
  <1>9. Done(r, MaxActions + 1) = {}
    BY <1>1 DEF Done
  <1> QED
    BY <1>5, <1>6, <1>7, <1>8, <1>9

(* Between the turns everything that always holds does. *)
LEMMA TurnsSound ==
    ASSUME NEW d, Sound(d), NEW r, RequestSound(d, r),
           Len(d.journal) + Cardinality(r.nodes) <= MaxActions, NEW g, TurnByTurn(d, r, g),
           NEW i \in 1..(MaxActions + 1), g[i] # Failed
    PROVE  /\ Sound(g[i]) /\ Grown(d, g[i])
           /\ Len(g[i].journal) <= Len(d.journal) + Cardinality(Done(r, i))
  <1> DEFINE N == MaxActions
             Holds(k) == g[k] # Failed =>
                         /\ Sound(g[k]) /\ Grown(d, g[k])
                         /\ Len(g[k].journal) <= Len(d.journal) + Cardinality(Done(r, k))
             T == { m \in 0..N : Holds(N + 1 - m) }
  <1>1. N \in Nat /\ Len(d.journal) \in Nat /\ r.nodes \subseteq 1..N
        /\ DOMAIN d.journal \subseteq 1..N
    BY ActionIds, DatabaseFields DEF Sound, RequestSound
  <1>2. 0 \in T
    <2>1. Done(r, N + 1) = {}
      BY <1>1 DEF Done
    <2>2. Cardinality(Done(r, N + 1)) = 0
      BY <2>1, FS_EmptySet
    <2>3. g[N + 1] = d /\ Grown(d, d)
      BY DEF TurnByTurn, Grown
    <2>4. Holds(N + 1)
      BY <1>1, <2>2, <2>3
    <2>5. 0 \in 0..N /\ N + 1 - 0 = N + 1
      BY <1>1
    <2> HIDE DEF Holds, N
    <2> QED
      BY <2>4, <2>5
  <1>3. ASSUME NEW m \in 1..N, m - 1 \in T PROVE m \in T
    <2> DEFINE a == N + 1 - m
    <2>1. a \in 1..N /\ a + 1 = N + 1 - (m - 1) /\ m \in 0..N
      BY <1>1
    <2>2. Holds(a + 1)
      <3> HIDE DEF Holds, a
      <3> QED
        BY <1>3, <2>1
    <2> HIDE DEF a
    <2>3. g[a] = InTurn(g[a + 1], r, a)
      BY <2>1 DEF TurnByTurn
    <2>4. /\ Cardinality(Done(r, a)) \in Nat /\ Cardinality(Done(r, a + 1)) \in Nat
          /\ Cardinality(Done(r, a)) <= Cardinality(r.nodes) /\ Cardinality(r.nodes) \in Nat
          /\ a \in r.nodes => /\ Cardinality(Done(r, a)) = Cardinality(Done(r, a + 1)) + 1
          /\ a \notin r.nodes => Done(r, a) = Done(r, a + 1)
      BY <1>1, <2>1, DoneCount
    <2>5. ASSUME a \notin r.nodes PROVE Holds(a)
      BY <2>2, <2>3, <2>4, <2>5 DEF InTurn
    <2>6. ASSUME a \in r.nodes PROVE Holds(a)
      <3> SUFFICES ASSUME g[a] # Failed PROVE Holds(a)
        OBVIOUS
      <3> DEFINE e == g[a + 1]
                 f == g[a]
      <3>1. f = NextNode(e, r, a) /\ e # Failed
        BY <2>3, <2>6 DEF InTurn, NextNode
      <3>2. /\ Sound(e) /\ Grown(d, e)
            /\ Len(e.journal) <= Len(d.journal) + Cardinality(Done(r, a + 1))
        BY <2>2, <3>1
      <3> HIDE DEF e, f
      <3>3. RequestSound(e, r) /\ Len(e.journal) \in Nat
        BY <3>2, RequestKept, DatabaseFields DEF Sound
      <3>4. Len(e.journal) < MaxActions
        BY <1>1, <2>4, <2>6, <3>2, <3>3
      <3>5. f # Failed
        BY DEF f
      <3>6. Sound(f) /\ Grown(e, f) /\ Len(f.journal) <= Len(e.journal) + 1
        BY <2>6, <3>1, <3>2, <3>3, <3>4, <3>5, NextNodeSound
      <3>7. Grown(d, f)
        BY <3>2, <3>6, GrownFurther
      <3>8. Len(f.journal) \in Nat
        BY <3>6, DatabaseFields DEF Sound
      <3>9. Len(f.journal) <= Len(d.journal) + Cardinality(Done(r, a))
        <4>1. Len(d.journal) \in Nat /\ Cardinality(Done(r, a + 1)) \in Nat
              /\ Cardinality(Done(r, a)) = Cardinality(Done(r, a + 1)) + 1
          BY <1>1, <2>4, <2>6
        <4>2. /\ Len(e.journal) <= Len(d.journal) + Cardinality(Done(r, a + 1))
              /\ Len(f.journal) <= Len(e.journal) + 1
              /\ Len(e.journal) \in Nat
          BY <3>2, <3>3, <3>6
        <4> HIDE DEF Holds, T, N
        <4> QED
          BY <3>8, <4>1, <4>2, SMTT(30)
      <3> QED
        BY <3>6, <3>7, <3>9 DEF f
    <2>7. Holds(a)
      <3> HIDE DEF Holds
      <3> QED
        BY <2>5, <2>6
    <2> HIDE DEF Holds
    <2> QED
      BY <2>1, <2>7 DEF a
  <1> HIDE DEF T
  <1>4. 0..N \subseteq T
    BY <1>1, <1>2, <1>3, Upwards
  <1>5. N + 1 - i \in T /\ N + 1 - (N + 1 - i) = i
    BY <1>1, <1>4
  <1>6. Holds(i)
    <2> HIDE DEF Holds, N
    <2> QED
      BY <1>5 DEF T
  <1> QED
    BY <1>6

(* The plan of r is still that of d: its nodes are in force, and what was    *)
(* read of the first one is what there is, and is covered.                  *)
PlanHolds(d, r) ==
    /\ RequestSound(d, r)
    /\ \A n \in r.nodes : Active(d, n)
    /\ r.planned = Generation(d, FirstNode(r.nodes))
    /\ CoveredWith(d, r.planned, NoAdjustment)

(* e is d with the nodes of r from i on reversed. *)
HalfDone(d, r, i, e) ==
    /\ Matched(e) /\ (NonNegative(d) => NonNegative(e))
    /\ \A b \in DOMAIN d.journal :
         /\ b \in DOMAIN e.journal /\ e.journal[b].type = d.journal[b].type
         /\ e.journal[b].dependsOn = d.journal[b].dependsOn
         /\ b \in Done(r, i) => e.journal[b].status = "reversed"
         /\ b \notin Done(r, i) => e.journal[b].status = d.journal[b].status
    /\ \A b \in DOMAIN e.journal : b \in DOMAIN d.journal \/ ~DomainIn(e, b)
    /\ Done(r, i) = {} => e = d

(* The turn of one node of a plan that holds. *)
LEMMA NextNodeMatched ==
    ASSUME NEW d, Sound(d), NEW r, PlanHolds(d, r), NEW a \in r.nodes,
           NEW e, Sound(e), HalfDone(d, r, a + 1, e), Len(e.journal) < MaxActions,
           NEW f, f = NextNode(e, r, a), f # Failed
    PROVE  HalfDone(d, r, a, f)
  <1> DEFINE G == Generation(e, a)
  <1>1. /\ WellTyped(d) /\ WellTyped(e) /\ a \in DOMAIN d.journal /\ DomainIn(d, a) /\ Active(d, a)
        /\ DOMAIN d.journal = 1..Len(d.journal) /\ Len(d.journal) \in Nat
        /\ r.nodes \in SUBSET (0..Len(d.journal)) /\ r.nodes # {} /\ a \in Nat
        /\ e.balance \in [ BalanceKey -> Int ]
    BY DatabaseFields DEF Sound, PlanHolds, RequestSound
  <1>2. a \notin Done(r, a + 1) /\ Done(r, a) = Done(r, a + 1) \cup {a}
    BY <1>1 DEF Done
  <1>3. a \in DOMAIN e.journal /\ DomainIn(e, a) /\ Active(e, a)
    BY <1>1, <1>2 DEF HalfDone, DomainIn, Active
  <1>4. f = ReversedNode(e, a, G) /\ CoveredWith(e, G, NoAdjustment)
    <2>1. CASE a = FirstNode(r.nodes)
      <3>1. \A b \in r.nodes : b <= a
        BY <1>1, <2>1, FirstNodeIsLargest
      <3>2. Done(r, a + 1) = {}
        BY <1>1, <3>1 DEF Done
      <3>3. e = d
        BY <3>2 DEF HalfDone
      <3>4. r.planned = G /\ CoveredWith(e, G, NoAdjustment)
        BY <2>1, <3>3 DEF PlanHolds
      <3> HIDE DEF G
      <3> QED
        BY <2>1, <3>4 DEF NextNode
    <2>2. CASE a # FirstNode(r.nodes)
      BY <1>3, <2>2 DEF NextNode
    <2> QED
      BY <2>1, <2>2
  <1>5. NodeReversed(e, a, G, f)
    BY <1>1, <1>3, <1>4, ReversedNodeShape
  <1>6. Matched(f)
    BY <1>3, <1>5, NodeMatched DEF HalfDone
  <1>7. NonNegative(d) => NonNegative(f)
    BY <1>1, <1>4, <1>5, NodeNonNegative DEF HalfDone
  <1>8. /\ DOMAIN f.journal = DOMAIN e.journal \cup {Len(e.journal) + 1}
        /\ f.journal[Len(e.journal) + 1].type = "reversal"
        /\ f.journal[a].type = e.journal[a].type /\ f.journal[a].status = "reversed"
        /\ f.journal[a].dependsOn = e.journal[a].dependsOn
        /\ \A b \in DOMAIN e.journal : b # a => f.journal[b] = e.journal[b]
    BY <1>1, <1>3, <1>5, NodeJournal
  <1>9. ASSUME NEW b \in DOMAIN d.journal
        PROVE  /\ b \in DOMAIN f.journal /\ f.journal[b].type = d.journal[b].type
               /\ f.journal[b].dependsOn = d.journal[b].dependsOn
               /\ b \in Done(r, a) => f.journal[b].status = "reversed"
               /\ b \notin Done(r, a) => f.journal[b].status = d.journal[b].status
    <2>1. /\ b \in DOMAIN e.journal /\ e.journal[b].type = d.journal[b].type
          /\ e.journal[b].dependsOn = d.journal[b].dependsOn
          /\ b \in Done(r, a + 1) => e.journal[b].status = "reversed"
          /\ b \notin Done(r, a + 1) => e.journal[b].status = d.journal[b].status
      BY DEF HalfDone
    <2>2. CASE b = a
      BY <1>2, <1>8, <2>1, <2>2
    <2>3. CASE b # a
      BY <1>2, <1>8, <2>1, <2>3
    <2> QED
      BY <2>2, <2>3
  <1>10. \A b \in DOMAIN f.journal : b \in DOMAIN d.journal \/ ~DomainIn(f, b)
    <2> SUFFICES ASSUME NEW b \in DOMAIN f.journal, b \notin DOMAIN d.journal PROVE ~DomainIn(f, b)
      OBVIOUS
    <2>1. CASE b \in DOMAIN e.journal
      BY <1>1, <1>8, <2>1 DEF HalfDone, DomainIn
    <2>2. CASE b = Len(e.journal) + 1
      BY <1>8, <2>2 DEF DomainIn
    <2> QED
      BY <1>8, <2>1, <2>2
  <1> QED
    BY <1>2, <1>6, <1>7, <1>9, <1>10 DEF HalfDone

(* Between the turns of a plan that holds. *)
LEMMA TurnsMatched ==
    ASSUME NEW d, Sound(d), Matched(d), NEW r, PlanHolds(d, r),
           Len(d.journal) + Cardinality(r.nodes) <= MaxActions, NEW g, TurnByTurn(d, r, g),
           NEW i \in 1..(MaxActions + 1), g[i] # Failed
    PROVE  HalfDone(d, r, i, g[i])
  <1> DEFINE N == MaxActions
             Holds(k) == g[k] # Failed => HalfDone(d, r, k, g[k])
             T == { m \in 0..N : Holds(N + 1 - m) }
  <1>1. N \in Nat /\ Len(d.journal) \in Nat /\ r.nodes \subseteq 1..N
        /\ DOMAIN d.journal \subseteq 1..N /\ RequestSound(d, r)
    BY ActionIds, DatabaseFields DEF Sound, RequestSound, PlanHolds
  <1>2. 0 \in T
    <2>1. Done(r, N + 1) = {}
      BY <1>1 DEF Done
    <2>2. g[N + 1] = d
      BY DEF TurnByTurn
    <2>3. HalfDone(d, r, N + 1, d)
      BY <2>1 DEF HalfDone
    <2>4. Holds(N + 1)
      BY <2>2, <2>3
    <2>5. 0 \in 0..N /\ N + 1 - 0 = N + 1
      BY <1>1
    <2> HIDE DEF Holds, N
    <2> QED
      BY <2>4, <2>5
  <1>3. ASSUME NEW m \in 1..N, m - 1 \in T PROVE m \in T
    <2> DEFINE a == N + 1 - m
    <2>1. a \in 1..N /\ a + 1 = N + 1 - (m - 1) /\ m \in 0..N /\ a + 1 \in 1..(N + 1)
      BY <1>1
    <2>2. Holds(a + 1)
      <3> HIDE DEF Holds, a
      <3> QED
        BY <1>3, <2>1
    <2> HIDE DEF a
    <2>3. g[a] = InTurn(g[a + 1], r, a)
      BY <2>1 DEF TurnByTurn
    <2>4. /\ Cardinality(Done(r, a)) \in Nat /\ Cardinality(Done(r, a + 1)) \in Nat
          /\ Cardinality(Done(r, a)) <= Cardinality(r.nodes) /\ Cardinality(r.nodes) \in Nat
          /\ a \in r.nodes => /\ Cardinality(Done(r, a)) = Cardinality(Done(r, a + 1)) + 1
          /\ a \notin r.nodes => Done(r, a) = Done(r, a + 1)
      BY <1>1, <2>1, DoneCount
    <2>5. ASSUME a \notin r.nodes PROVE Holds(a)
      BY <2>2, <2>3, <2>4, <2>5 DEF InTurn, HalfDone
    <2>6. ASSUME a \in r.nodes PROVE Holds(a)
      <3> SUFFICES ASSUME g[a] # Failed PROVE Holds(a)
        OBVIOUS
      <3> DEFINE e == g[a + 1]
                 f == g[a]
      <3>1. f = NextNode(e, r, a) /\ e # Failed
        BY <2>3, <2>6 DEF InTurn, NextNode
      <3>2. HalfDone(d, r, a + 1, e)
        BY <2>2, <3>1
      <3>3. /\ Sound(e)
            /\ Len(e.journal) <= Len(d.journal) + Cardinality(Done(r, a + 1))
        BY <1>1, <2>1, <3>1, TurnsSound
      <3> HIDE DEF e
      <3>4. Len(e.journal) \in Nat
        BY <3>3, DatabaseFields DEF Sound
      <3>5. Len(e.journal) < MaxActions
        BY <1>1, <2>4, <2>6, <3>3, <3>4
      <3>6. f # Failed
        OBVIOUS
      <3> HIDE DEF f
      <3>7. HalfDone(d, r, a, f)
        BY <2>6, <3>1, <3>2, <3>3, <3>5, <3>6, NextNodeMatched
      <3> QED
        BY <3>7 DEF f
    <2>7. Holds(a)
      <3> HIDE DEF Holds
      <3> QED
        BY <2>5, <2>6
    <2> HIDE DEF Holds
    <2> QED
      BY <2>1, <2>7 DEF a
  <1> HIDE DEF T
  <1>4. 0..N \subseteq T
    BY <1>1, <1>2, <1>3, Upwards
  <1>5. N + 1 - i \in T /\ N + 1 - (N + 1 - i) = i
    BY <1>1, <1>4
  <1>6. Holds(i)
    <2> HIDE DEF Holds, N
    <2> QED
      BY <1>5 DEF T
  <1> QED
    BY <1>6

----------------------------------------------------------------------------
(* What is built on an action.                                              *)

(* The positions from a on that are reached from it by active actions. *)
Reached(d, a, g) ==
    g = [ b \in a..Len(d.journal) |->
            b = a \/ (Active(d, b) /\ \E p \in d.journal[b].dependsOn : p >= a /\ g[p]) ]

(* They are well defined, an action depending on earlier ones only. *)
LEMMA ReachedExists ==
    ASSUME NEW d, Sound(d), NEW a \in DOMAIN d.journal
    PROVE  \E g : Reached(d, a, g)
  <1> DEFINE L == Len(d.journal)
             Body(g, b) == b = a \/ (Active(d, b) /\ \E p \in d.journal[b].dependsOn : p >= a /\ g[p])
             Is(m, g) == g = [ b \in a..(a + m) |-> Body(g, b) ]
             T == { m \in 0..(L - a) : \E g : Is(m, g) }
  <1>1. L \in Nat /\ a \in 1..L /\ DOMAIN d.journal = 1..L
    BY DatabaseFields DEF Sound
  <1>2. \A b \in a..L : \A p \in d.journal[b].dependsOn : p \in Nat /\ p < b
    BY <1>1 DEF Sound, JournalSound
  <1> HIDE DEF L
  <1>3. 0 \in T
    <2> DEFINE g == [ b \in a..(a + 0) |-> TRUE ]
    <2>1. \A b \in a..(a + 0) : b = a
      BY <1>1
    <2>2. Is(0, g)
      BY <2>1
    <2>3. 0 \in 0..(L - a)
      BY <1>1
    <2> HIDE DEF Is
    <2> QED
      BY <2>2, <2>3
  <1>4. ASSUME NEW m \in 1..(L - a), m - 1 \in T PROVE m \in T
    <2>1. PICK g : Is(m - 1, g)
      BY <1>4
    <2> DEFINE h == [ b \in a..(a + m) |-> IF b = a + m THEN Body(g, b) ELSE g[b] ]
    <2>2. ASSUME NEW b \in a..(a + m) PROVE h[b] = Body(h, b)
      <3>1. b \in a..L /\ \A p \in d.journal[b].dependsOn : p \in Nat /\ p < b
        BY <1>1, <1>2
      <3>2. \A p \in d.journal[b].dependsOn : p >= a => h[p] = g[p]
        BY <1>1, <3>1
      <3>3. Body(h, b) = Body(g, b)
        BY <3>2
      <3>4. CASE b = a + m
        <4>1. h[b] = Body(g, b)
          BY <3>4
        <4> QED
          BY <3>3, <4>1
      <3>5. CASE b # a + m
        <4>1. b \in a..(a + (m - 1))
          BY <1>1, <3>5
        <4>2. h[b] = g[b] /\ g[b] = Body(g, b)
          BY <2>1, <3>5, <4>1
        <4> QED
          BY <3>3, <4>2
      <3> QED
        BY <3>4, <3>5
    <2>3. h = [ b \in a..(a + m) |-> h[b] ]
      OBVIOUS
    <2> HIDE DEF h
    <2>4. Is(m, h)
      BY <2>2, <2>3
    <2>5. m \in 0..(L - a)
      BY <1>1
    <2> HIDE DEF Is
    <2> QED
      BY <2>4, <2>5
  <1> HIDE DEF T
  <1>5. L - a \in T
    <2>1. L - a \in Nat
      BY <1>1
    <2>2. 0..(L - a) \subseteq T
      BY <1>3, <1>4, <2>1, Upwards
    <2> QED
      BY <2>1, <2>2
  <1>6. PICK g : Is(L - a, g)
    BY <1>5 DEF T
  <1>7. a + (L - a) = L
    BY <1>1
  <1> QED
    BY <1>6, <1>7 DEF Reached, L

(* Whatever active action rests on a, or on something that _cascade_set      *)
(* finds for a, is found by it too, and what it finds is active.            *)
LEMMA CascadeIsClosed ==
    ASSUME NEW d, Sound(d), NEW a \in DOMAIN d.journal
    PROVE  /\ \A b \in ActiveBelow(d, a) : b \in DOMAIN d.journal /\ Active(d, b)
           /\ \A b \in DOMAIN d.journal : \A p \in d.journal[b].dependsOn :
                Active(d, b) /\ p \in {a} \cup ActiveBelow(d, a) => b \in ActiveBelow(d, a)
  <1> DEFINE g == CHOOSE h : Reached(d, a, h)
             L == Len(d.journal)
  <1>1. Reached(d, a, g)
    BY ReachedExists
  <1>2. ActiveBelow(d, a) = { b \in (a + 1)..L : g[b] }
    BY DEF ActiveBelow, Reached
  <1>3. L \in Nat /\ a \in 1..L /\ DOMAIN d.journal = 1..L
    BY DatabaseFields DEF Sound
  <1> HIDE DEF g, L
  <1>4. \A b \in a..L : g[b] <=> b = a \/ (Active(d, b) /\ \E p \in d.journal[b].dependsOn : p >= a /\ g[p])
    BY <1>1 DEF Reached, L
  <1>5. \A b \in (a + 1)..L : b \in a..L /\ b # a /\ b \in DOMAIN d.journal
    BY <1>3
  <1>6. ASSUME NEW b \in ActiveBelow(d, a) PROVE b \in DOMAIN d.journal /\ Active(d, b)
    BY <1>2, <1>4, <1>5
  <1>7. ASSUME NEW b \in DOMAIN d.journal, NEW p \in d.journal[b].dependsOn, Active(d, b),
               p \in {a} \cup ActiveBelow(d, a)
        PROVE  b \in ActiveBelow(d, a)
    <2>1. p \in Nat /\ p < b
      BY <1>3 DEF Sound, JournalSound
    <2>2. p >= a /\ g[p]
      <3>1. CASE p = a
        BY <1>3, <1>4, <3>1
      <3>2. CASE p \in ActiveBelow(d, a)
        BY <1>2, <1>3, <3>2
      <3> QED
        BY <1>7, <3>1, <3>2
    <2>3. b \in (a + 1)..L
      BY <1>3, <2>1, <2>2
    <2> QED
      BY <1>2, <1>4, <1>5, <1>7, <2>2, <2>3
  <1> QED
    BY <1>6, <1>7
----------------------------------------------------------------------------
(* The preview.                                                             *)

(* The virtual walk at action a. *)
WalkAt(d, nodes, w, a) ==
    IF a > MaxActions THEN [ adjustment |-> NoAdjustment, ok |-> TRUE ]
    ELSE InWalk(d, nodes, w[a + 1], a)

(* The virtual walk is well defined. *)
LEMMA WalkExists ==
    ASSUME NEW d, NEW nodes
    PROVE  \E w : /\ \A a \in 1..(MaxActions + 1) : w[a] = WalkAt(d, nodes, w, a)
                  /\ (CascadeCovered(d, nodes) <=> w[1].ok)
  <1> DEFINE start == [ adjustment |-> NoAdjustment, ok |-> TRUE ]
             Body(g) == [ a \in 1..(MaxActions + 1) |->
                            IF a > MaxActions THEN [ adjustment |-> NoAdjustment, ok |-> TRUE ]
                            ELSE IF a \in nodes THEN CoveredNode(d, g[a + 1], a) ELSE g[a + 1] ]
             walk == CHOOSE g : g = Body(g)
  <1>1. \E g : g = Body(g)
    <2>1. PICK g : Turns("preview", d, nodes, start, g)
      BY TurnsExist
    <2>2. \A x, a : Turn("preview", d, nodes, x, a) = IF a \in nodes THEN CoveredNode(d, x, a) ELSE x
      BY DEF Turn, InWalk
    <2>3. g = Body(g)
      BY <2>1, <2>2 DEF Turns
    <2> QED
      BY <2>3
  <1>2. walk = Body(walk)
    BY <1>1
  <1>3. CascadeCovered(d, nodes) <=> walk[1].ok
    BY DEF CascadeCovered
  <1> HIDE DEF walk
  <1>4. \A a \in 1..(MaxActions + 1) : walk[a] = WalkAt(d, nodes, walk, a)
    BY <1>2 DEF WalkAt, InWalk
  <1> QED
    BY <1>3, <1>4

(* A cascade that the preview finds clear can be compensated at every node,  *)
(* and the material of the first one is there.                              *)
LEMMA CoveredCascade ==
    ASSUME NEW d, NEW nodes \in SUBSET (1..MaxActions), nodes # {}, CascadeCovered(d, nodes)
    PROVE  /\ \A n \in nodes : HasCompensator(d, n)
           /\ CoveredWith(d, Generation(d, FirstNode(nodes)), NoAdjustment)
  <1> DEFINE N == MaxActions
             first == FirstNode(nodes)
             Covered == CoveredWith(d, Generation(d, first), NoAdjustment)
  <1>1. N \in Nat /\ first \in nodes /\ \A n \in nodes : n <= first
    <2>1. MaxActions \in Nat /\ nodes \in SUBSET (0..MaxActions)
      BY ActionIds
    <2> QED
      BY <2>1, FirstNodeIsLargest
  <1>2. PICK w : /\ \A a \in 1..(N + 1) : w[a] = WalkAt(d, nodes, w, a)
                 /\ (CascadeCovered(d, nodes) <=> w[1].ok)
    BY WalkExists
  <1> DEFINE Holds(i) == /\ w[i] = [ adjustment |-> w[i].adjustment, ok |-> w[i].ok ]
                         /\ (\A n \in nodes : n < i) => w[i].adjustment = NoAdjustment
                         /\ w[i].ok => /\ \A n \in nodes : n >= i => HasCompensator(d, n)
                                       /\ first >= i => Covered
             T == { m \in 0..N : Holds(N + 1 - m) }
  <1>3. first \in 1..N
    BY <1>1
  <1> HIDE DEF first, Covered
  <1>4. 0 \in T
    <2>1. w[N + 1] = [ adjustment |-> NoAdjustment, ok |-> TRUE ]
      <3>1. N + 1 \in 1..(N + 1) /\ N + 1 > MaxActions
        BY <1>1
      <3> QED
        BY <1>2, <3>1 DEF WalkAt
    <2>2. ~(first >= N + 1) /\ \A n \in nodes : ~(n >= N + 1)
      BY <1>1, <1>3
    <2>3. Holds(N + 1)
      <3>1. w[N + 1].adjustment = NoAdjustment /\ w[N + 1].ok = TRUE
        BY <2>1
      <3>2. w[N + 1] = [ adjustment |-> w[N + 1].adjustment, ok |-> w[N + 1].ok ]
        BY <2>1, <3>1, Zenon
      <3> HIDE DEF N
      <3> QED
        BY <2>2, <3>1, <3>2
    <2>4. 0 \in 0..N /\ N + 1 - 0 = N + 1
      BY <1>1
    <2> HIDE DEF Holds, N
    <2> QED
      BY <2>3, <2>4
  <1>5. ASSUME NEW m \in 1..N, m - 1 \in T PROVE m \in T
    <2> DEFINE a == N + 1 - m
    <2>1. /\ a \in 1..N /\ a + 1 = N + 1 - (m - 1) /\ m \in 0..N /\ ~(a > MaxActions)
          /\ a \in 1..(N + 1)
      BY <1>1
    <2>2. Holds(a + 1)
      <3> HIDE DEF Holds, a
      <3> QED
        BY <1>5, <2>1
    <2> HIDE DEF a
    <2> DEFINE v == w[a + 1]
               G == Generation(d, a)
    <2>3. w[a] = IF a \in nodes THEN CoveredNode(d, v, a) ELSE v
      BY <1>2, <2>1 DEF WalkAt, InWalk
    <2>4. \A n \in nodes : (n >= a <=> n >= a + 1 \/ n = a) /\ (n < a + 1 <=> n < a \/ n = a)
      BY <1>1, <2>1
    <2>5. ASSUME a \notin nodes PROVE Holds(a)
      <3>1. \A n \in nodes : (n >= a <=> n >= a + 1) /\ (n < a + 1 <=> n < a)
        BY <2>4, <2>5
      <3> QED
        BY <1>1, <2>2, <2>3, <2>5, <3>1 DEF first
    <2>6. ASSUME a \in nodes PROVE Holds(a)
      <3>1. v = [ adjustment |-> v.adjustment, ok |-> v.ok ]
        BY <2>2
      <3>2. ~(\A n \in nodes : n < a)
        BY <1>1, <2>6
      <3>3. CASE ~(HasCompensator(d, a) /\ CoveredWith(d, G, v.adjustment))
        <4>1. w[a] = [ v EXCEPT !.ok = FALSE ]
          BY <2>3, <2>6, <3>3 DEF CoveredNode
        <4> HIDE DEF v
        <4>2. w[a] = [ adjustment |-> w[a].adjustment, ok |-> w[a].ok ] /\ w[a].ok = FALSE
          BY <3>1, <4>1
        <4> QED
          BY <3>2, <4>2
      <3>4. CASE HasCompensator(d, a) /\ CoveredWith(d, G, v.adjustment)
        <4>1. PICK x : w[a] = [ v EXCEPT !.adjustment = x ]
          BY <2>3, <2>6, <3>4 DEF CoveredNode
        <4>2. w[a] = [ adjustment |-> w[a].adjustment, ok |-> w[a].ok ] /\ w[a].ok = v.ok
          <5> HIDE DEF v
          <5> QED
            BY <3>1, <4>1
        <4>3. v.ok /\ first >= a => Covered
          <5>1. CASE first >= a + 1
            BY <2>2, <5>1
          <5>2. CASE first = a
            <6>1. \A n \in nodes : n < a + 1
              BY <1>1, <2>1, <5>2 DEF first
            <6>2. v.adjustment = NoAdjustment
              BY <2>2, <6>1
            <6> QED
              BY <3>4, <5>2, <6>2 DEF Covered
          <5> QED
            BY <1>3, <2>1, <5>1, <5>2
        <4>4. v.ok => \A n \in nodes : n >= a => HasCompensator(d, n)
          BY <2>2, <2>4, <3>4
        <4> QED
          BY <3>2, <4>2, <4>3, <4>4
      <3> QED
        BY <3>3, <3>4
    <2>7. Holds(a)
      <3> HIDE DEF Holds
      <3> QED
        BY <2>5, <2>6
    <2> HIDE DEF Holds
    <2> QED
      BY <2>1, <2>7 DEF a
  <1> HIDE DEF T
  <1>6. N \in T /\ N \in 0..N
    BY <1>1, <1>4, <1>5, Upwards
  <1>7. N + 1 - N = 1
    BY <1>1
  <1>8. Holds(1)
    <2> HIDE DEF Holds, N
    <2> QED
      BY <1>6, <1>7 DEF T
  <1>9. w[1].ok /\ \A n \in nodes : n >= 1
    BY <1>2
  <1> QED
    BY <1>3, <1>8, <1>9 DEF Covered, first

(* What a clear preview says of the request that is begun on it: the plan    *)
(* holds, and whatever active action rests on a node is a node.             *)
LEMMA ClearPreview ==
    ASSUME NEW d, Sound(d), NEW a \in DOMAIN d.journal, NEW cascade \in BOOLEAN,
           PreviewClear(d, a, cascade)
    PROVE  LET r == ReversalOf(d, a, cascade) IN
           /\ PlanHolds(d, r)
           /\ \A b \in DOMAIN d.journal : \A p \in d.journal[b].dependsOn :
                Active(d, b) /\ p \in r.nodes => b \in r.nodes
  <1> DEFINE nodes == RevertNodes(d, a, cascade)
             r == ReversalOf(d, a, cascade)
             G == Generation(d, FirstNode(nodes))
  <1>1. /\ WellTyped(d) /\ MaxActions \in Nat /\ DOMAIN d.journal \subseteq 1..MaxActions
        /\ d.ledger \subseteq StockTransaction
    BY DatabaseFields, ActionIds DEF Sound
  <1>2. nodes = {a} \cup ActiveBelow(d, a)
    BY DEF PreviewClear, DependentsAllow, RevertNodes
  <1>3. /\ \A b \in ActiveBelow(d, a) : b \in DOMAIN d.journal /\ Active(d, b)
        /\ \A b \in DOMAIN d.journal : \A p \in d.journal[b].dependsOn :
              Active(d, b) /\ p \in {a} \cup ActiveBelow(d, a) => b \in ActiveBelow(d, a)
    BY CascadeIsClosed
  <1>4. r.target = a /\ r.nodes = nodes /\ r.planned = G
    BY DEF ReversalOf
  <1>5. Active(d, a) /\ CascadeCovered(d, nodes)
    BY DEF PreviewClear
  <1> HIDE DEF nodes, r
  <1>6. /\ nodes \subseteq DOMAIN d.journal /\ nodes # {} /\ \A n \in nodes : Active(d, n)
        /\ nodes \in SUBSET (1..MaxActions)
    BY <1>1, <1>2, <1>3, <1>5
  <1>7. /\ \A n \in nodes : HasCompensator(d, n)
        /\ CoveredWith(d, G, NoAdjustment)
    BY <1>5, <1>6, CoveredCascade
  <1>8. \A n \in nodes : DomainIn(d, n)
    BY <1>7 DEF HasCompensator, ActionCompensable, TaskActionFamily, DomainIn
  <1>9. /\ G \subseteq StockTransaction /\ IsFiniteSet(G)
        /\ \A t \in G : t.action = FirstNode(nodes) /\ t.reverses = NULL
    <2>1. G \subseteq d.ledger /\ \A t \in G : t.action = FirstNode(nodes) /\ t.reverses = NULL
      BY DEF Generation
    <2> HIDE DEF G
    <2>2. IsFiniteSet(G)
      BY <1>1, <2>1, FS_Subset DEF WellTyped
    <2> QED
      BY <1>1, <2>1, <2>2
  <1>10. PlanHolds(d, r)
    BY <1>4, <1>6, <1>7, <1>8, <1>9 DEF PlanHolds, RequestSound
  <1>11. \A b \in DOMAIN d.journal : \A p \in d.journal[b].dependsOn :
            Active(d, b) /\ p \in r.nodes => b \in r.nodes
    BY <1>2, <1>3, <1>4
  <1> QED
    BY <1>10, <1>11 DEF r

(* A reversal that is carried out keeps what always holds. *)
LEMMA ReversalSound ==
    ASSUME NEW d, Sound(d), NEW r, RequestSound(d, r),
           Len(d.journal) + Cardinality(r.nodes) <= MaxActions, Reversed(d, r) # Failed
    PROVE  Sound(Reversed(d, r)) /\ Grown(d, Reversed(d, r))
  <1>1. PICK g : TurnByTurn(d, r, g)
    BY ReversedTurnByTurn
  <1>2. g[1] = Reversed(d, r) /\ 1 \in 1..(MaxActions + 1)
    BY <1>1, ActionIds DEF TurnByTurn
  <1>3. g[1] # Failed
    BY <1>2
  <1>4. Sound(g[1]) /\ Grown(d, g[1])
    BY <1>1, <1>2, <1>3, TurnsSound
  <1> QED
    BY <1>2, <1>4

(* A reversal carried out against the database it was planned on leaves      *)
(* journal and ledger agreeing, nothing built on what it reversed, and no    *)
(* key overdrawn.                                                           *)
LEMMA ReversalMatched ==
    ASSUME NEW d, Sound(d), Matched(d), NothingBuilt(d), NEW r, Current(d, r),
           Len(d.journal) + Cardinality(r.nodes) <= MaxActions, Reversed(d, r) # Failed
    PROVE  LET e == Reversed(d, r) IN
           Matched(e) /\ NothingBuilt(e) /\ (NonNegative(d) => NonNegative(e))
  <1> DEFINE e == Reversed(d, r)
  <1>1. PICK a \in DOMAIN d.journal, cascade \in BOOLEAN :
          PreviewClear(d, a, cascade) /\ r = ReversalOf(d, a, cascade)
    BY DEF Current
  <1>2. /\ PlanHolds(d, r)
        /\ \A b \in DOMAIN d.journal : \A p \in d.journal[b].dependsOn :
              Active(d, b) /\ p \in r.nodes => b \in r.nodes
    BY <1>1, ClearPreview
  <1>3. PICK g : TurnByTurn(d, r, g)
    BY ReversedTurnByTurn
  <1>4. g[1] = e /\ 1 \in 1..(MaxActions + 1) /\ g[1] # Failed
    BY <1>3, ActionIds DEF TurnByTurn
  <1> HIDE DEF e
  <1>5. HalfDone(d, r, 1, g[1])
    BY <1>2, <1>3, <1>4, TurnsMatched
  <1>6. HalfDone(d, r, 1, e)
    BY <1>4, <1>5
  <1>7. /\ DOMAIN d.journal = 1..Len(d.journal) /\ Len(d.journal) \in Nat
        /\ r.nodes \subseteq DOMAIN d.journal
    BY <1>2, DatabaseFields DEF Sound, PlanHolds, RequestSound
  <1>8. Done(r, 1) = r.nodes
    BY <1>7 DEF Done
  <1>9. NothingBuilt(e)
    <2> SUFFICES ASSUME NEW b \in DOMAIN e.journal, DomainIn(e, b), Active(e, b),
                        NEW p \in e.journal[b].dependsOn
                 PROVE  Active(e, p)
      BY DEF NothingBuilt
    <2>1. b \in DOMAIN d.journal
      BY <1>6 DEF HalfDone
    <2>2. /\ b \notin r.nodes /\ Active(d, b) /\ DomainIn(d, b) /\ p \in d.journal[b].dependsOn
      BY <1>6, <1>8, <2>1 DEF HalfDone, Active, DomainIn
    <2>3. p \notin r.nodes /\ Active(d, p)
      BY <1>2, <2>1, <2>2 DEF NothingBuilt
    <2>4. p \in DOMAIN d.journal
      BY <1>7, <2>1, <2>2 DEF Sound, JournalSound
    <2> QED
      BY <1>6, <1>8, <2>3, <2>4 DEF HalfDone, Active
  <1>10. Matched(e) /\ (NonNegative(d) => NonNegative(e))
    BY <1>6 DEF HalfDone
  <1> QED
    BY <1>9, <1>10 DEF e
----------------------------------------------------------------------------
(* The purge.                                                               *)

(* What a purge of action a leaves. *)
Purged(d, a) ==
    [ d EXCEPT !.ledger = @ \ PairsOf(d, a), !.journal[a].status = "purged" ]

(* A purge takes rows in pairs, and what stays keeps its compensations. *)
LEMMA PurgedRows ==
    ASSUME NEW d, Sound(d), NEW a \in DOMAIN d.journal, Purgeable(d, a)
    PROVE  LET L == d.ledger \ PairsOf(d, a)
               T == TransactionsOf(d, a) IN
           /\ \A t \in T : t.reverses = NULL
           /\ T \subseteq PairsOf(d, a)
           /\ \A t \in L : \A c \in d.ledger : c.reverses = t.id => c \in L
           /\ \A c \in L : \A t \in d.ledger : c.reverses = t.id /\ t.reverses = NULL => t \in L
           /\ \A k : LedgerNet(L, k) = LedgerNet(d.ledger, k)
  <1> DEFINE T == TransactionsOf(d, a)
             C == UNION { Compensations(d, t) : t \in T }
             P == PairsOf(d, a)
             L == d.ledger \ P
  <1>1. /\ \A t \in d.ledger : t.id \in Nat /\ t.id # NULL
        /\ \A t, u \in d.ledger : t.id = u.id => t = u
        /\ IsFiniteSet(d.ledger)
    BY DatabaseFields DEF Sound, WellTyped
  <1>2. P = T \cup C
    BY DEF PairsOf
  <1>3. T \subseteq d.ledger /\ \A t \in d.ledger : t \in T <=> t.action = a
    BY DEF TransactionsOf
  <1>4. C \subseteq d.ledger /\ (\A c \in d.ledger : c \in C <=> \E t \in T : c.reverses = t.id)
    BY DEF Compensations
  <1>5. \A t \in T : t.reverses = NULL
    <2>1. DomainIn(d, a)
      BY DEF Purgeable, Sound, JournalSound, Active
    <2> QED
      BY <1>3, <2>1 DEF Sound, Attributed
  <1>6. \A t \in T : \E c : Compensations(d, t) = {c}
    <2> SUFFICES ASSUME NEW t \in T PROVE \E c : Compensations(d, t) = {c}
      OBVIOUS
    <2>1. Cardinality(Compensations(d, t)) = 1
      BY DEF Purgeable
    <2>2. IsFiniteSet(Compensations(d, t))
      BY <1>1, FS_Subset DEF Compensations
    <2> QED
      BY <2>1, <2>2, FS_Singleton
  <1>7. \A t \in T : \A c \in Compensations(d, t) :
          /\ c \in C /\ c \in d.ledger /\ c.reverses = t.id /\ c.quantity = t.quantity
          /\ FromKey(c) = ToKey(t) /\ ToKey(c) = FromKey(t)
    <2> SUFFICES ASSUME NEW t \in T, NEW c \in Compensations(d, t)
                 PROVE  /\ c \in C /\ c \in d.ledger /\ c.reverses = t.id /\ c.quantity = t.quantity
                        /\ FromKey(c) = ToKey(t) /\ ToKey(c) = FromKey(t)
      OBVIOUS
    <2>1. c \in C /\ c \in d.ledger /\ c.reverses = t.id /\ c.reverses # NULL
      BY <1>1, <1>3 DEF Compensations
    <2>2. PICK s \in d.ledger : Source(d, c, s)
      BY <2>1 DEF Sound, Attributed
    <2>3. s = t
      BY <1>1, <1>3, <2>1, <2>2 DEF Source
    <2> QED
      BY <2>1, <2>2, <2>3 DEF Source
  <1>8. \A c \in C : \E t \in T : c \in Compensations(d, t)
    OBVIOUS
  <1> HIDE DEF T, C, P
  <1>9. T \cap C = {}
    BY <1>1, <1>3, <1>4, <1>5
  <1> DEFINE f == [ t \in T |-> CHOOSE c : c \in Compensations(d, t) ]
  <1>10. \A t \in T : f[t] \in Compensations(d, t) /\ \A c \in Compensations(d, t) : c = f[t]
    BY <1>6
  <1>11. f \in Bijection(T, C)
    <2>1. f = [ t \in T |-> f[t] ]
      OBVIOUS
    <2> HIDE DEF f
    <2>2. f \in [ T -> C ]
      BY <1>7, <1>10, <2>1
    <2>3. \A t, u \in T : f[t] = f[u] => t = u
      BY <1>1, <1>3, <1>7, <1>10
    <2>4. \A c \in C : \E t \in T : f[t] = c
      BY <1>8, <1>10
    <2> QED
      BY <2>2, <2>3, <2>4 DEF Bijection, Injection, Surjection, IsInjective
  <1>12. \A t \in T : /\ f[t].quantity = t.quantity
                      /\ FromKey(f[t]) = ToKey(t) /\ ToKey(f[t]) = FromKey(t)
    BY <1>7, <1>10
  <1> HIDE DEF f
  <1>13. ASSUME NEW k PROVE LedgerNet(L, k) = LedgerNet(d.ledger, k)
    <2>1. T \in SUBSET d.ledger /\ C \in SUBSET d.ledger
      BY <1>3, <1>4
    <2>2. LedgerNet(d.ledger \ (T \cup C), k) = LedgerNet(d.ledger, k)
      BY <1>1, <1>9, <1>11, <1>12, <2>1, MirroredPairsCancel
    <2> QED
      BY <1>2, <2>2
  <1>14. \A t \in L : \A c \in d.ledger : c.reverses = t.id => c \in L
    <2> SUFFICES ASSUME NEW t \in d.ledger, t \notin P, NEW c \in d.ledger, c.reverses = t.id, c \in P
                 PROVE  FALSE
      OBVIOUS
    <2>1. c \notin T
      BY <1>1, <1>5
    <2>2. PICK s \in T : c.reverses = s.id
      BY <1>2, <1>4, <2>1
    <2>3. s = t
      BY <1>1, <1>3, <2>2
    <2> QED
      BY <1>2, <2>2, <2>3
  <1>15. \A c \in L : \A t \in d.ledger : c.reverses = t.id /\ t.reverses = NULL => t \in L
    <2> SUFFICES ASSUME NEW c \in d.ledger, c \notin P, NEW t \in d.ledger, c.reverses = t.id,
                        t.reverses = NULL, t \in P
                 PROVE  FALSE
      OBVIOUS
    <2>1. t \notin C
      BY <1>1, <1>3, <1>4
    <2>2. t \in T
      BY <1>2, <2>1
    <2> QED
      BY <1>2, <1>4, <2>2
  <1> QED
    BY <1>2, <1>5, <1>13, <1>14, <1>15 DEF T, P

(* The database after a purge. *)
LEMMA PurgedShape ==
    ASSUME NEW d, Sound(d), NEW a \in DOMAIN d.journal, Purgeable(d, a)
    PROVE  LET e == Purged(d, a) IN
           /\ WellTyped(e) /\ e.balance = d.balance /\ e.ledger = d.ledger \ PairsOf(d, a)
           /\ DOMAIN e.journal = DOMAIN d.journal
           /\ \A b \in DOMAIN d.journal :
                /\ e.journal[b].type = d.journal[b].type /\ e.journal[b].ref = d.journal[b].ref
                /\ e.journal[b].dependsOn = d.journal[b].dependsOn
                /\ e.journal[b].reversedBy = d.journal[b].reversedBy
                /\ b # a => e.journal[b].status = d.journal[b].status
           /\ e.journal[a].status = "purged" /\ d.journal[a].status = "reversed"
           /\ \A t \in e.ledger : Compensations(e, t) = Compensations(d, t)
           /\ \A b : TransactionsOf(e, b) \subseteq TransactionsOf(d, b)
           /\ TransactionsOf(e, a) = {}
  <1> DEFINE L == d.ledger \ PairsOf(d, a)
             J == [ d.journal EXCEPT ![a].status = "purged" ]
             e == Purged(d, a)
  <1>1. /\ d.journal \in Seq(JournalEntry) /\ Len(d.journal) \in 0..MaxActions
        /\ DOMAIN d.journal = 1..Len(d.journal)
        /\ \A b \in DOMAIN d.journal : d.journal[b] \in JournalEntry
        /\ d.ledger \subseteq StockTransaction /\ d.nextId \in Nat
        /\ d.balance \in [ BalanceKey -> Int ]
        /\ d = [ journal |-> d.journal, ledger |-> d.ledger, balance |-> d.balance,
                 nextId |-> d.nextId ]
    BY DatabaseFields DEF Sound
  <1>2. /\ \A t \in L : \A c \in d.ledger : c.reverses = t.id => c \in L
        /\ TransactionsOf(d, a) \subseteq PairsOf(d, a)
        /\ \A k : LedgerNet(L, k) = LedgerNet(d.ledger, k)
    BY PurgedRows
  <1>3. /\ J \in Seq(JournalEntry) /\ Len(J) = Len(d.journal) /\ DOMAIN J = DOMAIN d.journal
        /\ \A b \in DOMAIN d.journal : b # a => J[b] = d.journal[b]
        /\ J[a] = [ d.journal[a] EXCEPT !.status = "purged" ]
    <2>1. J = [ d.journal EXCEPT ![a] = [ d.journal[a] EXCEPT !.status = "purged" ] ]
      BY <1>1
    <2>2. [ d.journal[a] EXCEPT !.status = "purged" ] \in JournalEntry
      BY <1>1 DEF JournalEntry, Status
    <2>3. J \in Seq(JournalEntry) /\ Len(J) = Len(d.journal)
      BY <1>1, <2>1, <2>2, ExceptSeq
    <2> QED
      BY <1>1, <2>1, <2>3
  <1>4. /\ J[a].status = "purged" /\ J[a].type = d.journal[a].type /\ J[a].ref = d.journal[a].ref
        /\ J[a].dependsOn = d.journal[a].dependsOn /\ J[a].reversedBy = d.journal[a].reversedBy
    BY <1>1, <1>3 DEF JournalEntry
  <1>5. e = [ journal |-> J, ledger |-> L, balance |-> d.balance, nextId |-> d.nextId ]
    <2> DEFINE y == [ d EXCEPT !.ledger = L ]
    <2>1. y = [ journal |-> d.journal, ledger |-> L, balance |-> d.balance, nextId |-> d.nextId ]
      <3> HIDE DEF L
      <3> QED
        BY <1>1
    <2>2. e = [ y EXCEPT !.journal = J ]
      BY DEF Purged
    <2> HIDE DEF y, J, e
    <2> QED
      BY <2>1, <2>2
  <1> HIDE DEF J, e
  <1>6. e.journal = J /\ e.ledger = L /\ e.balance = d.balance /\ e.nextId = d.nextId
    BY <1>5
  <1>7. WellTyped(e)
    <2>1. IsFiniteSet(L)
      BY FS_Subset DEF Sound, WellTyped
    <2>2. e \in Database
      BY <1>1, <1>3, <1>5 DEF Database
    <2>3. Exact(e.balance, e.ledger)
      <3> HIDE DEF L
      <3> QED
        BY <1>2, <1>6 DEF Sound, WellTyped, Exact
    <2> QED
      BY <1>1, <1>3, <1>6, <2>1, <2>2, <2>3 DEF Sound, WellTyped
  <1>8. \A t \in L : Compensations(e, t) = Compensations(d, t)
    BY <1>2, <1>6 DEF Compensations
  <1>9. \A b : TransactionsOf(e, b) \subseteq TransactionsOf(d, b)
    BY <1>6 DEF TransactionsOf
  <1>10. TransactionsOf(e, a) = {}
    BY <1>2, <1>6 DEF TransactionsOf
  <1> QED
    BY <1>3, <1>4, <1>6, <1>7, <1>8, <1>9, <1>10 DEF e, Purgeable

(* A purge keeps what always holds. *)
LEMMA PurgedSound ==
    ASSUME NEW d, Sound(d), NEW a \in DOMAIN d.journal, Purgeable(d, a)
    PROVE  Sound(Purged(d, a)) /\ Grown(d, Purged(d, a))
  <1> DEFINE e == Purged(d, a)
  <1>1. /\ WellTyped(e) /\ e.ledger = d.ledger \ PairsOf(d, a)
        /\ DOMAIN e.journal = DOMAIN d.journal
        /\ \A b \in DOMAIN d.journal :
             /\ e.journal[b].type = d.journal[b].type /\ e.journal[b].ref = d.journal[b].ref
             /\ e.journal[b].dependsOn = d.journal[b].dependsOn
             /\ e.journal[b].reversedBy = d.journal[b].reversedBy
             /\ b # a => e.journal[b].status = d.journal[b].status
        /\ e.journal[a].status = "purged" /\ d.journal[a].status = "reversed"
        /\ \A t \in e.ledger : Compensations(e, t) = Compensations(d, t)
        /\ \A b : TransactionsOf(e, b) \subseteq TransactionsOf(d, b)
        /\ TransactionsOf(e, a) = {}
    BY PurgedShape
  <1>2. \A c \in d.ledger \ PairsOf(d, a) : \A t \in d.ledger :
           c.reverses = t.id /\ t.reverses = NULL => t \in d.ledger \ PairsOf(d, a)
    BY PurgedRows
  <1>8. \A t \in d.ledger : t.id # NULL
    BY DatabaseFields DEF Sound
  <1> HIDE DEF e
  <1>3. Attributed(e)
    <2>1. ASSUME NEW c \in e.ledger, c.reverses # NULL
          PROVE  /\ c.action \in DOMAIN e.journal /\ ~DomainIn(e, c.action)
                 /\ \E t \in e.ledger : Source(e, c, t)
      <3>1. c \in d.ledger
        BY <1>1
      <3>2. PICK t \in d.ledger : Source(d, c, t)
        BY <2>1, <3>1 DEF Sound, Attributed
      <3>3. t \in e.ledger
        BY <1>1, <1>2, <3>2 DEF Source
      <3>4. Source(e, c, t)
        BY <3>2, <3>3 DEF Source
      <3> QED
        BY <1>1, <2>1, <3>1, <3>3, <3>4 DEF Sound, Attributed, DomainIn
    <2>2. \A t \in e.ledger : t.reverses = NULL /\ t.action # NULL =>
            t.action \in DOMAIN e.journal /\ DomainIn(e, t.action)
      BY <1>1 DEF Sound, Attributed, DomainIn
    <2> QED
      BY <2>1, <2>2 DEF Attributed
  <1>4. \A b : Generation(e, b) \subseteq Generation(d, b) /\ Generation(e, b) \subseteq TransactionsOf(e, b)
    BY <1>1 DEF Generation, TransactionsOf
  <1>5. JournalSound(e)
    <2> SUFFICES ASSUME NEW b \in DOMAIN e.journal
                 PROVE  /\ e.journal[b].dependsOn \subseteq 1..(b - 1)
                        /\ ~DomainIn(e, b) => Active(e, b) /\ e.journal[b].reversedBy = NULL
                        /\ ~Active(e, b) => Generation(e, b) = {}
                        /\ e.journal[b].status = "purged" => TransactionsOf(e, b) = {}
      BY DEF JournalSound
    <2>1. CASE b = a
      BY <1>1, <1>4, <2>1 DEF Sound, JournalSound, DomainIn, Active
    <2>2. CASE b # a
      <3>1. TransactionsOf(e, b) \subseteq TransactionsOf(d, b) /\ Generation(e, b) \subseteq Generation(d, b)
        BY <1>1, <1>4
      <3> QED
        BY <1>1, <2>2, <3>1 DEF Sound, JournalSound, DomainIn, Active
    <2> QED
      BY <2>1, <2>2
  <1>6. Grown(d, e)
    BY <1>1, <1>4 DEF Grown
  <1>7. Ordered(e)
    <2>1. ASSUME NEW t \in e.ledger, t.reverses = NULL, t.action # NULL
          PROVE  \E o \in DomainOperations : /\ e.journal[t.action].type = o.type
                                             /\ e.journal[t.action].ref = o.ref /\ RowOf(o, t)
      <3>1. t \in d.ledger /\ t.action \in DOMAIN d.journal
        BY <1>1, <2>1 DEF Sound, Attributed
      <3> QED
        BY <1>1, <2>1, <3>1 DEF Sound, Ordered
    <2>2. ASSUME NEW b \in DOMAIN e.journal, DomainIn(e, b)
          PROVE  /\ Active(e, b) => TransactionsOf(e, b) # {}
                 /\ \A p \in e.journal[b].dependsOn :
                      /\ e.journal[b].type \in TaskActionFamily
                      /\ e.journal[p].type \in TaskActionFamily
                      /\ e.journal[p].ref = e.journal[b].ref
      <3>1. b \in DOMAIN d.journal /\ DomainIn(d, b)
        BY <1>1, <2>2 DEF DomainIn
      <3>2. \A p \in d.journal[b].dependsOn : p \in DOMAIN d.journal
        BY <3>1, DatabaseFields DEF Sound, JournalSound
      <3>3. ASSUME Active(e, b) PROVE TransactionsOf(e, b) # {}
        <4>1. b # a /\ Active(d, b)
          BY <1>1, <3>1, <3>3 DEF Active
        <4>2. PICK t \in d.ledger : t.action = b
          BY <3>1, <4>1 DEF Sound, Ordered, TransactionsOf
        <4>3. t.reverses = NULL
          BY <3>1, <4>2 DEF Sound, Attributed
        <4>4. t \notin PairsOf(d, a)
          BY <1>8, <4>1, <4>2, <4>3 DEF PairsOf, TransactionsOf, Compensations
        <4> QED
          BY <1>1, <4>2, <4>4 DEF TransactionsOf
      <3> QED
        BY <1>1, <3>1, <3>2, <3>3 DEF Sound, Ordered
    <2> QED
      BY <2>1, <2>2 DEF Ordered
  <1> QED
    BY <1>1, <1>3, <1>5, <1>6, <1>7 DEF Sound, e

(* A purge leaves journal and ledger agreeing. *)
LEMMA PurgedMatched ==
    ASSUME NEW d, Sound(d), Matched(d), NothingBuilt(d), NEW a \in DOMAIN d.journal, Purgeable(d, a)
    PROVE  /\ Matched(Purged(d, a)) /\ NothingBuilt(Purged(d, a))
           /\ NonNegative(d) => NonNegative(Purged(d, a))
  <1> DEFINE e == Purged(d, a)
  <1>1. /\ e.ledger = d.ledger \ PairsOf(d, a) /\ e.balance = d.balance
        /\ DOMAIN e.journal = DOMAIN d.journal
        /\ \A b \in DOMAIN d.journal :
             /\ e.journal[b].type = d.journal[b].type
             /\ e.journal[b].dependsOn = d.journal[b].dependsOn
             /\ e.journal[b].reversedBy = d.journal[b].reversedBy
             /\ b # a => e.journal[b].status = d.journal[b].status
        /\ e.journal[a].status = "purged" /\ d.journal[a].status = "reversed"
        /\ \A t \in e.ledger : Compensations(e, t) = Compensations(d, t)
        /\ \A b : TransactionsOf(e, b) \subseteq TransactionsOf(d, b)
        /\ TransactionsOf(e, a) = {}
    BY PurgedShape
  <1>2. \A t \in e.ledger : \A c \in d.ledger : c.reverses = t.id => c \in e.ledger
    BY <1>1, PurgedRows
  <1> HIDE DEF e
  <1>3. \A b : \A t \in TransactionsOf(e, b) : t \in e.ledger /\ t \in TransactionsOf(d, b)
                                               /\ Compensations(e, t) = Compensations(d, t)
    BY <1>1 DEF TransactionsOf
  <1>4. \A t, c : t \in e.ledger /\ c \in Compensations(d, t) => c \in e.ledger
    BY <1>2 DEF Compensations
  <1>5. \A b \in DOMAIN d.journal : /\ Active(e, b) <=> Active(d, b)
                                    /\ DomainIn(e, b) <=> DomainIn(d, b)
    BY <1>1 DEF Active, DomainIn
  <1>6. ASSUME NEW b \in DOMAIN e.journal
        PROVE  /\ Active(e, b) =>
                    /\ e.journal[b].reversedBy = NULL
                    /\ DomainIn(e, b) => \A t \in TransactionsOf(e, b) : Compensations(e, t) = {}
               /\ e.journal[b].status = "reversed" =>
                    \A t \in TransactionsOf(e, b) : \E c \in e.ledger : Compensations(e, t) = {c}
               /\ ~Active(e, b) => e.journal[b].reversedBy \in DOMAIN e.journal
                                   /\ ~DomainIn(e, e.journal[b].reversedBy)
               /\ ~DomainIn(e, b) => \E n \in DOMAIN e.journal : e.journal[n].reversedBy = b
    <2>1. e.journal[b].status = "reversed" =>
            \A t \in TransactionsOf(e, b) : \E c \in e.ledger : Compensations(e, t) = {c}
      <3> SUFFICES ASSUME e.journal[b].status = "reversed", NEW t \in TransactionsOf(e, b)
                   PROVE  \E c \in e.ledger : Compensations(e, t) = {c}
        OBVIOUS
      <3>1. d.journal[b].status = "reversed" /\ b \in DOMAIN d.journal
        BY <1>1
      <3>2. PICK c \in d.ledger : Compensations(d, t) = {c}
        BY <1>3, <3>1 DEF Matched
      <3> QED
        BY <1>3, <1>4, <3>2
    <2> QED
      BY <1>1, <1>3, <1>5, <2>1 DEF Matched
  <1>7. \A b, n \in DOMAIN e.journal :
           e.journal[b].reversedBy = e.journal[n].reversedBy => e.journal[b].reversedBy = NULL \/ b = n
    BY <1>1 DEF Matched
  <1>8. ASSUME NEW t \in e.ledger, NEW c \in Compensations(e, t)
        PROVE  e.journal[t.action].reversedBy = c.action
    <2>1. t \in d.ledger /\ c \in d.ledger /\ c \in Compensations(d, t) /\ c.reverses = t.id
      BY <1>1 DEF Compensations
    <2>2. d.journal[t.action].reversedBy = c.action
      BY <2>1 DEF Matched
    <2>3. c.reverses # NULL
      BY <2>1, DatabaseFields DEF Sound
    <2>4. PICK s \in d.ledger : Source(d, c, s)
      BY <2>1, <2>3 DEF Sound, Attributed
    <2>5. s = t
      BY <2>1, <2>4 DEF Source, Sound, WellTyped
    <2>6. t.action \in DOMAIN d.journal
      BY <2>4, <2>5 DEF Sound, Attributed, Source
    <2> QED
      BY <1>1, <2>2, <2>6
  <1>9. Matched(e)
    BY <1>6, <1>7, <1>8 DEF Matched
  <1>10. NothingBuilt(e)
    <2> SUFFICES ASSUME NEW b \in DOMAIN e.journal, DomainIn(e, b), Active(e, b),
                        NEW p \in e.journal[b].dependsOn
                 PROVE  Active(e, p)
      BY DEF NothingBuilt
    <2>1. Active(d, p) /\ p \in d.journal[b].dependsOn
      BY <1>1, <1>5 DEF NothingBuilt
    <2>2. p \in DOMAIN d.journal
      BY <1>1, <2>1, DatabaseFields DEF Sound, JournalSound
    <2> QED
      BY <1>5, <2>1, <2>2
  <1>11. NonNegative(d) => NonNegative(e)
    BY <1>1 DEF NonNegative
  <1> QED
    BY <1>9, <1>10, <1>11 DEF e
----------------------------------------------------------------------------
(* The invariant.                                                           *)

(* The largest id of a finite ledger is a number. *)
LEMMA LargestId ==
    ASSUME NEW d, WellTyped(d), d.ledger # {}
    PROVE  Max({ t.id : t \in d.ledger }) \in Nat
  <1> DEFINE S == { t.id : t \in d.ledger }
  <1>1. /\ S # {} /\ S \in SUBSET (0..d.nextId) /\ d.nextId \in Nat
        /\ \A x \in S : x \in Nat
    <2>1. d.nextId \in Nat /\ \A t \in d.ledger : t.id \in Nat /\ t.id < d.nextId
      BY DatabaseFields
    <2> QED
      BY <2>1
  <1> HIDE DEF S
  <1>2. FirstNode(S) \in S /\ \A b \in S : b <= FirstNode(S)
    BY <1>1, FirstNodeIsLargest
  <1>3. \E x \in S : \A y \in S : x >= y
    BY <1>1, <1>2
  <1>4. Max(S) \in S
    BY <1>3 DEF Max
  <1>5. Max(S) \in Nat
    BY <1>1, <1>4, Zenon
  <1> QED
    BY <1>5 DEF S

(* The snapshot of the world of a plan token. *)
LEMMA FingerprintType ==
    ASSUME NEW d, Sound(d), NEW nodes \in SUBSET (DOMAIN d.journal)
    PROVE  Fingerprint(d, nodes) \in [ tx : Nat, act : Nat, statuses : SUBSET (Actions \X Status) ]
  <1>1. /\ WellTyped(d) /\ Len(d.journal) \in Nat /\ DOMAIN d.journal \subseteq Actions
        /\ \A n \in DOMAIN d.journal : d.journal[n].status \in Status
    <2>1. /\ WellTyped(d) /\ Len(d.journal) \in Nat /\ DOMAIN d.journal \subseteq Actions
          /\ \A n \in DOMAIN d.journal : d.journal[n] \in JournalEntry
      BY DatabaseFields DEF Sound
    <2> QED
      BY <2>1 DEF JournalEntry
  <1>2. (IF d.ledger = {} THEN 0 ELSE Max({ t.id : t \in d.ledger })) \in Nat
    BY <1>1, LargestId
  <1>3. { << n, d.journal[n].status >> : n \in nodes } \in SUBSET (Actions \X Status)
    BY <1>1
  <1> QED
    BY <1>1, <1>2, <1>3 DEF Fingerprint

(* A request that has been committed, and those of the workers W ended: the  *)
(* others are no worse off, and if there are others the plans may be stale. *)
LEMMA Committed ==
    ASSUME JournalInv, NEW W, Commits(W), Sound(db'), Grown(db, db'), token' = token,
           request' = [ w \in Workers |-> IF w \in W THEN NULL ELSE request[w] ],
           ~overlapped => Matched(db') /\ NothingBuilt(db')
    PROVE  JournalInv'
  <1>1. overlapped' \in BOOLEAN
    BY DEF Commits
  <1>2. ~overlapped' => ~overlapped /\ \A v \in Workers : request'[v] = NULL
    BY DEF Commits
  <1>3. token # NULL => token.action \in DOMAIN db'.journal
    BY DEF JournalInv, Grown
  <1>4. ASSUME NEW w \in Workers, request'[w] # NULL PROVE RequestSound(db', request'[w])
    <2>1. request'[w] = request[w] /\ RequestSound(db, request[w])
      BY <1>4 DEF JournalInv
    <2> QED
      BY <2>1, RequestKept DEF JournalInv, Sound
  <1>5. request' = [ w \in Workers |-> request'[w] ]
    OBVIOUS
  <1> QED
    BY <1>1, <1>2, <1>3, <1>4, <1>5 DEF JournalInv

(* The first state. *)
LEMMA JournalInvInit == Init => JournalInv
  <1> SUFFICES ASSUME Init PROVE JournalInv
    OBVIOUS
  <1>1. /\ db.journal = << >> /\ db.ledger = InitialLedger
        /\ db.balance = [ k \in BalanceKey |->
                            IF Materialised(k) THEN LedgerNet(InitialLedger, k) ELSE 0 ]
        /\ db.nextId = Cardinality(InitialLedger) + 1
        /\ db = [ journal |-> db.journal, ledger |-> db.ledger, balance |-> db.balance,
                  nextId |-> db.nextId ]
    BY DEF Init
  <1>2. /\ InitialLedger \subseteq StockTransaction /\ IsFiniteSet(InitialLedger)
        /\ Cardinality(InitialLedger) \in Nat
        /\ \A t \in InitialLedger : /\ t.id \in 1..Cardinality(InitialLedger) /\ t.id # NULL
                                    /\ t.action = NULL /\ t.reverses = NULL
        /\ \A t, u \in InitialLedger : t.id = u.id => t = u
    BY ReversalJournalConstants, FS_CardinalityType, LedgerConstants
  <1>3. << >> \in Seq(JournalEntry) /\ Len(<< >>) = 0 /\ DOMAIN << >> = {} /\ MaxActions \in Nat
    BY ActionIds
  <1>4. db \in Database
    <2>1. db.balance \in [ BalanceKey -> Int ]
      BY <1>1, <1>2, SidesFinite
    <2>2. /\ db.journal \in Seq(JournalEntry) /\ db.ledger \in SUBSET StockTransaction
          /\ db.nextId \in Nat
      BY <1>1, <1>2, <1>3
    <2>3. [ journal |-> db.journal, ledger |-> db.ledger, balance |-> db.balance,
            nextId |-> db.nextId ] \in Database
      BY <2>1, <2>2 DEF Database
    <2> QED
      BY <1>1, <2>3, Zenon
  <1>5. WellTyped(db)
    BY <1>1, <1>2, <1>3, <1>4 DEF WellTyped, Exact
  <1>6. Sound(db)
    BY <1>1, <1>2, <1>3, <1>5 DEF Sound, Attributed, JournalSound, Ordered
  <1>7. Matched(db) /\ NothingBuilt(db)
    BY <1>1, <1>2, <1>3 DEF Matched, NothingBuilt, Compensations
  <1>8. /\ token = NULL /\ overlapped = FALSE /\ request = [ w \in Workers |-> NULL ]
    BY DEF Init
  <1> QED
    BY <1>6, <1>7, <1>8 DEF JournalInv, Nullable

(* A domain operation. *)
LEMMA InvPerform ==
    ASSUME JournalInv, NEW o \in DomainOperations, Perform(o)
    PROVE  /\ JournalInv'
           /\ ~overlapped /\ NothingForced /\ NonNegative(db) => NonNegative(db')
  <1>1. /\ Len(db.journal) < MaxActions /\ db' = Performed(db, o) /\ Performed(db, o) # Failed
        /\ Commits({}) /\ token' = token /\ request' = request
    BY DEF Perform
  <1>2. Sound(db') /\ Grown(db, db')
    BY <1>1, PerformedSound DEF JournalInv
  <1>3. ~overlapped => /\ Matched(db') /\ NothingBuilt(db')
                       /\ NothingForced /\ NonNegative(db) => NonNegative(db')
    BY <1>1, PerformedMatched DEF JournalInv
  <1>4. request' = [ w \in Workers |-> IF w \in {} THEN NULL ELSE request[w] ]
    BY <1>1 DEF JournalInv
  <1>5. JournalInv'
    BY <1>1, <1>2, <1>3, <1>4, Committed
  <1> QED
    BY <1>3, <1>5

(* A preview hands out a token. *)
LEMMA InvPreviewReverse ==
    ASSUME JournalInv, NEW a \in DOMAIN db.journal, NEW cascade \in BOOLEAN, PreviewReverse(a, cascade)
    PROVE  JournalInv'
  <1> DEFINE nodes == RevertNodes(db, a, cascade)
             fp == Fingerprint(db, nodes)
  <1>1. /\ token' = [ kind |-> "reverse", action |-> a, cascade |-> cascade, fp |-> fp ]
        /\ db' = db /\ request' = request /\ overlapped' = overlapped
    BY DEF PreviewReverse
  <1>2. DOMAIN db.journal \subseteq Actions
    BY DatabaseFields DEF JournalInv, Sound
  <1>3. nodes \in SUBSET (DOMAIN db.journal)
    BY CascadeIsClosed DEF JournalInv, RevertNodes
  <1>4. fp \in [ tx : Nat, act : Nat, statuses : SUBSET (Actions \X Status) ]
    BY <1>3, FingerprintType DEF JournalInv
  <1> HIDE DEF fp
  <1>5. token' \in PlanToken /\ token'.action = a
    BY <1>1, <1>2, <1>4 DEF PlanToken
  <1> QED
    BY <1>1, <1>5 DEF JournalInv, Nullable

(* A dry run of a purge does too. *)
LEMMA InvDryRunPurge ==
    ASSUME JournalInv, NEW a \in DOMAIN db.journal, DryRunPurge(a)
    PROVE  JournalInv'
  <1> DEFINE fp == Fingerprint(db, {a})
  <1>1. /\ token' = [ kind |-> "purge", action |-> a, cascade |-> FALSE, fp |-> fp ]
        /\ db' = db /\ request' = request /\ overlapped' = overlapped
    BY DEF DryRunPurge
  <1>2. DOMAIN db.journal \subseteq Actions
    BY DatabaseFields DEF JournalInv, Sound
  <1>3. fp \in [ tx : Nat, act : Nat, statuses : SUBSET (Actions \X Status) ]
    BY FingerprintType DEF JournalInv
  <1> HIDE DEF fp
  <1>4. token' \in PlanToken /\ token'.action = a
    BY <1>1, <1>2, <1>3 DEF PlanToken
  <1> QED
    BY <1>1, <1>4 DEF JournalInv, Nullable

(* A confirmed reversal reads its plan. *)
LEMMA InvBeginReverse ==
    ASSUME JournalInv, NEW w \in Workers, BeginReverse(w)
    PROVE  JournalInv'
  <1> DEFINE a == token.action
             cascade == token.cascade
             r == ReversalOf(db, a, cascade)
  <1>1. /\ token # NULL /\ PreviewClear(db, a, cascade)
        /\ request' = [ request EXCEPT ![w] = r ]
        /\ db' = db /\ token' = token /\ overlapped' = overlapped
    BY DEF BeginReverse, HoldsToken
  <1>2. a \in DOMAIN db.journal /\ cascade \in BOOLEAN
    BY <1>1 DEF JournalInv, Nullable, PlanToken
  <1> HIDE DEF a, cascade
  <1>3. RequestSound(db, r) /\ Current(db, r)
    <2>1. PlanHolds(db, r)
      BY <1>1, <1>2, ClearPreview DEF JournalInv
    <2> QED
      BY <1>1, <1>2, <2>1 DEF PlanHolds, Current
  <1> HIDE DEF r
  <1>4. /\ request' = [ v \in Workers |-> request'[v] ]
        /\ \A v \in Workers : request'[v] = IF v = w THEN r ELSE request[v]
    BY <1>1 DEF JournalInv
  <1> QED
    BY <1>1, <1>3, <1>4 DEF JournalInv

(* A confirmed reversal is carried out. *)
LEMMA InvFinishReverse ==
    ASSUME JournalInv, NEW w \in Workers, FinishReverse(w)
    PROVE  /\ JournalInv'
           /\ ~overlapped /\ NonNegative(db) => NonNegative(db')
  <1> DEFINE r == request[w]
  <1>1. /\ r # NULL /\ Len(db.journal) + Cardinality(r.nodes) <= MaxActions
        /\ Reversed(db, r) # Failed /\ db' = Reversed(db, r)
        /\ request' = [ request EXCEPT ![w] = NULL ]
        /\ Commits({w}) /\ token' = token
    BY DEF FinishReverse
  <1>2. RequestSound(db, r) /\ (~overlapped => Current(db, r))
    BY <1>1 DEF JournalInv
  <1> HIDE DEF r
  <1>3. Sound(db') /\ Grown(db, db')
    BY <1>1, <1>2, ReversalSound DEF JournalInv
  <1>4. ~overlapped => /\ Matched(db') /\ NothingBuilt(db')
                       /\ NonNegative(db) => NonNegative(db')
    BY <1>1, <1>2, ReversalMatched DEF JournalInv
  <1>5. request' = [ v \in Workers |-> IF v \in {w} THEN NULL ELSE request[v] ]
    BY <1>1 DEF JournalInv
  <1>6. JournalInv'
    BY <1>1, <1>3, <1>4, <1>5, Committed
  <1> QED
    BY <1>4, <1>6

(* A reversal is given up. *)
LEMMA InvAbortReverse ==
    ASSUME JournalInv, NEW w \in Workers, AbortReverse(w)
    PROVE  JournalInv'
  <1>1. /\ request' = [ request EXCEPT ![w] = NULL ]
        /\ db' = db /\ token' = token /\ overlapped' = overlapped
    BY DEF AbortReverse
  <1>2. /\ request' = [ v \in Workers |-> request'[v] ]
        /\ \A v \in Workers : request'[v] = IF v = w THEN NULL ELSE request[v]
    BY <1>1 DEF JournalInv
  <1> QED
    BY <1>1, <1>2 DEF JournalInv

(* A confirmed purge. *)
LEMMA InvConfirmPurge ==
    ASSUME JournalInv, ConfirmPurge
    PROVE  /\ JournalInv'
           /\ ~overlapped /\ NonNegative(db) => NonNegative(db')
  <1> DEFINE a == token.action
  <1>1. /\ token # NULL /\ Purgeable(db, a) /\ db' = Purged(db, a)
        /\ Commits({}) /\ token' = token /\ request' = request
    BY DEF ConfirmPurge, HoldsToken, Purged
  <1>2. a \in DOMAIN db.journal
    BY <1>1 DEF JournalInv
  <1> HIDE DEF a
  <1>3. Sound(db') /\ Grown(db, db')
    BY <1>1, <1>2, PurgedSound DEF JournalInv
  <1>4. ~overlapped => /\ Matched(db') /\ NothingBuilt(db')
                       /\ NonNegative(db) => NonNegative(db')
    BY <1>1, <1>2, PurgedMatched DEF JournalInv
  <1>5. request' = [ w \in Workers |-> IF w \in {} THEN NULL ELSE request[w] ]
    BY <1>1 DEF JournalInv
  <1>6. JournalInv'
    BY <1>1, <1>3, <1>4, <1>5, Committed
  <1> QED
    BY <1>4, <1>6

(* Every step keeps the invariant, and overdraws no key of a plant whose     *)
(* commands may not, as long as no two requests overlap.                    *)
LEMMA JournalInvStep ==
    ASSUME JournalInv, [Next]_vars
    PROVE  /\ JournalInv'
           /\ NothingForced /\ (~overlapped => NonNegative(db)) => (~overlapped' => NonNegative(db'))
  <1>1. CASE \E o \in DomainOperations : Perform(o)
    BY <1>1, InvPerform DEF Perform, Commits
  <1>2. CASE \E a \in DOMAIN db.journal, cascade \in BOOLEAN : PreviewReverse(a, cascade)
    BY <1>2, InvPreviewReverse DEF PreviewReverse
  <1>3. CASE \E w \in Workers : BeginReverse(w)
    <2>1. db' = db /\ overlapped' = overlapped
      BY <1>3 DEF BeginReverse
    <2>2. JournalInv'
      BY <1>3, InvBeginReverse
    <2> QED
      BY <2>1, <2>2
  <1>4. CASE \E w \in Workers : FinishReverse(w)
    BY <1>4, InvFinishReverse DEF FinishReverse, Commits
  <1>5. CASE \E w \in Workers : AbortReverse(w)
    <2>1. db' = db /\ overlapped' = overlapped
      BY <1>5 DEF AbortReverse
    <2>2. JournalInv'
      BY <1>5, InvAbortReverse
    <2> QED
      BY <2>1, <2>2
  <1>6. CASE \E a \in DOMAIN db.journal : DryRunPurge(a)
    BY <1>6, InvDryRunPurge DEF DryRunPurge
  <1>7. CASE ConfirmPurge
    BY <1>7, InvConfirmPurge DEF ConfirmPurge, Commits
  <1>8. CASE UNCHANGED vars
    <2>1. db' = db /\ token' = token /\ request' = request /\ overlapped' = overlapped
      BY <1>8 DEF vars
    <2> QED
      BY <2>1 DEF JournalInv
  <1> QED
    BY <1>1, <1>2, <1>3, <1>4, <1>5, <1>6, <1>7, <1>8 DEF Next
----------------------------------------------------------------------------
(* What the preview says of a cascade and what carrying it out does.        *)

(* A journal that may be longer than the bound allows. *)
LooseEntry ==
    [ type : ActionCompensable \cup {"reversal"}, ref : Nullable(Tasks),
      dependsOn : SUBSET Actions, status : Status, reversedBy : Nullable(Nat) ]

(* What is left of WellTyped once the bound of the journal is passed. *)
Stocked(d) ==
    /\ d = [ journal |-> d.journal, ledger |-> d.ledger, balance |-> d.balance,
             nextId |-> d.nextId ]
    /\ d.journal \in Seq(LooseEntry)
    /\ IsFiniteSet(d.ledger) /\ d.nextId \in Nat
    /\ \A t \in d.ledger : t.id \in Nat /\ t.id < d.nextId
    /\ \A t, u \in d.ledger : t.id = u.id => t = u
    /\ d.balance \in [ BalanceKey -> Int ] /\ Exact(d.balance, d.ledger)

(* A committed database is such a one. *)
LEMMA SoundStocked ==
    ASSUME NEW d, WellTyped(d)
    PROVE  Stocked(d)
  <1>1. JournalEntry \subseteq LooseEntry
    BY ActionIds DEF JournalEntry, LooseEntry, Nullable
  <1>2. d.journal \in Seq(JournalEntry)
    BY DatabaseFields
  <1>3. d.journal \in Seq(LooseEntry)
    BY <1>1, <1>2
  <1> QED
    BY <1>3, DatabaseFields DEF Stocked, WellTyped

(* The reversal of a node that has rows in force does not fail: it adds their *)
(* compensations and moves their material back.                             *)
NodeCarried(d, G, e) ==
    /\ Stocked(e) /\ Len(e.journal) = Len(d.journal) + 1
    /\ \A b \in 1..Len(d.journal) : e.journal[b].type = d.journal[b].type
    /\ d.ledger \subseteq e.ledger
    /\ \A m \in e.ledger \ d.ledger :
         m.action = Len(d.journal) + 1 /\ \E t \in G : m.reverses = t.id
    /\ \A k \in BalanceKey :
         /\ SumQuantity(Outgoing(G, k)) \in Nat /\ SumQuantity(Incoming(G, k)) \in Nat
         /\ e.balance[k] = IF Materialised(k)
                           THEN d.balance[k] + SumQuantity(Outgoing(G, k)) - SumQuantity(Incoming(G, k))
                           ELSE 0

LEMMA StockedNode ==
    ASSUME NEW d, Stocked(d), NEW a \in 1..Len(d.journal),
           NEW G, G # {}, G \subseteq d.ledger, G \subseteq StockTransaction
    PROVE  ReversedNode(d, a, G) # Failed /\ NodeCarried(d, G, ReversedNode(d, a, G))
  <1> DEFINE rev == Len(d.journal) + 1
             entry == Logged("reversal", d.journal[a].ref, d.journal[a].dependsOn)
             J == Append(d.journal, entry)
             x == [ d EXCEPT !.journal = J ]
             M == Mirrors(d, G, rev)
             n == d.nextId + Cardinality(G)
             L == d.ledger \cup M
             ks == UNION { TouchedKeys(m) : m \in M }
             B == RefreshBalance(d.balance, L, ks)
             H == [ J EXCEPT ![a].status = "reversed", ![a].reversedBy = rev ]
             e == ReversedNode(d, a, G)
  <1>1. /\ d.journal \in Seq(LooseEntry) /\ Len(d.journal) \in Nat
        /\ IsFiniteSet(d.ledger) /\ d.nextId \in Nat
        /\ d.balance \in [ BalanceKey -> Int ] /\ Exact(d.balance, d.ledger)
        /\ \A t \in d.ledger : t.id \in Nat /\ t.id < d.nextId
        /\ d = [ journal |-> d.journal, ledger |-> d.ledger, balance |-> d.balance,
                 nextId |-> d.nextId ]
    BY DEF Stocked
  <1>2. d.journal[a] \in LooseEntry
    BY <1>1
  <1>3. entry \in LooseEntry
    BY <1>2 DEF Logged, LooseEntry, Status, Nullable
  <1> HIDE DEF entry
  <1>4. /\ J \in Seq(LooseEntry) /\ Len(J) = rev /\ DOMAIN J = 1..rev
        /\ \A b \in 1..Len(d.journal) : J[b] = d.journal[b]
    BY <1>1, <1>3, AppendProperties
  <1>5. /\ H \in Seq(LooseEntry) /\ Len(H) = rev
        /\ \A b \in 1..Len(d.journal) : H[b].type = d.journal[b].type
    <2> HIDE DEF J, rev
    <2>1. a \in DOMAIN J /\ J[a] = d.journal[a] /\ rev \in Nat
      BY <1>1, <1>4 DEF rev
    <2>2. [ J[a] EXCEPT !.status = "reversed", !.reversedBy = rev ] \in LooseEntry
      BY <1>2, <2>1 DEF LooseEntry, Status, Nullable
    <2>3. H = [ J EXCEPT ![a] = [ J[a] EXCEPT !.status = "reversed", !.reversedBy = rev ] ]
      BY <1>4, <2>1
    <2>4. H \in Seq(LooseEntry) /\ Len(H) = rev
      BY <1>4, <2>1, <2>2, <2>3, ExceptSeq
    <2>5. ASSUME NEW b \in 1..Len(d.journal) PROVE H[b].type = d.journal[b].type
      <3>1. b \in DOMAIN J /\ J[b] = d.journal[b]
        BY <1>1, <1>4 DEF rev
      <3>2. d.journal[b] \in LooseEntry
        BY <1>1
      <3>3. CASE b = a
        BY <1>2, <2>1, <2>3, <3>3 DEF LooseEntry
      <3>4. CASE b # a
        BY <2>3, <3>1, <3>4
      <3> QED
        BY <3>3, <3>4
    <2> QED
      BY <2>4, <2>5
  <1> HIDE DEF J, H, rev
  <1>6. /\ x.journal = J /\ x.ledger = d.ledger /\ x.balance = d.balance /\ x.nextId = d.nextId
        /\ x = [ journal |-> J, ledger |-> d.ledger, balance |-> d.balance, nextId |-> d.nextId ]
    BY <1>1
  <1>7. Mirrors(x, G, rev) = M
    BY <1>6 DEF Mirrors, MirrorId
  <1>8. e = LET y == Compensated(x, G, rev) IN
            IF G = {} \/ y = Failed THEN Failed
            ELSE [ y EXCEPT !.journal = WithStatus(y, a, rev) ]
    BY DEF ReversedNode, x, J, rev, entry
  <1> HIDE DEF x, M
  <1>9. /\ e = [ journal |-> H, ledger |-> L, balance |-> B, nextId |-> n ]
        /\ e # Failed
    <2> DEFINE y == Compensated(x, G, rev)
    <2>1. y = [ x EXCEPT !.ledger = L, !.nextId = @ + Cardinality(G),
                         !.balance = RefreshBalance(@, L, ks) ]
      BY <1>6, <1>7 DEF Compensated
    <2> HIDE DEF L, ks
    <2>2. y = [ journal |-> J, ledger |-> L, balance |-> B, nextId |-> n ]
      BY <1>6, <2>1
    <2> HIDE DEF B, n
    <2>3. y # Failed
      BY <2>2 DEF Failed
    <2>4. e = [ y EXCEPT !.journal = WithStatus(y, a, rev) ]
      BY <1>8, <2>3
    <2> HIDE DEF y, e
    <2>5. e = [ journal |-> H, ledger |-> L, balance |-> B, nextId |-> n ]
      BY <2>2, <2>4 DEF WithStatus, H
    <2> QED
      BY <2>5 DEF Failed
  <1>10. /\ n \in Nat /\ d.nextId <= n /\ IsFiniteSet(G) /\ \E f : MirroredBy(d, G, rev, M, f)
    <2>1. IsFiniteSet(G) /\ \A t, u \in G : t.id = u.id => t = u
      BY <1>1, FS_Subset DEF Stocked
    <2> QED
      BY <1>1, <2>1, MirrorRows DEF M
  <1>11. PICK f : /\ IsFiniteSet(M)
                  /\ \A m \in M : /\ m.id \in Nat /\ d.nextId <= m.id /\ m.id < n
                                  /\ m.action = rev
                  /\ \A m, u \in M : m.id = u.id => m = u
                  /\ f \in Bijection(G, M)
                  /\ \A t \in G : /\ f[t] \in M /\ f[t].reverses = t.id /\ f[t].quantity = t.quantity
                                  /\ FromKey(f[t]) = ToKey(t) /\ ToKey(f[t]) = FromKey(t)
    BY <1>10, Zenon DEF MirroredBy, n
  <1> HIDE DEF n, e
  <1>12. /\ IsFiniteSet(L) /\ M \subseteq L /\ L \ M = d.ledger /\ L \ d.ledger = M
         /\ \A t \in L : t.id \in Nat /\ t.id < n
         /\ \A t, u \in L : t.id = u.id => t = u
    <2>1. IsFiniteSet(L)
      BY <1>1, <1>11, FS_Union
    <2> QED
      BY <1>1, <1>10, <1>11, <2>1 DEF Stocked
  <1>13. B \in [ BalanceKey -> Int ] /\ Exact(B, L)
    <2>1. \A t \in (d.ledger \ L) \cup (L \ d.ledger) : TouchedKeys(t) \subseteq ks
      BY <1>12
    <2> HIDE DEF L, ks
    <2> QED
      BY <1>1, <1>12, <2>1, RefreshExact, RefreshType
  <1> HIDE DEF B, ks, L
  <1>14. e.journal = H /\ e.ledger = L /\ e.balance = B /\ e.nextId = n
    BY <1>9
  <1>15. Stocked(e)
    BY <1>5, <1>9, <1>10, <1>12, <1>13, <1>14 DEF Stocked
  <1>16. ASSUME NEW k \in BalanceKey
         PROVE  /\ SumQuantity(Outgoing(G, k)) \in Nat /\ SumQuantity(Incoming(G, k)) \in Nat
                /\ e.balance[k] = IF Materialised(k)
                                  THEN d.balance[k] + SumQuantity(Outgoing(G, k)) - SumQuantity(Incoming(G, k))
                                  ELSE 0
    <2>1. Exact(e.balance, L) /\ Exact(d.balance, L \ M)
      BY <1>1, <1>12, <1>13, <1>14
    <2>2. Swaps(G, M, f)
      BY <1>11 DEF Swaps
    <2>3. IsFiniteSet(L) /\ IsFiniteSet(G) /\ M \subseteq L
      BY <1>10, <1>12
    <2> QED
      BY <2>1, <2>2, <2>3, BalanceOfMirrors, Zenon
  <1>17. ASSUME NEW m \in M PROVE \E t \in G : m.reverses = t.id
    <2>1. PICK t \in G : f[t] = m
      BY <1>11 DEF Bijection, Surjection
    <2> QED
      BY <1>11, <2>1
  <1>18. d.ledger \subseteq e.ledger /\ e.ledger \ d.ledger = M
    BY <1>12, <1>14
  <1>19. NodeCarried(d, G, e)
    BY <1>5, <1>11, <1>14, <1>15, <1>16, <1>17, <1>18 DEF NodeCarried, rev
  <1> QED
    BY <1>9, <1>19 DEF e

(* Where an operation of a task puts material, no operation of the same task *)
(* takes material to turn it into another quality, and it is no terminal     *)
(* section: coverage_effect books what comes back as of the quality it was   *)
(* turned into, and books it for a terminal section too.                    *)
CreditedAsTaken ==
    \A o, p \in DomainOperations :
        o.type \in TaskActionFamily /\ p.type \in TaskActionFamily /\ o.ref = p.ref =>
          \A m \in 1..Len(o.commands), n \in 1..Len(p.commands) :
            LET c == o.commands[m]
                k == TargetKey(p.commands[n]) IN
            k \in BalanceKey
              /\ k \in { SourceKey(c), [ SourceKey(c) EXCEPT !.quality = c.toQuality ] } =>
                   c.quality = c.toQuality /\ c.from \notin Terminal

(* Two actions of the same task. *)
SameTask(d, a, b) ==
    /\ d.journal[a].type \in TaskActionFamily /\ d.journal[b].type \in TaskActionFamily
    /\ d.journal[a].ref = d.journal[b].ref

(* Everything built on an action is of the same task. *)
LEMMA CascadeOfTask ==
    ASSUME NEW d, Sound(d), NEW a \in DOMAIN d.journal, NEW b \in ActiveBelow(d, a), DomainIn(d, b)
    PROVE  SameTask(d, a, b)
  <1> DEFINE g == CHOOSE h : Reached(d, a, h)
             L == Len(d.journal)
             T == { n \in ActiveBelow(d, a) : DomainIn(d, n) /\ ~SameTask(d, a, n) }
  <1>1. Reached(d, a, g)
    BY ReachedExists
  <1>2. ActiveBelow(d, a) = { n \in (a + 1)..L : g[n] }
    BY DEF ActiveBelow, Reached
  <1>3. L \in Nat /\ a \in 1..L /\ DOMAIN d.journal = 1..L
    BY DatabaseFields DEF Sound
  <1> HIDE DEF g, L
  <1>4. \A n \in a..L : g[n] <=> n = a \/ (Active(d, n) /\ \E p \in d.journal[n].dependsOn : p >= a /\ g[p])
    BY <1>1 DEF Reached, L
  <1> SUFFICES ASSUME ~SameTask(d, a, b) PROVE FALSE
    OBVIOUS
  <1>5. T \in SUBSET Nat /\ T # {}
    BY <1>2, <1>3
  <1>6. PICK n \in T : \A m \in T : n <= m
    <2> HIDE DEF T
    <2> QED
      BY <1>5, Least
  <1>7. /\ n \in ActiveBelow(d, a) /\ DomainIn(d, n) /\ ~SameTask(d, a, n)
        /\ n \in (a + 1)..L /\ n \in a..L /\ n # a /\ n \in DOMAIN d.journal /\ g[n]
    BY <1>2, <1>3, <1>6
  <1>8. PICK p \in d.journal[n].dependsOn : p >= a /\ g[p]
    BY <1>4, <1>7
  <1>9. /\ p \in 1..(n - 1) /\ d.journal[n].type \in TaskActionFamily
        /\ d.journal[p].type \in TaskActionFamily /\ d.journal[p].ref = d.journal[n].ref
    BY <1>7 DEF Sound, JournalSound, Ordered
  <1>10. DomainIn(d, p)
    BY <1>9 DEF DomainIn, TaskActionFamily
  <1>11. CASE p = a
    BY <1>7, <1>9, <1>11 DEF SameTask
  <1>12. CASE p # a
    <2>1. p \in ActiveBelow(d, a) /\ p < n
      BY <1>2, <1>3, <1>7, <1>8, <1>9, <1>12
    <2>2. p \notin T
      BY <1>3, <1>6, <1>7, <1>9, <2>1
    <2>3. SameTask(d, a, p)
      BY <1>10, <2>1, <2>2
    <2> QED
      BY <1>7, <1>9, <2>3 DEF SameTask
  <1> QED
    BY <1>11, <1>12

(* What comes back to a key that another action of the same task needs is    *)
(* booked as what it was taken as.                                          *)
LEMMA CreditIsTrue ==
    ASSUME CreditedAsTaken, NEW d, Sound(d), NEW a \in DOMAIN d.journal, NEW b \in DOMAIN d.journal,
           SameTask(d, a, b), NEW t \in Generation(d, a), NEW u \in Generation(d, b),
           ToKey(u) \in BalanceKey, ToKey(u) \in { FromKey(t), CreditKey(t) }
    PROVE  CreditKey(t) = FromKey(t) /\ Materialised(ToKey(u))
  <1>1. /\ t \in d.ledger /\ t.reverses = NULL /\ t.action = a /\ a # NULL
        /\ u \in d.ledger /\ u.reverses = NULL /\ u.action = b /\ b # NULL
    BY DatabaseFields, LedgerConstants DEF Generation, Sound
  <1>2. PICK o \in DomainOperations : /\ d.journal[a].type = o.type /\ d.journal[a].ref = o.ref
                                      /\ RowOf(o, t)
    BY <1>1 DEF Sound, Ordered
  <1>3. PICK p \in DomainOperations : /\ d.journal[b].type = p.type /\ d.journal[b].ref = p.ref
                                      /\ RowOf(p, u)
    BY <1>1 DEF Sound, Ordered
  <1>4. PICK m \in 1..Len(o.commands) : FromKey(t) = SourceKey(o.commands[m]) /\ ToKey(t) = TargetKey(o.commands[m])
    BY <1>2 DEF RowOf
  <1>5. PICK n \in 1..Len(p.commands) : ToKey(u) = TargetKey(p.commands[n])
    BY <1>3 DEF RowOf
  <1> DEFINE c == o.commands[m]
  <1>6. t.fromQuality = c.quality /\ t.toQuality = c.toQuality /\ t.from = c.from
    <2>1. FromKey(t).quality = SourceKey(c).quality /\ FromKey(t).location = SourceKey(c).location
          /\ ToKey(t).quality = TargetKey(c).quality
      BY <1>4
    <2> QED
      BY <2>1 DEF FromKey, ToKey, SourceKey, TargetKey
  <1>7. CreditKey(t) = [ SourceKey(c) EXCEPT !.quality = c.toQuality ]
    BY <1>4, <1>6 DEF CreditKey
  <1>8. o.type \in TaskActionFamily /\ p.type \in TaskActionFamily /\ o.ref = p.ref
    BY <1>2, <1>3 DEF SameTask
  <1>9. c.quality = c.toQuality /\ c.from \notin Terminal
    BY <1>4, <1>5, <1>7, <1>8 DEF CreditedAsTaken
  <1>10. CreditKey(t) = FromKey(t)
    BY <1>6, <1>9 DEF CreditKey, FromKey
  <1>11. Materialised(ToKey(u))
    BY <1>6, <1>9, <1>10 DEF Materialised, FromKey
  <1> QED
    BY <1>10, <1>11

(* The two walks at action i: the preview has v, and e is the database that  *)
(* the reversals of the nodes from i on leave.  They agree on whether it     *)
(* goes on, and on what is on hand wherever a node before i needs something. *)
LockStep(d, nodes, i, v, e) ==
    /\ v = [ adjustment |-> v.adjustment, ok |-> v.ok ] /\ v.ok \in BOOLEAN
    /\ v.adjustment \in [ BalanceKey -> Int ]
    /\ v.ok => e # Failed
    /\ ~v.ok => e = Failed
    /\ v.ok =>
         /\ Stocked(e) /\ NonNegative(e) /\ Len(d.journal) <= Len(e.journal)
         /\ \A b \in DOMAIN d.journal : e.journal[b].type = d.journal[b].type
         /\ \A n \in nodes : n < i =>
              /\ Generation(e, n) = Generation(d, n)
              /\ \A k \in BalanceKey :
                   CoverageNeed(Generation(d, n), k) # 0 => e.balance[k] = d.balance[k] + v.adjustment[k]

(* A set of nodes as the preview has it. *)
CascadeNodes(d, nodes) ==
    /\ nodes \subseteq DOMAIN d.journal
    /\ \A a \in nodes : DomainIn(d, a) => Generation(d, a) # {}
    /\ \A a, b \in nodes : a # b /\ DomainIn(d, a) /\ DomainIn(d, b) => SameTask(d, a, b)

(* What a node does to the virtual balance of a key is what its reversal does *)
(* to the real one, if what it books back to the key is what it took.       *)
LEMMA EffectIsNet ==
    ASSUME NEW G, IsFiniteSet(G), NEW k \in BalanceKey,
           \A t \in G : k \in { FromKey(t), CreditKey(t) } => CreditKey(t) = FromKey(t)
    PROVE  /\ CoverageNeed(G, k) = SumQuantity(Incoming(G, k)) /\ CoverageNeed(G, k) \in Nat
           /\ CoverageEffect(G)[k] = SumQuantity(Outgoing(G, k)) - CoverageNeed(G, k)
  <1>1. CoverageNeed(G, k) = SumQuantity(Incoming(G, k))
    BY DEF CoverageNeed, Incoming
  <1>2. { t \in G : CreditKey(t) = k } = Outgoing(G, k)
    BY DEF Outgoing
  <1>3. CoverageEffect(G)[k] = SumQuantity({ t \in G : CreditKey(t) = k }) - CoverageNeed(G, k)
    BY DEF CoverageEffect
  <1>4. SumQuantity(Incoming(G, k)) \in Nat
    BY SidesFinite, UnitsFinite
  <1> QED
    BY <1>1, <1>2, <1>3, <1>4

(* The effect is a function of the keys. *)
LEMMA EffectType ==
    ASSUME NEW G, IsFiniteSet(G)
    PROVE  CoverageEffect(G) \in [ BalanceKey -> Int ]
  <1> SUFFICES ASSUME NEW k \in BalanceKey
               PROVE  SumQuantity({ t \in G : CreditKey(t) = k }) - CoverageNeed(G, k) \in Int
    BY DEF CoverageEffect
  <1>1. { t \in G : CreditKey(t) = k } \in SUBSET G /\ { t \in G : ToKey(t) = k } \in SUBSET G
    OBVIOUS
  <1>2. IsFiniteSet({ t \in G : CreditKey(t) = k }) /\ IsFiniteSet({ t \in G : ToKey(t) = k })
    BY <1>1, FS_Subset
  <1> QED
    BY <1>2, UnitsFinite DEF CoverageNeed

(* What needs a key is a row put there. *)
LEMMA NeedIsOfRow ==
    ASSUME NEW G, NEW k, CoverageNeed(G, k) # 0
    PROVE  \E u \in G : ToKey(u) = k
  <1>1. { t \in G : ToKey(t) = k } # {}
    BY EmptySum DEF CoverageNeed
  <1> QED
    BY <1>1

(* Both walks find a node covered, or none does. *)
LEMMA CoverAlike ==
    ASSUME NEW d, NEW e, NEW G, NEW x \in [ BalanceKey -> Int ], IsFiniteSet(G),
           d.balance \in [ BalanceKey -> Int ], e.balance \in [ BalanceKey -> Int ],
           NonNegative(d), NonNegative(e),
           \A k \in BalanceKey : CoverageNeed(G, k) # 0 => e.balance[k] = d.balance[k] + x[k]
    PROVE  CoveredWith(d, G, x) <=> CoveredWith(e, G, NoAdjustment)
  <1>1. ASSUME NEW k \in BalanceKey, CoverageNeed(G, k) # 0
        PROVE  (IF d.balance[k] > 0 THEN d.balance[k] ELSE 0) + x[k]
                 = (IF e.balance[k] > 0 THEN e.balance[k] ELSE 0) + NoAdjustment[k]
    <2>1. NoAdjustment[k] = 0
      BY DEF NoAdjustment
    <2>2. d.balance[k] \in Int /\ d.balance[k] >= 0 /\ e.balance[k] \in Int /\ e.balance[k] >= 0
      BY DEF NonNegative
    <2>3. e.balance[k] = d.balance[k] + x[k] /\ x[k] \in Int
      BY <1>1
    <2> QED
      BY <2>1, <2>2, <2>3
  <1> DEFINE A(k) == (IF d.balance[k] > 0 THEN d.balance[k] ELSE 0) + x[k] >= CoverageNeed(G, k)
             B(k) == (IF e.balance[k] > 0 THEN e.balance[k] ELSE 0) + NoAdjustment[k] >= CoverageNeed(G, k)
  <1>2. /\ CoveredWith(d, G, x) <=> \A k \in BalanceKey : CoverageNeed(G, k) = 0 \/ A(k)
        /\ CoveredWith(e, G, NoAdjustment) <=> \A k \in BalanceKey : CoverageNeed(G, k) = 0 \/ B(k)
    BY DEF CoveredWith
  <1>3. \A k \in BalanceKey : CoverageNeed(G, k) # 0 => (A(k) <=> B(k))
    BY <1>1
  <1> HIDE DEF A, B
  <1> QED
    BY <1>2, <1>3

(* The reversal of a covered node leaves nothing below zero, and the rows in *)
(* force of the other actions as they were.                                 *)
LEMMA CarriedNode ==
    ASSUME NEW e, Stocked(e), NonNegative(e), NEW a \in 1..Len(e.journal),
           NEW f, NodeCarried(e, Generation(e, a), f),
           CoveredWith(e, Generation(e, a), NoAdjustment)
    PROVE  /\ NonNegative(f)
           /\ \A n \in 1..Len(e.journal) : n # a => Generation(f, n) = Generation(e, n)
  <1> DEFINE G == Generation(e, a)
  <1>1. ASSUME NEW k \in BalanceKey PROVE f.balance[k] >= 0
    <2>1. /\ SumQuantity(Outgoing(G, k)) \in Nat /\ SumQuantity(Incoming(G, k)) \in Nat
          /\ f.balance[k] = IF Materialised(k)
                            THEN e.balance[k] + SumQuantity(Outgoing(G, k)) - SumQuantity(Incoming(G, k))
                            ELSE 0
      BY DEF NodeCarried
    <2>2. e.balance[k] \in Int /\ e.balance[k] >= 0
      BY DEF NonNegative, Stocked
    <2>3. CoverageNeed(G, k) = SumQuantity(Incoming(G, k)) /\ NoAdjustment[k] = 0
      BY DEF CoverageNeed, Incoming, NoAdjustment
    <2>4. CoverageNeed(G, k) = 0 \/ (IF e.balance[k] > 0 THEN e.balance[k] ELSE 0) + NoAdjustment[k] >= CoverageNeed(G, k)
      BY DEF CoveredWith
    <2>5. SumQuantity(Incoming(G, k)) = 0 \/ e.balance[k] >= SumQuantity(Incoming(G, k))
      BY <2>1, <2>2, <2>3, <2>4
    <2> QED
      BY <2>1, <2>2, <2>5
  <1>2. ASSUME NEW n \in 1..Len(e.journal), n # a PROVE Generation(f, n) = Generation(e, n)
    <2>1. /\ e.ledger \subseteq f.ledger
          /\ \A m \in f.ledger \ e.ledger : m.action = Len(e.journal) + 1 /\ \E t \in G : m.reverses = t.id
      BY DEF NodeCarried
    <2>2. Len(e.journal) \in Nat /\ n # Len(e.journal) + 1
      BY DEF Stocked
    <2>3. \A t \in f.ledger : t.action = n => t \in e.ledger
      BY <2>1, <2>2
    <2>4. ASSUME NEW t \in e.ledger, t.action = n PROVE Compensations(f, t) = Compensations(e, t)
      <3>1. ASSUME NEW m \in f.ledger \ e.ledger, m.reverses = t.id PROVE FALSE
        <4>1. PICK u \in G : m.reverses = u.id
          BY <2>1
        <4>2. u \in e.ledger /\ u.action = a
          BY DEF Generation
        <4>3. u = t
          BY <3>1, <4>1, <4>2 DEF Stocked
        <4> QED
          BY <1>2, <2>4, <4>2, <4>3
      <3> QED
        BY <2>1, <3>1 DEF Compensations
    <2>5. \A D : Generation(D, n) = { t \in D.ledger : t.action = n /\ t.reverses = NULL /\ Compensations(D, t) = {} }
      BY DEF Generation
    <2> QED
      BY <2>1, <2>3, <2>4, <2>5
  <1> QED
    BY <1>1, <1>2 DEF NonNegative

(* A node keeps the two walks in step. *)
LEMMA NodeInStep ==
    ASSUME CreditedAsTaken, NEW d, Sound(d), NonNegative(d), NEW nodes, CascadeNodes(d, nodes),
           NEW a \in nodes, NEW v, NEW e, LockStep(d, nodes, a + 1, v, e)
    PROVE  LockStep(d, nodes, a, CoveredNode(d, v, a), Carried(e, a))
  <1> DEFINE x == v.adjustment
             G == Generation(d, a)
             y == [ k \in BalanceKey |-> x[k] + CoverageEffect(G)[k] ]
             f == Carried(e, a)
             z == CoveredNode(d, v, a)
             Covered == HasCompensator(d, a) /\ CoveredWith(d, G, x)
  <1>1. /\ DOMAIN d.journal = 1..Len(d.journal) /\ Len(d.journal) \in Nat
        /\ d.balance \in [ BalanceKey -> Int ] /\ d.ledger \subseteq StockTransaction
        /\ nodes \subseteq DOMAIN d.journal /\ a \in DOMAIN d.journal
    BY DatabaseFields DEF Sound, CascadeNodes
  <1>2. G \subseteq d.ledger /\ IsFiniteSet(G) /\ G \subseteq StockTransaction
    <2>1. G \subseteq d.ledger
      BY DEF Generation
    <2> QED
      BY <1>1, <2>1, FS_Subset DEF Sound, WellTyped
  <1> HIDE DEF G
  <1>3. /\ v = [ adjustment |-> x, ok |-> v.ok ] /\ v.ok \in BOOLEAN /\ x \in [ BalanceKey -> Int ]
    BY DEF LockStep
  <1>4. y \in [ BalanceKey -> Int ]
    <2>1. CoverageEffect(G) \in [ BalanceKey -> Int ]
      BY <1>2, EffectType
    <2> QED
      BY <1>3, <2>1
  <1>5. z = IF Covered THEN [ adjustment |-> y, ok |-> v.ok ] ELSE [ adjustment |-> x, ok |-> FALSE ]
    <2>1. z = IF Covered THEN [ v EXCEPT !.adjustment = y ] ELSE [ v EXCEPT !.ok = FALSE ]
      BY DEF CoveredNode, G
    <2> HIDE DEF x, y, z, Covered
    <2>2. ASSUME NEW b, NEW s, NEW c, v = [ adjustment |-> s, ok |-> b ]
          PROVE  /\ [ v EXCEPT !.adjustment = c ] = [ adjustment |-> c, ok |-> b ]
                 /\ [ v EXCEPT !.ok = c ] = [ adjustment |-> s, ok |-> c ]
      BY <2>2
    <2>3. /\ [ v EXCEPT !.adjustment = y ] = [ adjustment |-> y, ok |-> v.ok ]
          /\ [ v EXCEPT !.ok = FALSE ] = [ adjustment |-> x, ok |-> FALSE ]
      BY <1>3, <2>2, ZenonT(30)
    <2> QED
      BY <2>1, <2>3, Zenon
  <1> HIDE DEF x, y, z, Covered
  <1>6. CASE ~v.ok
    <2>1. f = Failed
      BY <1>6 DEF LockStep, Carried
    <2>2. z = [ adjustment |-> z.adjustment, ok |-> z.ok ] /\ z.ok = FALSE /\ z.adjustment \in [ BalanceKey -> Int ]
      <3>1. CASE Covered
        BY <1>3, <1>4, <1>5, <1>6, <3>1
      <3>2. CASE ~Covered
        BY <1>3, <1>5, <3>2
      <3> QED
        BY <3>1, <3>2
    <2> HIDE DEF f
    <2> QED
      BY <2>1, <2>2 DEF LockStep, f, z
  <1>7. CASE v.ok
    <2>1. /\ e # Failed /\ Stocked(e) /\ NonNegative(e) /\ Len(d.journal) <= Len(e.journal)
          /\ \A b \in DOMAIN d.journal : e.journal[b].type = d.journal[b].type
          /\ \A n \in nodes : n < a + 1 =>
               /\ Generation(e, n) = Generation(d, n)
               /\ \A k \in BalanceKey :
                    CoverageNeed(Generation(d, n), k) # 0 => e.balance[k] = d.balance[k] + x[k]
      BY <1>7 DEF LockStep, x
    <2>2. /\ Generation(e, a) = G /\ e.balance \in [ BalanceKey -> Int ]
          /\ \A k \in BalanceKey : CoverageNeed(G, k) # 0 => e.balance[k] = d.balance[k] + x[k]
          /\ \A n \in nodes : n < a => n < a + 1
      BY <1>1, <2>1 DEF G, Stocked
    <2>3. Covered <=> HasCompensator(e, a) /\ CoveredWith(e, G, NoAdjustment)
      <3>1. HasCompensator(e, a) <=> HasCompensator(d, a)
        BY <1>1, <2>1 DEF HasCompensator
      <3>2. CoveredWith(d, G, x) <=> CoveredWith(e, G, NoAdjustment)
        BY <1>1, <1>2, <1>3, <2>1, <2>2, CoverAlike
      <3> QED
        BY <3>1, <3>2 DEF Covered
    <2>4. f = IF Covered THEN ReversedNode(e, a, G) ELSE Failed
      BY <2>1, <2>2, <2>3 DEF Carried
    <2>5. CASE ~Covered
      <3>1. z = [ adjustment |-> z.adjustment, ok |-> z.ok ] /\ z.ok = FALSE /\ z.adjustment \in [ BalanceKey -> Int ]
        BY <1>3, <1>5, <2>5
      <3>2. f = Failed
        BY <2>4, <2>5
      <3> HIDE DEF f
      <3> QED
        BY <3>1, <3>2 DEF LockStep, f, z
    <2>6. CASE Covered
      <3>1. DomainIn(d, a) /\ G # {}
        BY <2>6 DEF Covered, HasCompensator, DomainIn, ActionCompensable, TaskActionFamily, CascadeNodes, G
      <3>2. a \in 1..Len(e.journal) /\ Len(e.journal) \in Nat /\ DOMAIN d.journal \subseteq 1..Len(e.journal)
        BY <1>1, <2>1 DEF Stocked
      <3>3. G \subseteq e.ledger
        BY <2>2 DEF Generation
      <3>4. f # Failed /\ NodeCarried(e, G, f)
        BY <1>2, <2>1, <2>4, <2>6, <3>1, <3>2, <3>3, StockedNode
      <3> HIDE DEF f
      <3>5. /\ NonNegative(f)
            /\ \A n \in 1..Len(e.journal) : n # a => Generation(f, n) = Generation(e, n)
        BY <2>1, <2>2, <2>3, <2>6, <3>2, <3>4, CarriedNode
      <3>6. ASSUME NEW n \in nodes, n < a PROVE Generation(f, n) = Generation(d, n)
        BY <1>1, <2>1, <2>2, <3>2, <3>5, <3>6
      <3>7. ASSUME NEW n \in nodes, n < a, NEW k \in BalanceKey, CoverageNeed(Generation(d, n), k) # 0
            PROVE  f.balance[k] = d.balance[k] + y[k]
        <4>1. PICK u \in Generation(d, n) : ToKey(u) = k
          BY <3>7, NeedIsOfRow
        <4>2. SameTask(d, a, n)
          <5>1. u \in d.ledger /\ u.reverses = NULL /\ u.action = n /\ n # NULL
            BY <1>1, LedgerConstants DEF Generation
          <5>2. DomainIn(d, n)
            BY <5>1 DEF Sound, Attributed
          <5> QED
            BY <1>1, <3>1, <3>7, <5>2 DEF CascadeNodes
        <4>3. \A t \in G : k \in { FromKey(t), CreditKey(t) } => CreditKey(t) = FromKey(t) /\ Materialised(k)
          BY <1>1, <4>1, <4>2, CreditIsTrue DEF G
        <4>4. /\ CoverageNeed(G, k) = SumQuantity(Incoming(G, k)) /\ CoverageNeed(G, k) \in Nat
              /\ CoverageEffect(G)[k] = SumQuantity(Outgoing(G, k)) - CoverageNeed(G, k)
          BY <1>2, <4>3, EffectIsNet
        <4>5. /\ SumQuantity(Outgoing(G, k)) \in Nat
              /\ f.balance[k] = IF Materialised(k)
                                THEN e.balance[k] + SumQuantity(Outgoing(G, k)) - SumQuantity(Incoming(G, k))
                                ELSE 0
          BY <3>4 DEF NodeCarried
        <4>6. /\ e.balance[k] = d.balance[k] + x[k] /\ x[k] \in Int /\ d.balance[k] \in Int
              /\ y[k] = x[k] + CoverageEffect(G)[k]
          BY <1>1, <1>3, <2>1, <2>2, <3>7 DEF y
        <4>7. CASE Materialised(k)
          BY <4>4, <4>5, <4>6, <4>7
        <4>8. CASE ~Materialised(k)
          <5>1. e.balance[k] = 0
            BY <2>1, <4>8 DEF Stocked, Exact
          <5>2. SumQuantity(Outgoing(G, k)) = 0
            <6>1. Outgoing(G, k) = {}
              BY <4>3, <4>8 DEF Outgoing
            <6> QED
              BY <6>1, EmptySum
          <5>3. CoverageNeed(G, k) = 0
            <6>1. CoverageNeed(G, k) = 0 \/ (IF e.balance[k] > 0 THEN e.balance[k] ELSE 0) + NoAdjustment[k] >= CoverageNeed(G, k)
              BY <2>3, <2>6 DEF CoveredWith
            <6>2. NoAdjustment[k] = 0
              BY DEF NoAdjustment
            <6> QED
              BY <4>4, <5>1, <6>1, <6>2
          <5> QED
            BY <4>4, <4>5, <4>6, <4>8, <5>1, <5>2, <5>3
        <4> QED
          BY <4>7, <4>8
      <3>8. z = [ adjustment |-> y, ok |-> TRUE ]
        BY <1>3, <1>5, <1>7, <2>6
      <3>9. z.adjustment = y /\ z.ok = TRUE /\ z = [ adjustment |-> z.adjustment, ok |-> z.ok ]
        <4>1. z.adjustment = y /\ z.ok = TRUE
          BY <3>8
        <4>2. z = [ adjustment |-> z.adjustment, ok |-> z.ok ]
          BY <3>8, <4>1, Zenon
        <4> QED
          BY <4>1, <4>2
      <3>10. /\ Stocked(f) /\ Len(d.journal) <= Len(f.journal)
             /\ \A b \in DOMAIN d.journal : f.journal[b].type = d.journal[b].type
        <4>1. /\ Stocked(f) /\ Len(f.journal) = Len(e.journal) + 1
              /\ \A b \in 1..Len(e.journal) : f.journal[b].type = e.journal[b].type
          BY <3>4, Zenon DEF NodeCarried
        <4>2. /\ Len(d.journal) \in Nat /\ Len(e.journal) \in Nat /\ Len(d.journal) <= Len(e.journal)
              /\ DOMAIN d.journal = 1..Len(d.journal)
              /\ \A b \in DOMAIN d.journal : e.journal[b].type = d.journal[b].type
          BY <1>1, <2>1, <3>2
        <4> HIDE DEF f, z
        <4>3. Len(d.journal) <= Len(f.journal)
          BY <4>1, <4>2
        <4>4. \A b \in DOMAIN d.journal : b \in 1..Len(e.journal)
          BY <4>2
        <4> QED
          BY <4>1, <4>2, <4>3, <4>4, Zenon
      <3>11. z.ok /\ z.ok \in BOOLEAN /\ z.adjustment \in [ BalanceKey -> Int ]
        BY <1>4, <3>9
      <3> HIDE DEF z
      <3>12. LockStep(d, nodes, a, z, f)
        BY <3>4, <3>5, <3>6, <3>7, <3>9, <3>10, <3>11, Zenon DEF LockStep
      <3> QED
        BY <3>12 DEF f, z
    <2> QED
      BY <2>5, <2>6
  <1> QED
    BY <1>3, <1>6, <1>7 DEF f, z

(* The databases between the turns of a cascade that is carried out. *)
LEMMA CascadeTurnByTurn ==
    ASSUME NEW d, NEW nodes
    PROVE  \E g : /\ g[MaxActions + 1] = d
                  /\ \A a \in 1..MaxActions : g[a] = InCascade(g[a + 1], nodes, a)
                  /\ g[1] = CarriedOut(d, nodes)
  <1> DEFINE N == MaxActions
             Body(g) == [ a \in 1..(MaxActions + 1) |-> IF a > MaxActions THEN d ELSE
                            IF a \in nodes THEN Carried(g[a + 1], a) ELSE g[a + 1] ]
             done == CHOOSE g : g = Body(g)
  <1>1. N \in Nat
    BY ActionIds
  <1>2. \E g : g = Body(g)
    <2>1. PICK g : Turns("carry out", d, nodes, d, g)
      BY TurnsExist, Zenon
    <2>2. \A x, a : Turn("carry out", d, nodes, x, a) = IF a \in nodes THEN Carried(x, a) ELSE x
      BY DEF Turn, InCascade
    <2>3. g = Body(g)
      BY <2>1, <2>2, Zenon DEF Turns
    <2> QED
      BY <2>3
  <1>3. done = Body(done)
    BY <1>2
  <1>4. CarriedOut(d, nodes) = done[1]
    BY DEF CarriedOut
  <1> HIDE DEF done
  <1>5. /\ done[N + 1] = d
        /\ \A a \in 1..N : done[a] = InCascade(done[a + 1], nodes, a)
    BY <1>1, <1>3 DEF InCascade, N
  <1> QED
    BY <1>4, <1>5

(* The two walks agree to the end. *)
LEMMA WalksAgree ==
    ASSUME CreditedAsTaken, NEW d, Sound(d), NonNegative(d), NEW nodes, CascadeNodes(d, nodes)
    PROVE  CascadeCovered(d, nodes) <=> CarriedOut(d, nodes) # Failed
  <1> DEFINE N == MaxActions
  <1>1. /\ N \in Nat /\ WellTyped(d) /\ d.balance \in [ BalanceKey -> Int ]
        /\ DOMAIN d.journal = 1..Len(d.journal) /\ Len(d.journal) \in Nat
        /\ nodes \subseteq 1..N
        /\ d = [ journal |-> d.journal, ledger |-> d.ledger, balance |-> d.balance,
                 nextId |-> d.nextId ]
    BY DatabaseFields, ActionIds DEF Sound, CascadeNodes
  <1>2. PICK w : /\ \A a \in 1..(N + 1) : w[a] = WalkAt(d, nodes, w, a)
                 /\ (CascadeCovered(d, nodes) <=> w[1].ok)
    BY WalkExists
  <1>3. PICK g : /\ g[N + 1] = d
                 /\ \A a \in 1..N : g[a] = InCascade(g[a + 1], nodes, a)
                 /\ g[1] = CarriedOut(d, nodes)
    BY CascadeTurnByTurn
  <1> DEFINE Holds(i) == LockStep(d, nodes, i, w[i], g[i])
             T == { m \in 0..N : Holds(N + 1 - m) }
  <1>4. 0 \in T
    <2>1. w[N + 1] = [ adjustment |-> NoAdjustment, ok |-> TRUE ]
      <3>1. N + 1 \in 1..(N + 1) /\ N + 1 > MaxActions
        BY <1>1
      <3> QED
        BY <1>2, <3>1 DEF WalkAt
    <2> DEFINE v == w[N + 1]
    <2>2. v.adjustment = NoAdjustment /\ v.ok = TRUE
      BY <2>1
    <2>3. v = [ adjustment |-> v.adjustment, ok |-> v.ok ]
      BY <2>1, <2>2, Zenon
    <2>4. d # Failed
      BY <1>1 DEF Failed
    <2>5. /\ \A k \in BalanceKey : d.balance[k] = d.balance[k] + v.adjustment[k]
          /\ v.adjustment \in [ BalanceKey -> Int ]
      <3> HIDE DEF v
      <3> QED
        BY <1>1, <2>2 DEF NoAdjustment
    <2>6. v.ok /\ v.ok \in BOOLEAN
      BY <2>2
    <2>7. Stocked(d)
      BY <1>1, SoundStocked
    <2> HIDE DEF v, N
    <2>8. LockStep(d, nodes, N + 1, v, d)
      <3>1. Len(d.journal) <= Len(d.journal)
        BY <1>1
      <3> QED
        BY <2>3, <2>4, <2>5, <2>6, <2>7, <3>1, Zenon DEF LockStep
    <2>9. 0 \in 0..N /\ N + 1 - 0 = N + 1
      BY <1>1
    <2> QED
      BY <1>3, <2>8, <2>9 DEF v
  <1>5. ASSUME NEW m \in 1..N, m - 1 \in T PROVE m \in T
    <2> DEFINE a == N + 1 - m
    <2>1. /\ a \in 1..N /\ a + 1 = N + 1 - (m - 1) /\ m \in 0..N /\ ~(a > MaxActions)
          /\ a \in 1..(N + 1)
      BY <1>1
    <2>2. Holds(a + 1)
      <3> HIDE DEF Holds, a
      <3> QED
        BY <1>5, <2>1
    <2> HIDE DEF a
    <2>3. /\ w[a] = IF a \in nodes THEN CoveredNode(d, w[a + 1], a) ELSE w[a + 1]
          /\ g[a] = IF a \in nodes THEN Carried(g[a + 1], a) ELSE g[a + 1]
      BY <1>2, <1>3, <2>1 DEF WalkAt, InWalk, InCascade
    <2>4. CASE a \in nodes
      <3>1. LockStep(d, nodes, a, CoveredNode(d, w[a + 1], a), Carried(g[a + 1], a))
        BY <2>2, <2>4, NodeInStep
      <3> QED
        BY <2>1, <2>3, <2>4, <3>1 DEF a
    <2>5. CASE a \notin nodes
      <3>1. \A n \in nodes : n < a => n < a + 1
        BY <1>1, <2>1
      <3>2. w[a] = w[a + 1] /\ g[a] = g[a + 1]
        BY <2>3, <2>5
      <3>3. Holds(a)
        BY <2>2, <3>1, <3>2 DEF LockStep
      <3> QED
        BY <2>1, <3>3 DEF a
    <2> QED
      BY <2>4, <2>5
  <1> HIDE DEF T
  <1>6. N \in T /\ N \in 0..N
    BY <1>1, <1>4, <1>5, Upwards
  <1>7. N + 1 - N = 1
    BY <1>1
  <1>8. Holds(1)
    <2> HIDE DEF Holds, N
    <2> QED
      BY <1>6, <1>7 DEF T
  <1>9. (w[1].ok => g[1] # Failed) /\ (~w[1].ok => g[1] = Failed)
    BY <1>8 DEF LockStep
  <1> QED
    BY <1>2, <1>3, <1>9

(* The nodes of a preview are those of one cascade. *)
LEMMA PreviewNodes ==
    ASSUME NEW d, Sound(d), Matched(d), NEW a \in DOMAIN d.journal, Active(d, a),
           NEW cascade \in BOOLEAN
    PROVE  CascadeNodes(d, RevertNodes(d, a, cascade))
  <1> DEFINE nodes == RevertNodes(d, a, cascade)
  <1>1. /\ nodes \subseteq {a} \cup ActiveBelow(d, a)
        /\ \A n \in nodes : n \in DOMAIN d.journal /\ Active(d, n)
    BY CascadeIsClosed DEF RevertNodes
  <1> HIDE DEF nodes
  <1>2. ASSUME NEW n \in nodes, DomainIn(d, n) PROVE Generation(d, n) # {}
    <2>1. PICK t : t \in TransactionsOf(d, n)
      BY <1>1, <1>2 DEF Sound, Ordered
    <2>2. t \in d.ledger /\ t.action = n /\ Compensations(d, t) = {}
      BY <1>1, <1>2, <2>1 DEF Matched, TransactionsOf
    <2>3. t.reverses = NULL
      BY <1>2, <2>2 DEF Sound, Attributed
    <2> QED
      BY <2>2, <2>3 DEF Generation
  <1>3. ASSUME NEW b \in nodes, NEW n \in nodes, b # n, DomainIn(d, b), DomainIn(d, n)
        PROVE  SameTask(d, b, n)
    <2>1. \A m \in nodes : m # a /\ DomainIn(d, m) => SameTask(d, a, m)
      BY <1>1, CascadeOfTask
    <2> QED
      BY <1>3, <2>1 DEF SameTask
  <1> QED
    BY <1>1, <1>2, <1>3 DEF CascadeNodes, nodes

----------------------------------------------------------------------------

(* Journal, ledger, token and plans always have their types, and ids are     *)
(* below the next one.                                                      *)
THEOREM JournalTyped == Spec => []TypeOK
  <1>1. JournalInv => TypeOK
    <2> SUFFICES ASSUME JournalInv PROVE TypeOK
      OBVIOUS
    <2>1. /\ db.journal \in Seq(JournalEntry) /\ Len(db.journal) <= MaxActions
          /\ db.ledger \subseteq StockTransaction
          /\ db.balance \in [ BalanceKey -> Int ]
          /\ \A t \in db.ledger : t.id < db.nextId
      BY DatabaseFields, ActionIds DEF JournalInv, Sound
    <2>2. \A w \in Workers : request[w] # NULL =>
            /\ request[w].target \in DOMAIN db.journal
            /\ request[w].planned \subseteq StockTransaction
      BY DEF JournalInv, RequestSound
    <2> QED
      BY <2>1, <2>2 DEF TypeOK, JournalInv
  <1> QED
    BY <1>1, JournalInvInit, JournalInvStep, PTL DEF Spec

(* Whatever overlaps and in whatever order requests commit, nothing of an    *)
(* action that the journal calls reversed or purged is in force, a purge     *)
(* leaves nothing of it, and no compensation is without its source.         *)
THEOREM StatusSafe == Spec => []StatusNeverAheadOfLedger
  <1>1. JournalInv => StatusNeverAheadOfLedger
    BY DEF JournalInv, Sound, JournalSound, Attributed, Source, StatusNeverAheadOfLedger
  <1> QED
    BY <1>1, JournalInvInit, JournalInvStep, PTL DEF Spec

(* As long as no two requests overlap, the journal says of every action what *)
(* the ledger says of its transactions.                                     *)
THEOREM JournalAgrees == Spec => []JournalMatchesLedger
  <1>1. JournalInv => JournalMatchesLedger
    <2> SUFFICES ASSUME JournalInv, ~overlapped, NEW a \in DOMAIN db.journal
                 PROVE  LET e == db.journal[a] IN
                        /\ e.status = "active" /\ IsDomain(a) => Generation(db, a) = TransactionsOf(db, a)
                        /\ e.status = "reversed" => \A t \in TransactionsOf(db, a) :
                             \E c \in db.ledger : Compensations(db, t) = {c} /\ c.action = e.reversedBy
                        /\ e.status = "purged" =>
                             TransactionsOf(db, a) \cup TransactionsOf(db, e.reversedBy) = {}
                        /\ ~IsDomain(a) => \E b \in DOMAIN db.journal :
                             { n \in DOMAIN db.journal : db.journal[n].reversedBy = a } = {b}
      BY DEF JournalMatchesLedger
    <2> DEFINE e == db.journal[a]
    <2>1. Sound(db) /\ Matched(db)
      BY DEF JournalInv
    <2>2. /\ \A t \in db.ledger : t.id # NULL
          /\ \A t, u \in db.ledger : t.id = u.id => t = u
          /\ a # NULL
      BY <2>1, DatabaseFields, LedgerConstants DEF Sound, WellTyped
    <2>3. ASSUME e.status = "active", IsDomain(a)
          PROVE  Generation(db, a) = TransactionsOf(db, a)
      <3>1. ASSUME NEW t \in TransactionsOf(db, a) PROVE t \in Generation(db, a)
        <4>1. t \in db.ledger /\ t.action = a /\ Compensations(db, t) = {}
          BY <2>1, <2>3 DEF Matched, TransactionsOf, Active, IsDomain, DomainIn
        <4>2. t.reverses = NULL
          BY <2>1, <2>3, <4>1 DEF Sound, Attributed, IsDomain, DomainIn
        <4> QED
          BY <4>1, <4>2 DEF Generation
      <3> QED
        BY <3>1 DEF Generation, TransactionsOf
    <2>4. ASSUME e.status = "reversed", NEW t \in TransactionsOf(db, a)
          PROVE  \E c \in db.ledger : Compensations(db, t) = {c} /\ c.action = e.reversedBy
      <3>1. PICK c \in db.ledger : Compensations(db, t) = {c}
        BY <2>1, <2>4 DEF Matched
      <3>2. t \in db.ledger /\ t.action = a
        BY DEF TransactionsOf
      <3> QED
        BY <2>1, <3>1, <3>2 DEF Matched
    <2>5. ASSUME e.status = "purged"
          PROVE  TransactionsOf(db, a) \cup TransactionsOf(db, e.reversedBy) = {}
      <3>1. TransactionsOf(db, a) = {}
        BY <2>1, <2>5 DEF Sound, JournalSound
      <3>2. e.reversedBy \in DOMAIN db.journal /\ ~DomainIn(db, e.reversedBy)
        BY <2>1, <2>5 DEF Matched, Active
      <3>3. ASSUME NEW c \in TransactionsOf(db, e.reversedBy) PROVE FALSE
        <4>1. c \in db.ledger /\ c.action = e.reversedBy /\ c.action # NULL
          BY <2>1, <3>2, DatabaseFields, LedgerConstants DEF TransactionsOf, Sound
        <4>2. c.reverses # NULL
          BY <2>1, <3>2, <4>1 DEF Sound, Attributed
        <4>3. PICK t \in db.ledger : Source(db, c, t)
          BY <2>1, <4>1, <4>2 DEF Sound, Attributed
        <4>4. db.journal[t.action].reversedBy = e.reversedBy
          BY <2>1, <4>1, <4>3 DEF Matched, Compensations, Source
        <4>5. t.action \in DOMAIN db.journal
          BY <2>1, <4>3 DEF Sound, Attributed, Source
        <4>6. t.action = a
          BY <2>1, <4>1, <4>4, <4>5 DEF Matched
        <4> QED
          BY <3>1, <4>3, <4>6 DEF TransactionsOf
      <3> QED
        BY <3>1, <3>3
    <2>6. ASSUME ~IsDomain(a)
          PROVE  \E b \in DOMAIN db.journal :
                   { n \in DOMAIN db.journal : db.journal[n].reversedBy = a } = {b}
      <3>1. PICK b \in DOMAIN db.journal : db.journal[b].reversedBy = a
        BY <2>1, <2>6 DEF Matched, IsDomain, DomainIn
      <3>2. \A n \in DOMAIN db.journal : db.journal[n].reversedBy = a => n = b
        BY <2>1, <2>2, <3>1 DEF Matched
      <3> QED
        BY <3>1, <3>2
    <2> QED
      BY <2>3, <2>4, <2>5, <2>6
  <1> QED
    BY <1>1, JournalInvInit, JournalInvStep, PTL DEF Spec

(* As long as no operation was logged while a reversal was under way, no     *)
(* active action rests on one that has been reversed: the cascade that is    *)
(* confirmed takes everything built on the target with it.                  *)
THEOREM NothingRestsOnReversed == Spec => []NothingBuiltOnReversed
  <1>1. JournalInv => NothingBuiltOnReversed
    BY DEF JournalInv, NothingBuilt, NothingBuiltOnReversed, IsDomain, DomainIn
  <1> QED
    BY <1>1, JournalInvInit, JournalInvStep, PTL DEF Spec

(* No cascade overdraws a key, whatever was taken away between preview and   *)
(* confirmation, in a plant that starts with nothing below zero and whose    *)
(* commands may not overdraw, as long as no two requests overlap.           *)
THEOREM NothingOverdrawn ==
    ASSUME NothingForced,
           \A k \in BalanceKey : Materialised(k) => LedgerNet(InitialLedger, k) >= 0
    PROVE  Spec => []NeverNegative
  <1>1. Init => JournalInv /\ NeverNegative
    BY JournalInvInit DEF Init, NeverNegative
  <1>2. JournalInv /\ NeverNegative /\ [Next]_vars => JournalInv' /\ NeverNegative'
    BY JournalInvStep DEF NeverNegative, NonNegative
  <1> QED
    BY <1>1, <1>2, PTL DEF Spec

(* The preview tells the truth: as long as no two requests overlap, it finds *)
(* a cascade covered exactly when the reversals, node after node, find the   *)
(* material they take back.  Of a plant that starts with nothing below zero  *)
(* and whose commands may not overdraw, as for NothingOverdrawn; and where   *)
(* CreditedAsTaken does not hold the preview may refuse what would go through. *)
THEOREM PreviewIsRight ==
    ASSUME NothingForced, CreditedAsTaken,
           \A k \in BalanceKey : Materialised(k) => LedgerNet(InitialLedger, k) >= 0
    PROVE  Spec => []PreviewTellsTheTruth
  <1>1. JournalInv /\ NeverNegative => PreviewTellsTheTruth
    <2> SUFFICES ASSUME JournalInv, NeverNegative, ~overlapped, NEW a \in DOMAIN db.journal,
                        NEW cascade \in BOOLEAN, Active(db, a)
                 PROVE  LET nodes == RevertNodes(db, a, cascade) IN
                        CascadeCovered(db, nodes) <=> CarriedOut(db, nodes) # Failed
      BY DEF PreviewTellsTheTruth
    <2>1. Sound(db) /\ Matched(db) /\ NonNegative(db)
      BY DEF JournalInv, NeverNegative, NonNegative
    <2>2. CascadeNodes(db, RevertNodes(db, a, cascade))
      BY <2>1, PreviewNodes
    <2> QED
      BY <2>1, <2>2, WalksAgree
  <1>2. Init => JournalInv /\ NeverNegative
    BY JournalInvInit DEF Init, NeverNegative
  <1>3. JournalInv /\ NeverNegative /\ [Next]_vars => JournalInv' /\ NeverNegative'
    BY JournalInvStep DEF NeverNegative, NonNegative
  <1> QED
    BY <1>1, <1>2, <1>3, PTL DEF Spec
=============================================================================
