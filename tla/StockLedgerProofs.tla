------------------------- MODULE StockLedgerProofs --------------------------
(***************************************************************************)
(* The invariants of StockLedger, for every value of its constants.        *)
(***************************************************************************)
EXTENDS StockLedger, LedgerSums

----------------------------------------------------------------------------
(* What a reversal adds: the mirrors of its generation.                     *)

(* What a reversal compensates are finitely many direct transactions without compensation. *)
LEMMA GenerationFacts ==
    ASSUME TypeOK, NEW a
    PROVE  /\ Generation(a) \subseteq ledger
           /\ IsFiniteSet(Generation(a))
           /\ Cardinality(Generation(a)) \in Nat
           /\ \A t \in Generation(a) : t.reverses = NULL /\ Compensations(t) = {}
  <1>1. Generation(a) \in SUBSET ledger
    BY DEF Generation, TransactionsOf
  <1> QED
    BY <1>1, FS_Subset, FS_CardinalityType DEF TypeOK, Generation, InForce

(* The ids of the mirrors are the next ones, one for each source. *)
LEMMA MirrorIds ==
    ASSUME TypeOK, NEW a, NEW t \in Generation(a)
    PROVE  /\ MirrorId(Generation(a), t) \in Nat
           /\ nextId <= MirrorId(Generation(a), t)
           /\ MirrorId(Generation(a), t) < nextId + Cardinality(Generation(a))
           /\ \A u \in Generation(a) :
                MirrorId(Generation(a), u) = MirrorId(Generation(a), t) => u = t
  <1> DEFINE G == Generation(a)
             Before(u) == { v \in G : v.id < u.id }
  <1>1. G \subseteq ledger /\ IsFiniteSet(G) /\ Cardinality(G) \in Nat
    BY GenerationFacts
  <1>2. (\A u \in G : u.id \in Nat) /\ \A u, v \in G : u.id = v.id => u = v
    BY <1>1 DEF TypeOK, StockTransaction
  <1>3. \A u \in G : MirrorId(G, u) = nextId + Cardinality(Before(u))
    BY DEF MirrorId
  <1> HIDE DEF G
  <1>4. \A u \in G : /\ Cardinality(Before(u)) \in Nat /\ Cardinality(Before(u)) < Cardinality(G)
                     /\ \A v \in G : Cardinality(Before(v)) = Cardinality(Before(u)) => v = u
    BY <1>1, <1>2, Ranks
  <1> HIDE DEF Before
  <1>5. \A u \in G : MirrorId(G, u) = MirrorId(G, t) => u = t
    BY <1>3, <1>4 DEF TypeOK, G
  <1> QED
    BY <1>1, <1>3, <1>4, <1>5 DEF TypeOK, G

(* Its compensations are rows with new and different ids. *)
LEMMA MirroredFacts ==
    ASSUME TypeOK, NEW a
    PROVE  LET M == Mirrored(Generation(a)) IN
           /\ M \subseteq StockTransaction
           /\ IsFiniteSet(M)
           /\ \A m \in M : nextId <= m.id /\ m.id < nextId + Cardinality(Generation(a))
           /\ \A m, n \in M : m.id = n.id => m = n
  <1> DEFINE G == Generation(a)
             f == [ t \in G |-> Mirror(t, MirrorId(G, t)) ]
  <1>1. G \subseteq StockTransaction /\ IsFiniteSet(G)
    BY GenerationFacts DEF TypeOK
  <1>2. \A t \in G : f[t] \in StockTransaction /\ f[t].id = MirrorId(G, t)
    BY <1>1, MirrorIds, MirrorType
  <1>3. Mirrored(G) = { f[t] : t \in G }
    BY DEF Mirrored
  <1>4. f \in Surjection(G, Mirrored(G))
    BY <1>3 DEF Surjection
  <1>5. IsFiniteSet(Mirrored(G))
    BY <1>1, <1>4, FS_Surjection
  <1>6. \A m \in Mirrored(G) : nextId <= m.id /\ m.id < nextId + Cardinality(G)
    BY <1>2, <1>3, MirrorIds
  <1>7. \A m, n \in Mirrored(G) : m.id = n.id => m = n
    BY <1>2, <1>3, MirrorIds
  <1> QED
    BY <1>2, <1>3, <1>5, <1>6, <1>7

----------------------------------------------------------------------------

(* An empty ledger is well-typed. *)
LEMMA TypeInit == Init => TypeOK
  BY FS_EmptySet DEF Init, TypeOK

(* A command adds a row of the right type. *)
LEMMA TypeRecord ==
    ASSUME TypeOK, NEW c \in Commands, Record(c)
    PROVE  TypeOK'
  <1> DEFINE t == Transaction(c, nextId)
  <1>1. c \in StockCommand /\ Valid(c) /\ nextId \in Nat
    BY StockLedgerConstants DEF Record, TypeOK
  <1>2. t \in StockTransaction /\ t.id = nextId
    BY <1>1, TransactionType
  <1>3. ledger' = ledger \cup {t} /\ nextId' = nextId + 1
    BY DEF Record
  <1>4. IsFiniteSet(ledger')
    BY <1>3, FS_AddElement DEF TypeOK
  <1>5. balance' \in [ BalanceKey -> Int ]
    BY <1>4, RefreshType DEF Record, TypeOK
  <1>6. \A u \in ledger : u.id \in Nat
    BY DEF TypeOK, StockTransaction
  <1> HIDE DEF t
  <1>7. \A u \in ledger' : u.id < nextId'
    BY <1>1, <1>2, <1>3, <1>6 DEF TypeOK
  <1>8. \A u, v \in ledger' : u.id = v.id => u = v
    BY <1>1, <1>2, <1>3, <1>6 DEF TypeOK
  <1> QED
    BY <1>1, <1>2, <1>3, <1>4, <1>5, <1>7, <1>8 DEF TypeOK

(* A reversal adds its mirrors. *)
LEMMA TypeReverseAction ==
    ASSUME TypeOK, NEW a \in Actions, ReverseAction(a)
    PROVE  TypeOK'
  <1> DEFINE M == Mirrored(Generation(a))
             n == Cardinality(Generation(a))
  <1>1. /\ M \subseteq StockTransaction /\ IsFiniteSet(M)
        /\ \A m \in M : nextId <= m.id /\ m.id < nextId + n
        /\ \A m, l \in M : m.id = l.id => m = l
    BY MirroredFacts
  <1>2. n \in Nat
    BY GenerationFacts
  <1>3. ledger' = ledger \cup M /\ nextId' = nextId + n
    BY DEF ReverseAction
  <1>4. IsFiniteSet(ledger')
    BY <1>1, <1>3, FS_Union DEF TypeOK
  <1>5. balance' \in [ BalanceKey -> Int ]
    BY <1>4, RefreshType DEF ReverseAction, TypeOK
  <1>6. (\A u \in ledger : u.id \in Nat) /\ (\A m \in M : m.id \in Nat)
    BY <1>1 DEF TypeOK, StockTransaction
  <1> HIDE DEF M, n
  <1>7. \A u \in ledger' : u.id < nextId'
    BY <1>1, <1>2, <1>3, <1>6 DEF TypeOK
  <1>8. \A u, v \in ledger' : u.id = v.id => u = v
    BY <1>1, <1>2, <1>3, <1>6 DEF TypeOK
  <1> QED
    BY <1>1, <1>2, <1>3, <1>4, <1>5, <1>7, <1>8 DEF TypeOK

(* A purge only takes rows. *)
LEMMA TypeHardPurge ==
    ASSUME TypeOK, NEW a \in Actions, HardPurge(a)
    PROVE  TypeOK'
  <1>1. ledger' \in SUBSET ledger /\ UNCHANGED << balance, nextId >>
    BY DEF HardPurge
  <1>2. IsFiniteSet(ledger')
    BY <1>1, FS_Subset DEF TypeOK
  <1> QED
    BY <1>1, <1>2 DEF TypeOK

(* A forced deletion takes rows and recomputes balances. *)
LEMMA TypeForceDelete ==
    ASSUME TypeOK, NEW ts \in Batches, ForceDelete(ts)
    PROVE  TypeOK'
  <1>1. ledger' \in SUBSET ledger /\ UNCHANGED nextId
    BY DEF ForceDelete
  <1>2. IsFiniteSet(ledger')
    BY <1>1, FS_Subset DEF TypeOK
  <1>3. balance' \in [ BalanceKey -> Int ]
    BY <1>2, RefreshType DEF ForceDelete, TypeOK
  <1> QED
    BY <1>1, <1>2, <1>3 DEF TypeOK

(* A rebuild recomputes every balance. *)
LEMMA TypeRebuild ==
    ASSUME TypeOK, RebuildAllBalances
    PROVE  TypeOK'
  <1>1. balance' \in [ BalanceKey -> Int ]
    BY SidesFinite DEF RebuildAllBalances, TypeOK
  <1> QED
    BY <1>1 DEF RebuildAllBalances, TypeOK

(* Type correctness, with the primary key: ids are given out once and a row  *)
(* that passed the checks of record() or mirrors one that did satisfies the  *)
(* CHECK constraints of stock_transactions.                                  *)
THEOREM TypeCorrect == Spec => []TypeOK
  <1>1. TypeOK /\ [Next]_vars => TypeOK'
    <2> SUFFICES ASSUME TypeOK, [Next]_vars PROVE TypeOK'
      OBVIOUS
    <2>1. CASE \E c \in Commands : Record(c)
      BY <2>1, TypeRecord
    <2>2. CASE \E a \in Actions : ReverseAction(a)
      BY <2>2, TypeReverseAction
    <2>3. CASE \E a \in Actions : HardPurge(a)
      BY <2>3, TypeHardPurge
    <2>4. CASE \E ts \in Batches : ForceDelete(ts)
      BY <2>4, TypeForceDelete
    <2>5. CASE RebuildAllBalances
      BY <2>5, TypeRebuild
    <2>6. CASE UNCHANGED vars
      BY <2>6 DEF vars, TypeOK
    <2> QED
      BY <2>1, <2>2, <2>3, <2>4, <2>5, <2>6 DEF Next
  <1> QED
    BY <1>1, TypeInit, PTL DEF Spec

----------------------------------------------------------------------------
(* The inductive invariant.  The balance is exact only because a purge takes *)
(* exact mirrors away, and those stay exact mirrors because sources and      *)
(* compensations leave the ledger together.                                  *)

LedgerInv == TypeOK /\ CompensationsMirror /\ BalanceMatchesLedger

(* An empty ledger agrees with empty balances. *)
LEMMA LedgerInvInit == Init => LedgerInv
  <1> SUFFICES ASSUME Init PROVE LedgerInv
    OBVIOUS
  <1>1. TypeOK /\ CompensationsMirror
    BY TypeInit DEF Init, CompensationsMirror
  <1>2. \A k \in BalanceKey : LedgerNet(ledger, k) = 0
    <2>1. \A k \in BalanceKey : Units(Incoming(ledger, k)) = {} /\ Units(Outgoing(ledger, k)) = {}
      BY DEF Init, Incoming, Outgoing, Units
    <2> QED
      BY <2>1, FS_EmptySet DEF LedgerNet, SumQuantity
  <1>3. BalanceMatchesLedger
    BY <1>2 DEF Init, BalanceMatchesLedger
  <1> QED
    BY <1>1, <1>3 DEF LedgerInv

(* A command refreshes the keys of its row. *)
LEMMA InvRecord ==
    ASSUME LedgerInv, NEW c \in Commands, Record(c)
    PROVE  CompensationsMirror' /\ BalanceMatchesLedger'
  <1> DEFINE t == Transaction(c, nextId)
  <1>1. c \in StockCommand /\ Valid(c) /\ nextId \in Nat
    BY StockLedgerConstants DEF LedgerInv, Record, TypeOK
  <1>2. t.reverses = NULL
    BY <1>1, TransactionType
  <1>3. ledger' = ledger \cup {t} /\ balance' = RefreshBalance(balance, ledger', TouchedKeys(t))
    BY DEF Record
  <1> HIDE DEF t
  <1>4. CompensationsMirror'
    BY <1>2, <1>3 DEF LedgerInv, CompensationsMirror
  <1>5. \A u \in (ledger \ ledger') \cup (ledger' \ ledger) : TouchedKeys(u) \subseteq TouchedKeys(t)
    BY <1>3
  <1>6. Exact(RefreshBalance(balance, ledger', TouchedKeys(t)), ledger')
    BY <1>5, RefreshExact DEF LedgerInv, BalanceMatchesLedger, Exact
  <1> QED
    BY <1>3, <1>4, <1>6 DEF BalanceMatchesLedger, Exact

(* A reversal adds exactly one mirror for each transaction in force. *)
LEMMA InvReverseAction ==
    ASSUME LedgerInv, NEW a \in Actions, ReverseAction(a)
    PROVE  CompensationsMirror' /\ BalanceMatchesLedger'
  <1> DEFINE G == Generation(a)
             M == Mirrored(G)
             ks == UNION { TouchedKeys(t) : t \in M }
  <1>1. TypeOK
    BY DEF LedgerInv
  <1>2. /\ G \subseteq ledger
        /\ \A t \in G : t \in StockTransaction /\ t.reverses = NULL /\ Compensations(t) = {}
    BY <1>1, GenerationFacts DEF TypeOK
  <1>3. ledger' = ledger \cup M /\ balance' = RefreshBalance(balance, ledger', ks)
    BY DEF ReverseAction
  <1>4. \A m \in M : \E t \in G : m.reverses = t.id /\ m = Mirror(t, m.id)
    BY <1>1, <1>2, MirrorIds, MirrorType DEF Mirrored
  <1>5. \A m, n \in M : m.reverses = n.reverses => m = n
    <2> SUFFICES ASSUME NEW m \in M, NEW n \in M, m.reverses = n.reverses
                 PROVE  m = n
      OBVIOUS
    <2>1. PICK t \in G : m = Mirror(t, MirrorId(G, t))
      BY DEF Mirrored
    <2>2. PICK u \in G : n = Mirror(u, MirrorId(G, u))
      BY DEF Mirrored
    <2>3. m.reverses = t.id /\ n.reverses = u.id
      BY <1>1, <1>2, <2>1, <2>2, MirrorIds, MirrorType
    <2> QED
      BY <1>1, <1>2, <2>1, <2>2, <2>3 DEF TypeOK
  <1>6. \A m \in M, c \in ledger : m.reverses # c.reverses
    BY <1>2, <1>4 DEF Compensations
  <1>7. \A u \in (ledger \ ledger') \cup (ledger' \ ledger) : TouchedKeys(u) \subseteq ks
    BY <1>3
  <1> HIDE DEF M, G, ks
  <1>8. \A c \in ledger' : c.reverses # NULL =>
           \E t \in ledger' : t.reverses = NULL /\ c = Mirror(t, c.id)
    BY <1>2, <1>3, <1>4 DEF LedgerInv, CompensationsMirror
  <1>9. \A c, d \in ledger' : c.reverses = d.reverses /\ c.reverses # NULL => c = d
    BY <1>3, <1>5, <1>6 DEF LedgerInv, CompensationsMirror
  <1>10. Exact(RefreshBalance(balance, ledger', ks), ledger')
    BY <1>7, RefreshExact DEF LedgerInv, BalanceMatchesLedger, Exact
  <1> QED
    BY <1>3, <1>8, <1>9, <1>10 DEF CompensationsMirror, BalanceMatchesLedger, Exact

(* What the compensation of a row in a well-formed ledger is. *)
LEMMA CompensationFacts ==
    ASSUME LedgerInv, NEW t \in ledger, NEW c \in Compensations(t)
    PROVE  /\ c \in ledger /\ t.reverses = NULL /\ c.reverses = t.id /\ c.reverses # NULL
           /\ c = Mirror(t, c.id) /\ c.action = NULL
           /\ c.quantity = t.quantity /\ c.task = t.task /\ c.transfer = t.transfer
           /\ FromKey(c) = ToKey(t) /\ ToKey(c) = FromKey(t)
  <1>1. c \in ledger /\ c.reverses = t.id
    BY DEF Compensations
  <1>2. t.id \in Nat /\ t.id # NULL /\ c.id \in Nat
    BY <1>1, LedgerConstants DEF LedgerInv, TypeOK, StockTransaction
  <1>3. PICK u \in ledger : u.reverses = NULL /\ c = Mirror(u, c.id)
    BY <1>1, <1>2 DEF LedgerInv, CompensationsMirror
  <1>4. u \in StockTransaction
    BY DEF LedgerInv, TypeOK
  <1>5. c.reverses = u.id
    BY <1>2, <1>3, <1>4, MirrorType
  <1>6. u = t
    BY <1>1, <1>5 DEF LedgerInv, TypeOK
  <1> QED
    BY <1>1, <1>2, <1>3, <1>4, <1>6, MirrorType

(* A deletion that takes a row's compensations along, and of a compensation  *)
(* its source, keeps the rest well-formed.                                   *)
LEMMA MirrorAfterDeletion ==
    ASSUME LedgerInv, NEW D, ledger' = ledger \ D,
           \A t \in ledger : t.reverses = NULL /\ t \in D => Compensations(t) \subseteq D
    PROVE  CompensationsMirror'
  <1>1. ASSUME NEW c \in ledger', c.reverses # NULL
        PROVE  \E t \in ledger' : t.reverses = NULL /\ c = Mirror(t, c.id)
    <2>1. c \in ledger /\ c \notin D
      OBVIOUS
    <2>2. PICK t \in ledger : t.reverses = NULL /\ c = Mirror(t, c.id)
      BY <1>1, <2>1 DEF LedgerInv, CompensationsMirror
    <2>3. t \in StockTransaction /\ c.id \in Nat
      BY <2>1 DEF LedgerInv, TypeOK, StockTransaction
    <2>4. c.reverses = t.id
      BY <2>2, <2>3, MirrorType
    <2>5. t \notin D
      BY <2>1, <2>2, <2>4 DEF Compensations
    <2> QED
      BY <2>2, <2>5
  <1>2. \A c, d \in ledger' : c.reverses = d.reverses /\ c.reverses # NULL => c = d
    BY DEF LedgerInv, CompensationsMirror
  <1> QED
    BY <1>1, <1>2 DEF CompensationsMirror

(* Compensated rows and their compensations, taken out of any part of the    *)
(* ledger that holds both, leave the balance of every key as it was.         *)
LEMMA PairsCancel ==
    ASSUME LedgerInv, NEW L \in SUBSET ledger, NEW T \in SUBSET L,
           \A t \in T : Compensations(t) # {} /\ Compensations(t) \subseteq L, NEW k
    PROVE  LedgerNet(L \ (T \cup UNION { Compensations(t) : t \in T }), k) = LedgerNet(L, k)
  <1> DEFINE C == UNION { Compensations(t) : t \in T }
             f == [ t \in T |-> CHOOSE c : c \in Compensations(t) ]
  <1>1. T \in SUBSET L /\ C \in SUBSET L /\ IsFiniteSet(L)
    BY FS_Subset DEF LedgerInv, TypeOK
  <1>2. \A t \in T : f[t] \in Compensations(t)
    OBVIOUS
  <1>3. \A t \in T : \A c \in Compensations(t) :
          /\ c \in ledger /\ t.reverses = NULL /\ c.reverses = t.id /\ c.reverses # NULL
          /\ c.quantity = t.quantity /\ FromKey(c) = ToKey(t) /\ ToKey(c) = FromKey(t)
    BY CompensationFacts
  <1>4. T \cap C = {}
    BY <1>3
  <1>5. f \in Bijection(T, C)
    <2>1. f \in [ T -> C ]
      BY <1>2
    <2>2. \A t, u \in T : f[t] = f[u] => t = u
      BY <1>1, <1>2, <1>3 DEF LedgerInv, TypeOK
    <2>3. \A c \in C : \E t \in T : f[t] = c
      BY <1>2, <1>3 DEF LedgerInv, CompensationsMirror
    <2> QED
      BY <2>1, <2>2, <2>3 DEF Bijection, Injection, Surjection, IsInjective
  <1>6. \A t \in T : /\ f[t].quantity = t.quantity
                     /\ FromKey(f[t]) = ToKey(t) /\ ToKey(f[t]) = FromKey(t)
    BY <1>2, <1>3
  <1> HIDE DEF C, f
  <1>7. LedgerNet(L \ (T \cup C), k) = LedgerNet(L, k)
    BY <1>1, <1>4, <1>5, <1>6, MirroredPairsCancel
  <1> QED
    BY <1>7 DEF C

(* What a purge takes are direct transactions, each with one compensation,   *)
(* and those compensations, which are of no action.                          *)
LEMMA PurgedPairs ==
    ASSUME LedgerInv, NEW a \in Actions, HardPurge(a)
    PROVE  LET T == TransactionsOf(a) IN
           /\ T \in SUBSET ledger
           /\ \A t \in T : /\ t.reverses = NULL /\ Compensations(t) # {}
                          /\ Compensations(t) \subseteq ledger
           /\ \A t \in T : \A c \in Compensations(t) : c.reverses # NULL /\ c.action = NULL
  <1> DEFINE T == TransactionsOf(a)
  <1>1. T \in SUBSET ledger
    BY DEF TransactionsOf
  <1>2. \A t \in T : Compensations(t) # {}
    BY FS_EmptySet DEF HardPurge, PairedOneToOne
  <1>3. \A t \in T : \A c \in Compensations(t) :
          /\ c \in ledger /\ t.reverses = NULL /\ c.reverses # NULL /\ c.action = NULL
    BY <1>1, CompensationFacts
  <1> QED
    BY <1>1, <1>2, <1>3

(* A purge changes the balance of no key. *)
LEMMA PurgeCancels ==
    ASSUME LedgerInv, NEW a \in Actions, HardPurge(a), NEW k
    PROVE  LedgerNet(ledger', k) = LedgerNet(ledger, k)
  <1>1. ledger' = ledger \ (TransactionsOf(a) \cup UNION { Compensations(t) : t \in TransactionsOf(a) })
    BY DEF HardPurge
  <1> QED
    BY <1>1, PurgedPairs, PairsCancel

(* What a purge takes cancels on every key. *)
LEMMA InvHardPurge ==
    ASSUME LedgerInv, NEW a \in Actions, HardPurge(a)
    PROVE  CompensationsMirror' /\ BalanceMatchesLedger'
  <1> DEFINE T == TransactionsOf(a)
             C == UNION { Compensations(t) : t \in T }
  <1>1. ledger' = ledger \ (T \cup C) /\ balance' = balance
    BY DEF HardPurge
  <1>2. \A t \in ledger : t.reverses = NULL /\ t \in T \cup C => Compensations(t) \subseteq T \cup C
    BY PurgedPairs
  <1> HIDE DEF T, C
  <1>3. CompensationsMirror'
    BY <1>1, <1>2, MirrorAfterDeletion
  <1>4. BalanceMatchesLedger'
    BY <1>1, PurgeCancels DEF LedgerInv, BalanceMatchesLedger
  <1> QED
    BY <1>3, <1>4

(* A forced deletion takes no source without its compensation and no compensation without its source. *)
LEMMA InvForceDelete ==
    ASSUME LedgerInv, NEW ts \in Batches, ForceDelete(ts)
    PROVE  CompensationsMirror' /\ BalanceMatchesLedger'
  <1> DEFINE D == BatchTransactions(ts)
             ks == UNION { TouchedKeys(t) : t \in D }
  <1>1. ledger' = ledger \ D /\ balance' = RefreshBalance(balance, ledger', ks)
    BY DEF ForceDelete
  <1>2. \A t \in ledger : t \in D => Compensations(t) \subseteq D
    BY CompensationFacts DEF BatchTransactions
  <1>3. \A u \in (ledger \ ledger') \cup (ledger' \ ledger) : TouchedKeys(u) \subseteq ks
    BY <1>1
  <1> HIDE DEF D, ks
  <1>4. CompensationsMirror'
    BY <1>1, <1>2, MirrorAfterDeletion
  <1>5. Exact(RefreshBalance(balance, ledger', ks), ledger')
    BY <1>3, RefreshExact DEF LedgerInv, BalanceMatchesLedger, Exact
  <1> QED
    BY <1>1, <1>4, <1>5 DEF BalanceMatchesLedger, Exact

(* Every operation keeps balances and compensations exact. *)
LEMMA LedgerInvStep == LedgerInv /\ [Next]_vars => LedgerInv'
  <1> SUFFICES ASSUME LedgerInv, [Next]_vars
               PROVE  CompensationsMirror' /\ BalanceMatchesLedger' /\ TypeOK'
    BY DEF LedgerInv
  <1> USE DEF LedgerInv
  <1>1. CASE \E c \in Commands : Record(c)
    BY <1>1, TypeRecord, InvRecord
  <1>2. CASE \E a \in Actions : ReverseAction(a)
    BY <1>2, TypeReverseAction, InvReverseAction
  <1>3. CASE \E a \in Actions : HardPurge(a)
    BY <1>3, TypeHardPurge, InvHardPurge
  <1>4. CASE \E ts \in Batches : ForceDelete(ts)
    BY <1>4, TypeForceDelete, InvForceDelete
  <1>5. CASE RebuildAllBalances
    BY <1>5, TypeRebuild DEF RebuildAllBalances, CompensationsMirror, BalanceMatchesLedger
  <1>6. CASE UNCHANGED vars
    BY <1>6 DEF vars, TypeOK, CompensationsMirror, BalanceMatchesLedger
  <1> QED
    BY <1>1, <1>2, <1>3, <1>4, <1>5, <1>6 DEF Next

(* S1: in every reachable state every balance row is the ledger's sum over   *)
(* its key, whatever is recorded, reversed, purged and deleted in whatever   *)
(* order.                                                                    *)
THEOREM BalanceCorrect == Spec => []BalanceMatchesLedger
  <1>1. LedgerInv => BalanceMatchesLedger
    BY DEF LedgerInv
  <1> QED
    BY <1>1, LedgerInvInit, LedgerInvStep, PTL DEF Spec

(* Every compensation is the exact mirror of one row still in the ledger,    *)
(* and no row has two.                                                       *)
THEOREM CompensationsCorrect == Spec => []CompensationsMirror
  <1>1. LedgerInv => CompensationsMirror
    BY DEF LedgerInv
  <1> QED
    BY <1>1, LedgerInvInit, LedgerInvStep, PTL DEF Spec

----------------------------------------------------------------------------
(* What one step does to the balance of a key.                              *)

(* The balance of a key after a command: its quantity less at the source,    *)
(* its quantity more at the destination.                                     *)
LEMMA NetAfterRecord ==
    ASSUME LedgerInv, NEW c \in Commands, Record(c), NEW k
    PROVE  LET t == Transaction(c, nextId) IN
           /\ LedgerNet(ledger', k) = LedgerNet(ledger, k) + LedgerNet({t}, k)
           /\ LedgerNet({t}, k) = (IF ToKey(t) = k THEN c.quantity ELSE 0)
                                  - (IF FromKey(t) = k THEN c.quantity ELSE 0)
           /\ LedgerNet(ledger, k) \in Int /\ c.quantity \in Nat \ {0}
           /\ t \notin ledger /\ ledger' = ledger \cup {t}
           /\ FromKey(t) = SourceKey(c)
  <1> DEFINE t == Transaction(c, nextId)
  <1>1. c \in StockCommand /\ Valid(c) /\ nextId \in Nat /\ IsFiniteSet(ledger)
    BY StockLedgerConstants DEF LedgerInv, Record, TypeOK
  <1>2. t \in StockTransaction /\ t.id = nextId
    BY <1>1, TransactionType
  <1>3. ledger' = ledger \cup {t}
    BY DEF Record
  <1>4. t.quantity = c.quantity /\ FromKey(t) = SourceKey(c)
    BY DEF Transaction, FromKey, SourceKey
  <1>5. t.quantity \in 1..MaxQuantity /\ t.quantity \in Nat \ {0}
    BY <1>2, LedgerConstants DEF StockTransaction
  <1> HIDE DEF t
  <1>6. t \notin ledger
    BY <1>1, <1>2 DEF LedgerInv, TypeOK
  <1>7. IsFiniteSet(ledger') /\ {t} \in SUBSET ledger' /\ ledger' \ {t} = ledger
    BY <1>1, <1>3, <1>6, FS_AddElement
  <1>8. LedgerNet(ledger', k) = LedgerNet(ledger, k) + LedgerNet({t}, k) /\ LedgerNet(ledger, k) \in Int
    BY <1>7, NetOfRest
  <1>9. LedgerNet({t}, k) = (IF ToKey(t) = k THEN t.quantity ELSE 0)
                            - (IF FromKey(t) = k THEN t.quantity ELSE 0)
    BY <1>5, NetOfOne
  <1> QED
    BY <1>3, <1>4, <1>5, <1>6, <1>8, <1>9 DEF t

(* A command that lowers the balance of a key is one that takes from it, and *)
(* it has found enough there or may go below zero.                           *)
LEMMA WithdrawalChecked ==
    ASSUME LedgerInv, NEW c \in Commands, Record(c), NEW k \in BalanceKey,
           LedgerNet(ledger', k) < LedgerNet(ledger, k)
    PROVE  /\ SourceKey(c) = k
           /\ LedgerNet(ledger', k) = LedgerNet(ledger, k) - c.quantity
           /\ c.quantity \in Nat \ {0}
           /\ \/ balance[k] >= c.quantity
              \/ c.allowNegative /\ k.location \notin LotTracked
  <1> DEFINE t == Transaction(c, nextId)
  <1>1. /\ LedgerNet(ledger', k) = LedgerNet(ledger, k) + LedgerNet({t}, k)
        /\ LedgerNet({t}, k) = (IF ToKey(t) = k THEN c.quantity ELSE 0)
                               - (IF FromKey(t) = k THEN c.quantity ELSE 0)
        /\ LedgerNet(ledger, k) \in Int /\ c.quantity \in Nat \ {0}
        /\ FromKey(t) = SourceKey(c)
    BY NetAfterRecord
  <1>2. FromKey(t) = k /\ ToKey(t) # k
    BY <1>1
  <1>3. SourceKey(c) = k /\ k.location = c.from /\ c.from # NULL
    BY <1>1, <1>2, LedgerConstants DEF SourceKey, BalanceKey
  <1>4. ~MovesNothing(c)
    BY <1>2 DEF MovesNothing, Transaction, FromKey, ToKey
  <1>5. Sufficient(c, balance[k])
    BY <1>3 DEF Record
  <1>6. LedgerNet(ledger', k) = LedgerNet(ledger, k) - c.quantity
    BY <1>1, <1>2
  <1> QED
    BY <1>1, <1>3, <1>4, <1>5, <1>6 DEF Sufficient

(* The mirrors a reversal writes correspond one to one to its generation.    *)
LEMMA MirrorBijection ==
    ASSUME LedgerInv, NEW a
    PROVE  LET G == Generation(a)
               f == [ t \in G |-> Mirror(t, MirrorId(G, t)) ] IN
           /\ f \in Bijection(G, Mirrored(G))
           /\ \A t \in G : /\ f[t].quantity = t.quantity
                           /\ FromKey(f[t]) = ToKey(t) /\ ToKey(f[t]) = FromKey(t)
           /\ Mirrored(G) \cap ledger = {}
  <1> DEFINE G == Generation(a)
             f == [ t \in G |-> Mirror(t, MirrorId(G, t)) ]
  <1>1. TypeOK
    BY DEF LedgerInv
  <1>2. G \subseteq StockTransaction
    BY <1>1, GenerationFacts DEF TypeOK
  <1>3. \A t \in G : /\ f[t].id = MirrorId(G, t) /\ f[t].quantity = t.quantity
                     /\ FromKey(f[t]) = ToKey(t) /\ ToKey(f[t]) = FromKey(t)
    BY <1>1, <1>2, MirrorIds, MirrorType
  <1>4. Mirrored(G) = { f[t] : t \in G }
    BY DEF Mirrored
  <1>5. \A t, u \in G : f[t] = f[u] => t = u
    BY <1>1, <1>3, MirrorIds
  <1>6. \A m \in Mirrored(G) : nextId <= m.id /\ m.id \in Nat
    BY <1>1, MirroredFacts DEF StockTransaction
  <1>7. Mirrored(G) \cap ledger = {}
    BY <1>1, <1>6 DEF TypeOK, StockTransaction
  <1>8. f \in Bijection(G, Mirrored(G))
    BY <1>4, <1>5 DEF Bijection, Injection, Surjection, IsInjective
  <1> QED
    BY <1>3, <1>7, <1>8

(* The balance of a key after a reversal: what the generation took from it   *)
(* comes back, what the generation brought there, the coverage need, goes.   *)
LEMMA NetAfterReversal ==
    ASSUME LedgerInv, NEW a \in Actions, ReverseAction(a), NEW k
    PROVE  LET back == SumQuantity(Outgoing(Generation(a), k))
               need == CoverageNeed(Generation(a), k) IN
           /\ LedgerNet(ledger', k) = LedgerNet(ledger, k) + (back - need)
           /\ back \in Nat /\ need \in Nat /\ LedgerNet(ledger, k) \in Int
           /\ LedgerNet(Generation(a), k) = need - back
  <1> DEFINE G == Generation(a)
             M == Mirrored(G)
             f == [ t \in G |-> Mirror(t, MirrorId(G, t)) ]
  <1>1. TypeOK
    BY DEF LedgerInv
  <1>2. IsFiniteSet(G) /\ IsFiniteSet(M) /\ IsFiniteSet(ledger)
    BY <1>1, GenerationFacts, MirroredFacts DEF TypeOK
  <1>3. f \in Bijection(G, M) /\ M \cap ledger = {}
    BY MirrorBijection
  <1>4. \A t \in G : /\ f[t].quantity = t.quantity
                     /\ FromKey(f[t]) = ToKey(t) /\ ToKey(f[t]) = FromKey(t)
    BY MirrorBijection
  <1>5. ledger' = ledger \cup M
    BY DEF ReverseAction
  <1>6. CoverageNeed(G, k) = SumQuantity(Incoming(G, k))
    BY DEF CoverageNeed, Incoming
  <1>10. LedgerNet(G, k) = SumQuantity(Incoming(G, k)) - SumQuantity(Outgoing(G, k))
    BY DEF LedgerNet
  <1> HIDE DEF G, M, f
  <1>7. /\ LedgerNet(M, k) = SumQuantity(Outgoing(G, k)) - SumQuantity(Incoming(G, k))
        /\ SumQuantity(Outgoing(G, k)) \in Nat /\ SumQuantity(Incoming(G, k)) \in Nat
    BY <1>2, <1>3, <1>4, NetOfMirrors
  <1>8. IsFiniteSet(ledger') /\ M \in SUBSET ledger' /\ ledger' \ M = ledger
    BY <1>2, <1>3, <1>5, FS_Union
  <1>9. LedgerNet(ledger', k) = LedgerNet(ledger, k) + LedgerNet(M, k) /\ LedgerNet(ledger, k) \in Int
    BY <1>8, NetOfRest
  <1> QED
    BY <1>6, <1>7, <1>9, <1>10 DEF G

(* A reversal that lowers the balance of a key has found what it takes away. *)
LEMMA ReversalCovered ==
    ASSUME LedgerInv, NEW a \in Actions, ReverseAction(a), NEW k \in BalanceKey,
           LedgerNet(ledger', k) < LedgerNet(ledger, k)
    PROVE  /\ balance[k] > 0
           /\ LedgerNet(ledger', k) >= LedgerNet(ledger, k) - balance[k]
  <1> DEFINE back == SumQuantity(Outgoing(Generation(a), k))
             need == CoverageNeed(Generation(a), k)
  <1>1. /\ LedgerNet(ledger', k) = LedgerNet(ledger, k) + (back - need)
        /\ back \in Nat /\ need \in Nat /\ LedgerNet(ledger, k) \in Int
    BY NetAfterReversal
  <1>2. need > 0 => balance[k] >= need
    BY DEF ReverseAction, Covered
  <1>3. balance[k] \in Int
    BY DEF LedgerInv, TypeOK
  <1> HIDE DEF back, need
  <1> QED
    BY <1>1, <1>2, <1>3

----------------------------------------------------------------------------

(* Only a permitted command or a forced deletion takes a key below zero.     *)
LEMMA NegativeStep ==
    ASSUME LedgerInv, LedgerInv', [Next]_vars, NEW k \in BalanceKey,
           balance'[k] < balance[k], balance'[k] < 0
    PROVE  \/ \E c \in Commands :
                Record(c) /\ c.allowNegative /\ SourceKey(c) = k /\ k.location \notin LotTracked
           \/ \E ts \in Batches : ForceDelete(ts)
  <1>1. /\ balance[k] = IF Materialised(k) THEN LedgerNet(ledger, k) ELSE 0
        /\ balance'[k] = IF Materialised(k) THEN LedgerNet(ledger', k) ELSE 0
    BY DEF LedgerInv, BalanceMatchesLedger
  <1>2. balance[k] \in Int /\ balance'[k] \in Int
    BY DEF LedgerInv, TypeOK
  <1>3. /\ balance[k] = LedgerNet(ledger, k) /\ balance'[k] = LedgerNet(ledger', k)
        /\ LedgerNet(ledger', k) < LedgerNet(ledger, k)
    BY <1>1, <1>2
  <1>4. CASE \E c \in Commands : Record(c)
    <2>1. PICK c \in Commands : Record(c)
      BY <1>4
    <2>2. ~(balance[k] >= c.quantity)
      BY <1>2, <1>3, <2>1, WithdrawalChecked
    <2> QED
      BY <1>3, <2>1, <2>2, WithdrawalChecked
  <1>5. CASE \E a \in Actions : ReverseAction(a)
    BY <1>2, <1>3, <1>5, ReversalCovered
  <1>6. CASE \E a \in Actions : HardPurge(a)
    BY <1>2, <1>3, <1>6, PurgeCancels
  <1>7. CASE RebuildAllBalances \/ UNCHANGED vars
    <2>1. ledger' = ledger
      BY <1>7 DEF RebuildAllBalances, vars
    <2> QED
      BY <1>2, <1>3, <2>1
  <1> QED
    BY <1>4, <1>5, <1>6, <1>7 DEF Next

(* "The remainder is >= 0 before and after": no reversal, no purge and no    *)
(* rebuild takes a balance below zero, and a command does only with          *)
(* allow_negative at a place that keeps no lots.                             *)
THEOREM NegativeByPermission == Spec => NegativeOnlyByPermission
  <1>1. LedgerInv /\ LedgerInv' /\ [Next]_vars =>
          [ \A k \in BalanceKey :
              balance'[k] < balance[k] /\ balance'[k] < 0 =>
                \/ \E c \in Commands :
                     Record(c) /\ c.allowNegative /\ SourceKey(c) = k /\ k.location \notin LotTracked
                \/ \E ts \in Batches : ForceDelete(ts) ]_vars
    BY NegativeStep
  <1> QED
    BY <1>1, LedgerInvInit, LedgerInvStep, PTL DEF Spec, NegativeOnlyByPermission

(* Only a permitted command or a forced deletion takes material from a       *)
(* terminal section.                                                         *)
LEMMA TerminalStep ==
    ASSUME LedgerInv, [Next]_vars, NEW k \in BalanceKey, ~Materialised(k),
           LedgerNet(ledger', k) < LedgerNet(ledger, k)
    PROVE  \/ \E c \in Commands : Record(c) /\ c.allowNegative /\ SourceKey(c) = k
           \/ \E ts \in Batches : ForceDelete(ts)
  <1>1. balance[k] = 0 /\ LedgerNet(ledger, k) \in Int
    BY SidesFinite DEF LedgerInv, BalanceMatchesLedger, TypeOK
  <1>2. CASE \E c \in Commands : Record(c)
    <2>1. PICK c \in Commands : Record(c)
      BY <1>2
    <2>2. /\ SourceKey(c) = k /\ c.quantity \in Nat \ {0}
          /\ balance[k] >= c.quantity \/ c.allowNegative
      BY <2>1, WithdrawalChecked
    <2> QED
      BY <1>1, <2>1, <2>2
  <1>3. CASE \E a \in Actions : ReverseAction(a)
    BY <1>1, <1>3, ReversalCovered
  <1>4. CASE \E a \in Actions : HardPurge(a)
    BY <1>1, <1>4, PurgeCancels
  <1>5. CASE RebuildAllBalances \/ UNCHANGED vars
    <2>1. ledger' = ledger
      BY <1>5 DEF RebuildAllBalances, vars
    <2> QED
      BY <1>1, <2>1
  <1> QED
    BY <1>2, <1>3, <1>4, <1>5 DEF Next

(* What has arrived at a terminal section is out of the reach of reversals:  *)
(* the coverage check looks for a balance row that is never there.           *)
THEOREM TerminalKeeps == Spec => TerminalKeepsMaterial
  <1>1. LedgerInv /\ [Next]_vars =>
          [ \A k \in BalanceKey :
              ~Materialised(k) /\ LedgerNet(ledger', k) < LedgerNet(ledger, k) =>
                \/ \E c \in Commands : Record(c) /\ c.allowNegative /\ SourceKey(c) = k
                \/ \E ts \in Batches : ForceDelete(ts) ]_vars
    BY TerminalStep
  <1> QED
    BY <1>1, LedgerInvInit, LedgerInvStep, PTL DEF Spec, TerminalKeepsMaterial

----------------------------------------------------------------------------
(* The refinement: which transactions are in force after a step.            *)

(* A step that keeps the rows without compensation apart from D, and gives   *)
(* nothing of the rest a compensation or takes one away, takes D from what   *)
(* is in force.                                                              *)
LEMMA InForceAfterDeletion ==
    ASSUME LedgerInv, NEW D, ledger' = ledger \ D,
           \A t \in ledger : Compensations(t) \cap D # {} => t \in D
    PROVE  InForce' = InForce \ D
  <1>1. \A t \in ledger' : Compensations(t)' = Compensations(t)
    BY DEF Compensations
  <1> QED
    BY <1>1 DEF InForce

(* A command puts its row in force. *)
LEMMA InForceRecord ==
    ASSUME LedgerInv, NEW c \in Commands, Record(c)
    PROVE  /\ InForce' = InForce \cup {Transaction(c, nextId)}
           /\ Transaction(c, nextId) \notin InForce
  <1> DEFINE t == Transaction(c, nextId)
  <1>1. c \in StockCommand /\ Valid(c) /\ nextId \in Nat
    BY StockLedgerConstants DEF LedgerInv, Record, TypeOK
  <1>2. t.id = nextId /\ t.reverses = NULL
    BY <1>1, TransactionType
  <1>3. t \notin ledger /\ ledger' = ledger \cup {t}
    BY NetAfterRecord
  <1>4. \A u \in ledger : u.id \in Nat /\ u.id # NULL /\ u.id < nextId
    BY LedgerConstants DEF LedgerInv, TypeOK, StockTransaction
  <1>5. nextId # NULL
    BY <1>1, LedgerConstants
  <1> HIDE DEF t
  <1>6. \A u \in ledger : Compensations(u)' = Compensations(u)
    BY <1>2, <1>3, <1>4 DEF Compensations
  <1>7. ASSUME NEW d \in ledger', d.reverses = t.id
        PROVE  FALSE
    <2>1. d \in ledger /\ d.reverses = nextId /\ d.id \in Nat
      BY <1>2, <1>3, <1>4, <1>5, <1>7
    <2>2. PICK u \in ledger : u.reverses = NULL /\ d = Mirror(u, d.id)
      BY <1>5, <2>1 DEF LedgerInv, CompensationsMirror
    <2>3. d.reverses = u.id
      BY <2>1, <2>2, MirrorType DEF LedgerInv, TypeOK
    <2> QED
      BY <1>1, <1>4, <2>1, <2>3
  <1>8. PICK s : s = t
    OBVIOUS
  <1>9. Compensations(s)' = {}
    BY <1>7, <1>8 DEF Compensations
  <1>10. InForce' = InForce \cup {s}
    BY <1>2, <1>3, <1>6, <1>8, <1>9 DEF InForce
  <1> QED
    BY <1>3, <1>8, <1>10 DEF t, InForce

(* A reversal takes its generation out of force; the mirrors are not in      *)
(* force.                                                                    *)
LEMMA InForceReversal ==
    ASSUME LedgerInv, NEW a \in Actions, ReverseAction(a)
    PROVE  InForce' = InForce \ Generation(a)
  <1> DEFINE G == Generation(a)
             M == Mirrored(G)
  <1>1. TypeOK
    BY DEF LedgerInv
  <1>2. G \subseteq ledger /\ ledger \subseteq StockTransaction
    BY <1>1, GenerationFacts DEF TypeOK
  <1>3. ledger' = ledger \cup M
    BY DEF ReverseAction
  <1>4. \A t \in G : t.id # NULL /\ t.id \in Nat
    BY <1>2, LedgerConstants DEF StockTransaction
  <1>5. \A m \in M : m.reverses # NULL /\ \E t \in G : m.reverses = t.id
    BY <1>1, <1>2, <1>4, MirrorIds, MirrorType DEF Mirrored
  <1>6. \A t \in G : \E m \in M : m.reverses = t.id
    <2> SUFFICES ASSUME NEW t \in G PROVE \E m \in M : m.reverses = t.id
      OBVIOUS
    <2>1. Mirror(t, MirrorId(G, t)) \in M
      BY DEF Mirrored
    <2>2. Mirror(t, MirrorId(G, t)).reverses = t.id
      BY DEF Mirror
    <2> QED
      BY <2>1, <2>2
  <1> HIDE DEF M, G
  <1>7. \A t \in G : Compensations(t)' # {}
    BY <1>3, <1>6 DEF Compensations
  <1>8. \A t \in ledger \ G : Compensations(t)' = Compensations(t)
    BY <1>1, <1>2, <1>3, <1>5 DEF Compensations, TypeOK
  <1>9. InForce' = InForce \ G
    BY <1>2, <1>3, <1>5, <1>7, <1>8 DEF InForce
  <1> QED
    BY <1>9 DEF G

(* A purge takes nothing that is in force and puts nothing back in force. *)
LEMMA InForcePurge ==
    ASSUME LedgerInv, NEW a \in Actions, HardPurge(a)
    PROVE  InForce' = InForce
  <1> DEFINE T == TransactionsOf(a)
             D == T \cup UNION { Compensations(t) : t \in T }
  <1>1. ledger' = ledger \ D
    BY DEF HardPurge
  <1>2. \A t \in T : Compensations(t) # {}
    BY PurgedPairs
  <1>3. \A t \in T : \A c \in Compensations(t) : c.reverses # NULL
    BY PurgedPairs
  <1>4. ASSUME NEW t \in ledger, NEW c \in Compensations(t), c \in D
        PROVE  t \in D
    <2>1. t.id # NULL /\ c.reverses = t.id
      BY LedgerConstants DEF LedgerInv, TypeOK, StockTransaction, Compensations
    <2>2. PICK u \in T : c \in Compensations(u)
      BY <1>4, <2>1, PurgedPairs
    <2>3. u \in ledger /\ u.id = t.id
      BY <2>1, <2>2, PurgedPairs DEF Compensations
    <2> QED
      BY <2>3 DEF LedgerInv, TypeOK
  <1>5. InForce \cap D = {}
    BY <1>2, <1>3 DEF InForce
  <1> HIDE DEF D
  <1>6. InForce' = InForce \ D
    BY <1>1, <1>4, InForceAfterDeletion
  <1> QED
    BY <1>5, <1>6

(* What a forced deletion takes: what is in force of it goes, and the rest   *)
(* of it cancels on every key.                                               *)
LEMMA InForceForceDelete ==
    ASSUME LedgerInv, NEW ts \in Batches, ForceDelete(ts)
    PROVE  LET M == BatchTransactions(ts) \cap InForce IN
           /\ InForce' = InForce \ M
           /\ \A k : /\ LedgerNet(ledger', k) = LedgerNet(ledger, k) - LedgerNet(M, k)
                     /\ LedgerNet(M, k) \in Int /\ LedgerNet(ledger, k) \in Int
  <1> DEFINE D == BatchTransactions(ts)
             T == { t \in D : t.reverses = NULL /\ Compensations(t) # {} }
             C == UNION { Compensations(t) : t \in T }
             M == D \cap InForce
  <1>1. ledger' = ledger \ D /\ D \in SUBSET ledger /\ IsFiniteSet(ledger) /\ IsFiniteSet(D)
    BY FS_Subset DEF ForceDelete, BatchTransactions, LedgerInv, TypeOK
  <1>2. \A t \in ledger : \A c \in Compensations(t) : c \in D => t \in D
    BY CompensationFacts DEF BatchTransactions
  <1>3. \A t \in D : Compensations(t) \subseteq D
    BY CompensationFacts DEF BatchTransactions
  <1>4. \A c \in D : c.reverses # NULL => \E t \in T : c \in Compensations(t)
    <2> SUFFICES ASSUME NEW c \in D, c.reverses # NULL PROVE \E t \in T : c \in Compensations(t)
      OBVIOUS
    <2>1. PICK t \in ledger : t.reverses = NULL /\ c = Mirror(t, c.id)
      BY <1>1 DEF LedgerInv, CompensationsMirror
    <2>2. c.id \in Nat /\ t \in StockTransaction
      BY <1>1 DEF LedgerInv, TypeOK, StockTransaction
    <2>3. c \in Compensations(t)
      BY <1>1, <2>1, <2>2, MirrorType DEF Compensations
    <2> QED
      BY <1>2, <2>1, <2>3
  <1>5. \A t \in T : \A c \in Compensations(t) : c \in D /\ c.reverses # NULL
    BY <1>1, <1>3, CompensationFacts
  <1>6. D \ (T \cup C) = M
    BY <1>1, <1>4, <1>5 DEF InForce
  <1>7. T \in SUBSET D /\ \A t \in T : Compensations(t) # {} /\ Compensations(t) \subseteq D
    BY <1>3
  <1> HIDE DEF D, M, T
  <1>8. \A t \in ledger : Compensations(t) \cap D # {} => t \in D
    BY <1>2
  <1>9. InForce' = InForce \ D
    BY <1>1, <1>8, InForceAfterDeletion
  <1>10. InForce \ D = InForce \ M
    BY DEF M
  <1>11. \A k : LedgerNet(M, k) = LedgerNet(D, k)
    BY <1>1, <1>6, <1>7, PairsCancel
  <1>12. \A k : /\ LedgerNet(ledger, k) = LedgerNet(ledger', k) + LedgerNet(D, k)
                /\ LedgerNet(ledger', k) \in Int /\ LedgerNet(D, k) \in Int
    BY <1>1, NetOfRest
  <1>13. \A k : /\ LedgerNet(ledger', k) = LedgerNet(ledger, k) - LedgerNet(M, k)
                /\ LedgerNet(M, k) \in Int /\ LedgerNet(ledger, k) \in Int
    BY <1>11, <1>12
  <1> QED
    BY <1>9, <1>10, <1>13 DEF M, D

----------------------------------------------------------------------------

(* The sums of the abstract specification are those of the ledger. *)
LEMMA AbstractEffect ==
    ASSUME NEW M, NEW k \in BalanceKey
    PROVE  Abstract!Effect(M)[k] = IF Materialised(k) THEN LedgerNet(M, k) ELSE 0
  <1>1. /\ Abstract!BalanceKey = BalanceKey
        /\ Abstract!Materialised(k) <=> Materialised(k)
    BY DEF Abstract!BalanceKey, BalanceKey, Abstract!QualityState, QualityState, Nullable,
           Abstract!Nullable, Materialised, Abstract!Materialised
  <1>2. \A S : Abstract!Cardinality(S) = Cardinality(S)
    BY DEF Abstract!Cardinality, Cardinality
  <1>3. \A S : Abstract!SumQuantity(S) = SumQuantity(S)
    BY <1>2 DEF Abstract!SumQuantity, SumQuantity, Abstract!Units, Units
  <1>4. /\ Abstract!Incoming(M, k) = Incoming(M, k)
        /\ Abstract!Outgoing(M, k) = Outgoing(M, k)
    BY DEF Abstract!Incoming, Incoming, Abstract!Outgoing, Outgoing,
           Abstract!ToKey, ToKey, Abstract!FromKey, FromKey
  <1>5. Abstract!LedgerNet(M, k) = LedgerNet(M, k)
    BY <1>3, <1>4 DEF Abstract!LedgerNet, LedgerNet
  <1> QED
    BY <1>1, <1>5 DEF Abstract!Effect

(* A step that adds m to what is in force and its effect to the balances is a Post. *)
LEMMA StepPosts ==
    ASSUME LedgerInv, LedgerInv', NEW m, m \notin InForce, InForce' = InForce \cup {m},
           \A k \in BalanceKey : /\ LedgerNet(ledger', k) = LedgerNet(ledger, k) + LedgerNet({m}, k)
                                 /\ LedgerNet({m}, k) \in Int /\ LedgerNet(ledger, k) \in Int
    PROVE  Abstract!Next
  <1>1. Abstract!BalanceKey = BalanceKey
    BY DEF Abstract!BalanceKey, BalanceKey, Abstract!QualityState, QualityState, Nullable,
           Abstract!Nullable
  <1>2. \A k \in BalanceKey : balance'[k] = balance[k] + Abstract!Effect({m})[k]
    BY AbstractEffect DEF LedgerInv, BalanceMatchesLedger
  <1>3. balance' \in [ BalanceKey -> Int ]
    BY DEF LedgerInv, TypeOK
  <1>4. balance' = [ k \in BalanceKey |-> balance[k] + Abstract!Effect({m})[k] ]
    BY <1>2, <1>3
  <1>5. Abstract!Post(m)
    BY <1>1, <1>4 DEF Abstract!Post
  <1> QED
    BY <1>5 DEF Abstract!Next

(* A step that takes M from what is in force and its effect from the         *)
(* balances is a Cancel, or nothing at all.                                  *)
LEMMA StepCancels ==
    ASSUME LedgerInv, LedgerInv', NEW M \in SUBSET InForce, InForce' = InForce \ M,
           \A k \in BalanceKey : /\ LedgerNet(ledger', k) = LedgerNet(ledger, k) - LedgerNet(M, k)
                                 /\ LedgerNet(M, k) \in Int /\ LedgerNet(ledger, k) \in Int
    PROVE  Abstract!Next \/ UNCHANGED << InForce, balance >>
  <1>1. Abstract!BalanceKey = BalanceKey
    BY DEF Abstract!BalanceKey, BalanceKey, Abstract!QualityState, QualityState, Nullable,
           Abstract!Nullable
  <1>2. balance \in [ BalanceKey -> Int ] /\ balance' \in [ BalanceKey -> Int ]
    BY DEF LedgerInv, TypeOK
  <1>3. CASE M = {}
    <2>1. \A k \in BalanceKey : LedgerNet(M, k) = 0
      BY <1>3, EmptySum, Zenon
    <2>2. \A k \in BalanceKey : balance'[k] = balance[k]
      BY <2>1 DEF LedgerInv, BalanceMatchesLedger
    <2> QED
      BY <1>2, <1>3, <2>2
  <1>4. CASE M # {}
    <2>1. \A k \in BalanceKey : balance'[k] = balance[k] - Abstract!Effect(M)[k]
      BY AbstractEffect DEF LedgerInv, BalanceMatchesLedger
    <2>2. balance' = [ k \in BalanceKey |-> balance[k] - Abstract!Effect(M)[k] ]
      BY <1>2, <2>1
    <2>3. Abstract!Cancel(M)
      BY <1>1, <1>4, <2>2 DEF Abstract!Cancel
    <2> QED
      BY <2>3 DEF Abstract!Next
  <1> QED
    BY <1>3, <1>4

(* Every step of the ledger posts a movement, cancels movements or cannot be *)
(* seen.                                                                     *)
LEMMA MovesStep ==
    ASSUME LedgerInv, LedgerInv', [Next]_vars
    PROVE  Abstract!Next \/ UNCHANGED << InForce, balance >>
  <1>1. CASE \E c \in Commands : Record(c)
    <2>1. PICK c \in Commands : Record(c)
      BY <1>1
    <2> DEFINE t == Transaction(c, nextId)
    <2>2. t \notin InForce /\ InForce' = InForce \cup {t}
      BY <2>1, InForceRecord
    <2>3. \A k : /\ LedgerNet(ledger', k) = LedgerNet(ledger, k) + LedgerNet({t}, k)
                 /\ LedgerNet({t}, k) \in Int /\ LedgerNet(ledger, k) \in Int
      <3> TAKE k
      <3>1. IsFiniteSet({t}) /\ IsFiniteSet(ledger)
        BY FS_Singleton DEF LedgerInv, TypeOK
      <3> QED
        BY <2>1, <3>1, NetAfterRecord, SidesFinite
    <2> HIDE DEF t
    <2> QED
      BY <2>2, <2>3, StepPosts
  <1>2. CASE \E a \in Actions : ReverseAction(a)
    <2>1. PICK a \in Actions : ReverseAction(a)
      BY <1>2
    <2>2. InForce' = InForce \ Generation(a) /\ Generation(a) \in SUBSET InForce
      BY <2>1, InForceReversal DEF Generation
    <2>3. \A k : /\ LedgerNet(ledger', k) = LedgerNet(ledger, k) - LedgerNet(Generation(a), k)
                 /\ LedgerNet(Generation(a), k) \in Int /\ LedgerNet(ledger, k) \in Int
      <3> TAKE k
      <3> DEFINE back == SumQuantity(Outgoing(Generation(a), k))
                 need == CoverageNeed(Generation(a), k)
      <3>1. /\ LedgerNet(ledger', k) = LedgerNet(ledger, k) + (back - need)
            /\ back \in Nat /\ need \in Nat /\ LedgerNet(ledger, k) \in Int
            /\ LedgerNet(Generation(a), k) = need - back
        BY <2>1, NetAfterReversal
      <3> HIDE DEF back, need
      <3> QED
        BY <3>1
    <2> QED
      BY <2>2, <2>3, StepCancels
  <1>3. CASE \E a \in Actions : HardPurge(a)
    BY <1>3, InForcePurge DEF HardPurge
  <1>4. CASE \E ts \in Batches : ForceDelete(ts)
    <2>1. PICK ts \in Batches : ForceDelete(ts)
      BY <1>4
    <2> DEFINE M == BatchTransactions(ts) \cap InForce
    <2>2. InForce' = InForce \ M /\ M \in SUBSET InForce
      BY <2>1, InForceForceDelete
    <2>3. \A k : /\ LedgerNet(ledger', k) = LedgerNet(ledger, k) - LedgerNet(M, k)
                 /\ LedgerNet(M, k) \in Int /\ LedgerNet(ledger, k) \in Int
      BY <2>1, InForceForceDelete
    <2> HIDE DEF M
    <2> QED
      BY <2>2, <2>3, StepCancels
  <1>5. CASE RebuildAllBalances
    <2>1. ledger' = ledger
      BY <1>5 DEF RebuildAllBalances
    <2>2. balance' = balance
      <3>1. \A k \in BalanceKey : balance'[k] = balance[k]
        BY <2>1 DEF LedgerInv, BalanceMatchesLedger
      <3> QED
        BY <3>1 DEF LedgerInv, TypeOK
    <2> QED
      BY <2>1, <2>2 DEF InForce, Compensations
  <1>6. CASE UNCHANGED vars
    BY <1>6 DEF vars, InForce, Compensations
  <1> QED
    BY <1>1, <1>2, <1>3, <1>4, <1>5, <1>6 DEF Next

(* The ledger implements the abstract stock of movements in force: what a    *)
(* reversal compensates is as if it had never been posted, a purge and a     *)
(* rebuild cannot be seen, and nothing else moves material.                  *)
THEOREM LedgerImplementsMoves == Spec => ImplementsMoves
  <1>1. Init => Abstract!Init
    BY DEF Init, Abstract!Init, InForce, Abstract!BalanceKey, BalanceKey, Abstract!QualityState,
           QualityState, Nullable, Abstract!Nullable
  <1>2. LedgerInv /\ LedgerInv' /\ [Next]_vars => [Abstract!Next]_(Abstract!vars)
    BY MovesStep DEF Abstract!vars
  <1> QED
    BY <1>1, <1>2, LedgerInvInit, LedgerInvStep, PTL DEF Spec, ImplementsMoves, Abstract!Spec

============================================================================
