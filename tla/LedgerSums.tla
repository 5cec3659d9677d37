----------------------------- MODULE LedgerSums -----------------------------
(***************************************************************************)
(* What the rows and the sums of LedgerRules are, and when sums are equal.  *)
(***************************************************************************)
EXTENDS LedgerRules, AmountsProofs

(* A command that passes _validate inserts a well-typed row. *)
LEMMA TransactionType ==
    ASSUME NEW c \in StockCommand, Valid(c), NEW id \in Nat
    PROVE  /\ Transaction(c, id) \in StockTransaction
           /\ Transaction(c, id).id = id /\ Transaction(c, id).reverses = NULL
  <1>1. c.quantity \in 1..MaxQuantity
    BY LedgerConstants DEF StockCommand, Valid
  <1>2. ResolvedOperations(c) \in Nullable(Operations)
    BY LedgerConstants DEF ResolvedOperations, StockCommand, Nullable
  <1> QED
    BY <1>1, <1>2 DEF Transaction, StockCommand, StockTransaction, Nullable

(* The compensation of a row is well-typed, carries its quantity, task and   *)
(* transfer, and moves material between the same two keys the other way.     *)
LEMMA MirrorType ==
    ASSUME NEW t \in StockTransaction, NEW id \in Nat
    PROVE  LET m == Mirror(t, id) IN
           /\ m \in StockTransaction
           /\ m.id = id /\ m.reverses = t.id /\ m.action = NULL
           /\ m.quantity = t.quantity /\ m.task = t.task /\ m.transfer = t.transfer
           /\ FromKey(m) = ToKey(t) /\ ToKey(m) = FromKey(t)
  BY DEF Mirror, StockTransaction, Nullable, FromKey, ToKey

(* The units of a finite set of transactions are finitely many, so that its *)
(* quantity is a natural number.                                            *)
LEMMA UnitsFinite ==
    ASSUME NEW S, IsFiniteSet(S)
    PROVE  IsFiniteSet(Units(S)) /\ SumQuantity(S) \in Nat
  <1>1. IsFiniteSet(1..MaxQuantity)
    BY FS_Interval, LedgerConstants
  <1>2. IsFiniteSet(S \X (1..MaxQuantity))
    BY <1>1, FS_Product
  <1>3. Units(S) \in SUBSET (S \X (1..MaxQuantity))
    BY DEF Units
  <1>4. IsFiniteSet(Units(S))
    BY <1>2, <1>3, FS_Subset
  <1> QED
    BY <1>4, FS_CardinalityType DEF SumQuantity

(* The rows of a finite ledger that arrive at a key, and those that leave it. *)
LEMMA SidesFinite ==
    ASSUME NEW L, IsFiniteSet(L), NEW k
    PROVE  /\ IsFiniteSet(Incoming(L, k)) /\ IsFiniteSet(Outgoing(L, k))
           /\ LedgerNet(L, k) \in Int
  <1>1. Incoming(L, k) \in SUBSET L /\ Outgoing(L, k) \in SUBSET L
    BY DEF Incoming, Outgoing
  <1>2. IsFiniteSet(Incoming(L, k)) /\ IsFiniteSet(Outgoing(L, k))
    BY <1>1, FS_Subset
  <1> QED
    BY <1>2, UnitsFinite DEF LedgerNet

(* Quantities add up over disjoint sets. *)
LEMMA SumOfDisjoint ==
    ASSUME NEW S, NEW T, IsFiniteSet(S), IsFiniteSet(T), S \cap T = {}
    PROVE  SumQuantity(S \cup T) = SumQuantity(S) + SumQuantity(T)
  <1>1. IsFiniteSet(Units(S)) /\ IsFiniteSet(Units(T))
    BY UnitsFinite
  <1>2. Units(S \cup T) = Units(S) \cup Units(T)
    BY DEF Units
  <1>3. Units(S) \cap Units(T) = {}
    BY DEF Units
  <1>4. Cardinality(Units(S) \cup Units(T)) =
            Cardinality(Units(S)) + Cardinality(Units(T)) - Cardinality({})
    BY <1>1, <1>3, FS_Union
  <1>5. Cardinality(Units(S)) \in Nat /\ Cardinality(Units(T)) \in Nat
    BY <1>1, FS_CardinalityType
  <1>6. SumQuantity(S \cup T) = Cardinality(Units(S) \cup Units(T))
    BY <1>2 DEF SumQuantity
  <1>7. Cardinality({}) = 0
    BY FS_EmptySet
  <1> QED
    BY <1>4, <1>5, <1>6, <1>7, SMT DEF SumQuantity

(* Sets of transactions in a one-to-one correspondence that keeps quantities *)
(* have the same sum.                                                        *)
LEMMA SumOfMatched ==
    ASSUME NEW S, NEW T, IsFiniteSet(S), NEW f \in Bijection(S, T),
           \A t \in S : f[t].quantity = t.quantity
    PROVE  SumQuantity(S) = SumQuantity(T)
  <1> DEFINE g == [ p \in Units(S) |-> << f[p[1]], p[2] >> ]
  <1>1. IsFiniteSet(Units(S))
    BY UnitsFinite
  <1>2. f \in [S -> T] /\ (\A a, b \in S : f[a] = f[b] => a = b) /\ (\A t \in T : \E s \in S : f[s] = t)
    BY DEF Bijection, Injection, Surjection, IsInjective
  <1>3. g \in [ Units(S) -> Units(T) ]
    BY <1>2 DEF Units
  <1>4. \A p, q \in Units(S) : g[p] = g[q] => p = q
    BY <1>2 DEF Units
  <1>5. \A q \in Units(T) : \E p \in Units(S) : g[p] = q
    <2> SUFFICES ASSUME NEW q \in Units(T) PROVE \E p \in Units(S) : g[p] = q
      OBVIOUS
    <2>1. q[1] \in T /\ q[2] \in 1..MaxQuantity /\ q[2] <= q[1].quantity /\ q = << q[1], q[2] >>
      BY DEF Units
    <2>2. PICK s \in S : f[s] = q[1]
      BY <1>2, <2>1
    <2>3. << s, q[2] >> \in Units(S)
      BY <2>1, <2>2 DEF Units
    <2> QED
      BY <2>1, <2>2, <2>3
  <1>6. g \in Bijection(Units(S), Units(T))
    BY <1>3, <1>4, <1>5 DEF Bijection, Injection, Surjection, IsInjective
  <1> QED
    BY <1>1, <1>6, FS_Bijection DEF ExistsBijection, SumQuantity

----------------------------------------------------------------------------

(* The sums over a ledger without D are those over the ledger less D's. *)
LEMMA SumOfRest ==
    ASSUME NEW L, IsFiniteSet(L), NEW D \in SUBSET L, NEW k
    PROVE  LET R == L \ D IN
           /\ SumQuantity(Incoming(L, k)) = SumQuantity(Incoming(R, k)) + SumQuantity(Incoming(D, k))
           /\ SumQuantity(Outgoing(L, k)) = SumQuantity(Outgoing(R, k)) + SumQuantity(Outgoing(D, k))
  <1> DEFINE R == L \ D
  <1>1. IsFiniteSet(R) /\ IsFiniteSet(D)
    BY FS_Subset, FS_Difference
  <1>2. /\ IsFiniteSet(Incoming(R, k)) /\ IsFiniteSet(Incoming(D, k))
        /\ IsFiniteSet(Outgoing(R, k)) /\ IsFiniteSet(Outgoing(D, k))
    BY <1>1, SidesFinite
  <1>3. /\ Incoming(L, k) = Incoming(R, k) \cup Incoming(D, k)
        /\ Incoming(R, k) \cap Incoming(D, k) = {}
        /\ Outgoing(L, k) = Outgoing(R, k) \cup Outgoing(D, k)
        /\ Outgoing(R, k) \cap Outgoing(D, k) = {}
    BY DEF Incoming, Outgoing
  <1> HIDE DEF R
  <1> QED
    BY <1>2, <1>3, SumOfDisjoint DEF R

(* A one-to-one correspondence that swaps the keys of a row matches what     *)
(* leaves a key on one side with what arrives at it on the other.            *)
LEMMA MirrorsMatch ==
    ASSUME NEW T, IsFiniteSet(T), NEW C, NEW f \in Bijection(T, C), NEW k,
           \A t \in T : /\ f[t].quantity = t.quantity
                        /\ FromKey(f[t]) = ToKey(t) /\ ToKey(f[t]) = FromKey(t)
    PROVE  /\ SumQuantity(Outgoing(T, k)) = SumQuantity(Incoming(C, k))
           /\ SumQuantity(Incoming(T, k)) = SumQuantity(Outgoing(C, k))
  <1> DEFINE out == [ t \in Outgoing(T, k) |-> f[t] ]
             in == [ t \in Incoming(T, k) |-> f[t] ]
  <1>1. /\ f \in [ T -> C ]
        /\ \A a, b \in T : f[a] = f[b] => a = b
        /\ \A c \in C : \E t \in T : f[t] = c
    BY DEF Bijection, Injection, Surjection, IsInjective
  <1>2. out \in Bijection(Outgoing(T, k), Incoming(C, k))
    <2>1. out \in [ Outgoing(T, k) -> Incoming(C, k) ]
      BY <1>1 DEF Outgoing, Incoming
    <2>2. \A a, b \in Outgoing(T, k) : out[a] = out[b] => a = b
      BY <1>1 DEF Outgoing
    <2>3. \A c \in Incoming(C, k) : \E t \in Outgoing(T, k) : out[t] = c
      BY <1>1 DEF Outgoing, Incoming
    <2> QED
      BY <2>1, <2>2, <2>3 DEF Bijection, Injection, Surjection, IsInjective
  <1>3. in \in Bijection(Incoming(T, k), Outgoing(C, k))
    <2>1. in \in [ Incoming(T, k) -> Outgoing(C, k) ]
      BY <1>1 DEF Outgoing, Incoming
    <2>2. \A a, b \in Incoming(T, k) : in[a] = in[b] => a = b
      BY <1>1 DEF Incoming
    <2>3. \A c \in Outgoing(C, k) : \E t \in Incoming(T, k) : in[t] = c
      BY <1>1 DEF Outgoing, Incoming
    <2> QED
      BY <2>1, <2>2, <2>3 DEF Bijection, Injection, Surjection, IsInjective
  <1>4. IsFiniteSet(Outgoing(T, k)) /\ IsFiniteSet(Incoming(T, k))
    BY SidesFinite
  <1>5. \A t \in Outgoing(T, k) : out[t].quantity = t.quantity
    BY DEF Outgoing
  <1>6. \A t \in Incoming(T, k) : in[t].quantity = t.quantity
    BY DEF Incoming
  <1> HIDE DEF out, in
  <1>7. SumQuantity(Outgoing(T, k)) = SumQuantity(Incoming(C, k))
    BY <1>2, <1>4, <1>5, SumOfMatched
  <1>8. SumQuantity(Incoming(T, k)) = SumQuantity(Outgoing(C, k))
    BY <1>3, <1>4, <1>6, SumOfMatched
  <1> QED
    BY <1>7, <1>8

(* Rows that leave the ledger together with their mirrors leave every sum as *)
(* it was.                                                                   *)
LEMMA MirroredPairsCancel ==
    ASSUME NEW L, IsFiniteSet(L), NEW T \in SUBSET L, NEW C \in SUBSET L, T \cap C = {},
           NEW f \in Bijection(T, C), NEW k,
           \A t \in T : /\ f[t].quantity = t.quantity
                        /\ FromKey(f[t]) = ToKey(t) /\ ToKey(f[t]) = FromKey(t)
    PROVE  LedgerNet(L \ (T \cup C), k) = LedgerNet(L, k)
  <1> DEFINE D == T \cup C
             R == L \ D
             In(S) == SumQuantity(Incoming(S, k))
             Out(S) == SumQuantity(Outgoing(S, k))
  <1>1. IsFiniteSet(T) /\ IsFiniteSet(C) /\ IsFiniteSet(D) /\ IsFiniteSet(R)
    BY FS_Subset, FS_Difference
  <1>2. In(L) = In(R) + In(D) /\ Out(L) = Out(R) + Out(D)
    BY SumOfRest
  <1>3. C = D \ T
    OBVIOUS
  <1>4. In(D) = In(C) + In(T) /\ Out(D) = Out(C) + Out(T)
    BY <1>1, <1>3, SumOfRest
  <1>5. Out(T) = In(C) /\ In(T) = Out(C)
    BY <1>1, MirrorsMatch
  <1>6. \A S \in {R, T, C} : In(S) \in Nat /\ Out(S) \in Nat
    BY <1>1, SidesFinite, UnitsFinite
  <1>7. LedgerNet(R, k) = In(R) - Out(R) /\ LedgerNet(L, k) = In(L) - Out(L)
    BY DEF LedgerNet
  <1> HIDE DEF In, Out, R, D
  <1>8. LedgerNet(R, k) = LedgerNet(L, k)
    BY <1>2, <1>4, <1>5, <1>6, <1>7
  <1> QED
    BY <1>8 DEF R, D

(* The balance of a key over a ledger is that over any part and the rest. *)
LEMMA NetOfRest ==
    ASSUME NEW L, IsFiniteSet(L), NEW D \in SUBSET L, NEW k
    PROVE  /\ LedgerNet(L, k) = LedgerNet(L \ D, k) + LedgerNet(D, k)
           /\ LedgerNet(L \ D, k) \in Int /\ LedgerNet(D, k) \in Int
  <1> DEFINE R == L \ D
             In(S) == SumQuantity(Incoming(S, k))
             Out(S) == SumQuantity(Outgoing(S, k))
  <1>1. IsFiniteSet(D) /\ IsFiniteSet(R)
    BY FS_Subset, FS_Difference
  <1>2. In(L) = In(R) + In(D) /\ Out(L) = Out(R) + Out(D)
    BY SumOfRest
  <1>3. \A S \in {R, D} : In(S) \in Nat /\ Out(S) \in Nat
    BY <1>1, SidesFinite, UnitsFinite
  <1>4. \A S : LedgerNet(S, k) = In(S) - Out(S)
    BY DEF LedgerNet
  <1> HIDE DEF In, Out, R
  <1>5. LedgerNet(L, k) = LedgerNet(R, k) + LedgerNet(D, k) /\ LedgerNet(R, k) \in Int /\ LedgerNet(D, k) \in Int
    BY <1>2, <1>3, <1>4
  <1> QED
    BY <1>5 DEF R

(* No rows, no quantity. *)
LEMMA EmptySum == SumQuantity({}) = 0 /\ \A k : LedgerNet({}, k) = 0
  <1>1. Units({}) = {}
    BY DEF Units
  <1>2. SumQuantity({}) = 0
    BY <1>1, FS_EmptySet DEF SumQuantity
  <1>3. ASSUME NEW k PROVE LedgerNet({}, k) = 0
    <2>1. Incoming({}, k) = {} /\ Outgoing({}, k) = {}
      BY DEF Incoming, Outgoing
    <2>2. LedgerNet({}, k) = SumQuantity({}) - SumQuantity({})
      BY <2>1, Zenon DEF LedgerNet
    <2>3. 0 - 0 = 0
      OBVIOUS
    <2> QED
      BY <1>2, <2>2, <2>3, Zenon
  <1> QED
    BY <1>2, <1>3

(* What one row does to the balance of a key. *)
LEMMA NetOfOne ==
    ASSUME NEW t, t.quantity \in 1..MaxQuantity, NEW k
    PROVE  /\ LedgerNet({t}, k) = (IF ToKey(t) = k THEN t.quantity ELSE 0)
                                   - (IF FromKey(t) = k THEN t.quantity ELSE 0)
           /\ SumQuantity({t}) = t.quantity
  <1>1. Units({t}) = {t} \X (1..t.quantity)
    BY LedgerConstants DEF Units
  <1>2. IsFiniteSet({t}) /\ Cardinality({t}) = 1
    BY FS_Singleton
  <1>3. t.quantity \in Nat
    BY LedgerConstants
  <1>4. IsFiniteSet(1..t.quantity) /\ Cardinality(1..t.quantity) = t.quantity
    BY <1>3, FS_Interval
  <1>5. Cardinality({t} \X (1..t.quantity)) = Cardinality({t}) * Cardinality(1..t.quantity)
    BY <1>2, <1>4, FS_Product, Zenon
  <1>6. SumQuantity({t}) = t.quantity
    <2>1. 1 * t.quantity = t.quantity
      BY <1>3
    <2> QED
      BY <1>1, <1>2, <1>4, <1>5, <2>1, Zenon DEF SumQuantity
  <1>9. /\ Incoming({t}, k) = IF ToKey(t) = k THEN {t} ELSE {}
        /\ Outgoing({t}, k) = IF FromKey(t) = k THEN {t} ELSE {}
    BY DEF Incoming, Outgoing
  <1>10. LedgerNet({t}, k) = (IF ToKey(t) = k THEN t.quantity ELSE 0)
                             - (IF FromKey(t) = k THEN t.quantity ELSE 0)
    <2>1. LedgerNet({t}, k) = SumQuantity(Incoming({t}, k)) - SumQuantity(Outgoing({t}, k))
      BY DEF LedgerNet
    <2>2. SumQuantity(Incoming({t}, k)) = IF ToKey(t) = k THEN t.quantity ELSE 0
      BY <1>6, <1>9, EmptySum
    <2>3. SumQuantity(Outgoing({t}, k)) = IF FromKey(t) = k THEN t.quantity ELSE 0
      BY <1>6, <1>9, EmptySum
    <2> QED
      BY <2>1, <2>2, <2>3
  <1> QED
    BY <1>6, <1>10

(* The mirrors of rows undo their effect on every key. *)
LEMMA NetOfMirrors ==
    ASSUME NEW T, IsFiniteSet(T), NEW C, NEW f \in Bijection(T, C), NEW k,
           \A t \in T : /\ f[t].quantity = t.quantity
                        /\ FromKey(f[t]) = ToKey(t) /\ ToKey(f[t]) = FromKey(t)
    PROVE  /\ LedgerNet(C, k) = SumQuantity(Outgoing(T, k)) - SumQuantity(Incoming(T, k))
           /\ SumQuantity(Outgoing(T, k)) \in Nat /\ SumQuantity(Incoming(T, k)) \in Nat
  BY MirrorsMatch, SidesFinite, UnitsFinite DEF LedgerNet

----------------------------------------------------------------------------
(* RefreshBalance brings a projection that is exact for L to one that is     *)
(* exact for L2, provided the keys of the rows that come and go are among    *)
(* those it is given.                                                        *)
Exact(b, L) ==
    \A k \in BalanceKey : b[k] = IF Materialised(k) THEN LedgerNet(L, k) ELSE 0

(* Recomputing the keys that a change of the ledger touches makes every balance exact. *)
LEMMA RefreshExact ==
    ASSUME NEW b, NEW L, NEW L2, NEW ks, Exact(b, L),
           \A t \in (L \ L2) \cup (L2 \ L) : TouchedKeys(t) \subseteq ks
    PROVE  Exact(RefreshBalance(b, L2, ks), L2)
  <1> SUFFICES ASSUME NEW k \in BalanceKey
               PROVE  RefreshBalance(b, L2, ks)[k] =
                        IF Materialised(k) THEN LedgerNet(L2, k) ELSE 0
    BY DEF Exact
  <1>1. CASE k \in ks
    BY <1>1 DEF RefreshBalance, Exact
  <1>2. CASE k \notin ks
    <2>1. \A t \in (L \ L2) \cup (L2 \ L) : FromKey(t) # k /\ ToKey(t) # k
      BY <1>2 DEF TouchedKeys
    <2>2. Incoming(L, k) = Incoming(L2, k) /\ Outgoing(L, k) = Outgoing(L2, k)
      BY <2>1 DEF Incoming, Outgoing
    <2>3. LedgerNet(L, k) = LedgerNet(L2, k)
      BY <2>2 DEF LedgerNet
    <2> QED
      BY <1>2, <2>3 DEF RefreshBalance, Exact
  <1> QED
    BY <1>1, <1>2

(* A refreshed projection maps keys to integers. *)
LEMMA RefreshType ==
    ASSUME NEW b \in [ BalanceKey -> Int ], NEW L, IsFiniteSet(L), NEW ks
    PROVE  RefreshBalance(b, L, ks) \in [ BalanceKey -> Int ]
  BY SidesFinite DEF RefreshBalance

----------------------------------------------------------------------------

(* The position of a row among finitely many by id: every row has its own.   *)
LEMMA Ranks ==
    ASSUME NEW G, IsFiniteSet(G), \A u \in G : u.id \in Nat,
           \A u, v \in G : u.id = v.id => u = v, NEW t \in G
    PROVE  /\ Cardinality({ v \in G : v.id < t.id }) \in Nat
           /\ Cardinality({ v \in G : v.id < t.id }) < Cardinality(G)
           /\ \A u \in G :
                Cardinality({ v \in G : v.id < u.id }) = Cardinality({ v \in G : v.id < t.id })
                  => u = t
  <1> DEFINE Before(u) == { v \in G : v.id < u.id }
  <1>1. \A u \in G : Before(u) \in SUBSET G /\ u \notin Before(u)
    OBVIOUS
  <1>2. \A u, v \in G : u.id < v.id => Before(u) \in SUBSET Before(v) /\ u \in Before(v)
    OBVIOUS
  <1>3. Cardinality(G) \in Nat
    BY FS_CardinalityType
  <1> HIDE DEF Before
  <1>4. ASSUME NEW u \in G
        PROVE  /\ IsFiniteSet(Before(u)) /\ Cardinality(Before(u)) \in Nat
               /\ Cardinality(Before(u)) < Cardinality(G)
    <2>1. /\ IsFiniteSet(Before(u)) /\ Cardinality(Before(u)) <= Cardinality(G)
          /\ Cardinality(G) = Cardinality(Before(u)) => G = Before(u)
      BY <1>1, FS_Subset
    <2>2. Cardinality(Before(u)) \in Nat
      BY <2>1, FS_CardinalityType
    <2>3. G # Before(u)
      BY <1>1
    <2> QED
      BY <1>3, <2>1, <2>2, <2>3
  <1>5. ASSUME NEW u \in G, NEW v \in G, u.id < v.id
        PROVE  Cardinality(Before(u)) < Cardinality(Before(v))
    <2>1. Before(u) \in SUBSET Before(v) /\ u \in Before(v) /\ u \notin Before(u)
      BY <1>1, <1>2, <1>5
    <2>2. /\ Cardinality(Before(u)) <= Cardinality(Before(v))
          /\ Cardinality(Before(v)) = Cardinality(Before(u)) => Before(v) = Before(u)
      BY <1>4, <2>1, FS_Subset
    <2>3. Before(v) # Before(u)
      BY <2>1
    <2> QED
      BY <1>4, <2>2, <2>3
  <1>6. ASSUME NEW u \in G, Cardinality(Before(u)) = Cardinality(Before(t))
        PROVE  u = t
    <2>1. ~(u.id < t.id) /\ ~(t.id < u.id)
      BY <1>4, <1>5, <1>6
    <2>2. u.id = t.id
      BY <2>1
    <2> QED
      BY <2>2
  <1> QED
    BY <1>4, <1>6 DEF Before

============================================================================
