---------------------- MODULE LedgerTransactionsProofs ----------------------
(***************************************************************************)
(* Theorems about LedgerTransactions, for any number of requests served at  *)
(* a time: what a session keeps between its statements, whatever the others *)
(* commit in between.                                                       *)
(*                                                                         *)
(* The inductive invariant speaks of one session s with what it has read e, *)
(* of the committed ledger L and rows R, and of two sessions.               *)
(***************************************************************************)
EXTENDS LedgerTransactions, LedgerSums, SequenceTheorems

PC == { "idle", "lock", "lookup", "check", "insert", "sumIn", "sumOut", "findRow", "flush",
        "respond", "commit", "done" }
Recomputing == { "sumIn", "sumOut", "findRow", "flush" }

PendingWrites ==
    [ kind : { "nothing", "delete", "insert", "touch", "update" }, row : Nullable(Nat) ]

Writes == UNION { [ K -> Nullable(Row) ] : K \in SUBSET BalanceKey }

Session ==
    [ pc : PC, request : Nullable(Requests), n : Nat, locked : SUBSET BalanceKey,
      own : SUBSET StockTransaction,
      wrote : Writes, sides : Seq(BalanceKey), sum : Int, write : Nullable(PendingWrites) ]

Readings ==
    [ sums : SUBSET BalanceKey, staleSums : SUBSET BalanceKey, checks : SUBSET BalanceKey,
      staleChecks : SUBSET BalanceKey, misled : SUBSET BalanceKey ]

TouchedBy(s) == UNION { TouchedKeys(t) : t \in s.own }
RowOf(s, R, k) == IF k \in DOMAIN s.wrote THEN s.wrote[k] ELSE R[k]
Elements(q) == { q[i] : i \in DOMAIN q }
Pending(s) == Elements(s.sides)

(* A session that is idle, done or waits for its locks has done nothing.     *)
Clear(s, e) ==
    /\ s.locked = {} /\ s.own = {} /\ DOMAIN s.wrote = {}
    /\ e.sums = {} /\ e.staleSums = {} /\ e.checks = {} /\ e.staleChecks = {} /\ e.misled = {}

(* The rows of a session are new, and only keys they touch are recomputed.   *)
Rows(s, e, n) ==
    /\ IsFiniteSet(s.own)
    /\ \A t \in s.own : t.id < n
    /\ Pending(s) \subseteq { k \in TouchedBy(s) : Materialised(k) }
    /\ DOMAIN s.wrote \subseteq { k \in TouchedBy(s) : Materialised(k) }
    /\ e.sums \subseteq TouchedBy(s)
    /\ e.staleSums \subseteq e.sums
    /\ e.staleChecks \subseteq e.checks

(* What the session recomputed and nobody changed since is the sum of what   *)
(* it sees; where it wrote nothing there is no row.                          *)
Recomputed(s, e, L, R) ==
    \A k \in TouchedBy(s) :
        (Materialised(k) /\ k \notin Pending(s) /\ k \notin e.staleSums) =>
            /\ k \in e.sums
            /\ Quantity(RowOf(s, R, k)) = LedgerNet(L \cup s.own, k)
            /\ k \notin DOMAIN s.wrote => R[k] = NULL

(* What it drew upon it had checked, and it is still there.                  *)
Drawn(s, e, L, O) ==
    /\ \A t \in s.own : FromKey(t) \in BalanceKey => FromKey(t) \in e.checks
    /\ \A k \in e.checks \ (e.staleChecks \cup e.misled) :
         LedgerNet(L \cup s.own, k) < 0 => k \in O

(* What it has locked is there, and stale only where a raced request left    *)
(* the row alone.                                                            *)
Holds(s, e, R, S) ==
    /\ \A k \in s.locked : R[k] # NULL
    /\ s.locked \cap (e.staleSums \cup e.staleChecks) \subseteq S

(* Its keys are those of its request, each once, and none is committed.      *)
Keyed(s, L) ==
    /\ \A t \in s.own : t.key # NULL => t.key \in KeysOf(s.request)
    /\ \A t, u \in s.own : t.key = u.key /\ t.key # NULL => t = u
    /\ \A t \in s.own, u \in L : t.key = u.key => t.key = NULL

Kept(s, e, L, R, n, S, O) ==
    /\ s \in Session /\ e \in Readings
    /\ Rows(s, e, n) /\ Recomputed(s, e, L, R) /\ Drawn(s, e, L, O)
    /\ Holds(s, e, R, S) /\ Keyed(s, L)

(* The sums taken so far of the side in hand.                                *)
Summed(s, e, L, R) ==
    LET k == Head(s.sides)
        V == L \cup s.own IN
    /\ s.pc # "sumIn" => k \in e.sums
    /\ s.pc = "flush" =>
         /\ s.write \in PendingWrites
         /\ s.write.kind \in { "insert", "touch", "update" } => s.sum # 0
         /\ s.write.kind \in { "delete", "touch", "update" } => s.write.row \in Nat
    /\ k \notin e.staleSums =>
         /\ s.pc = "sumOut" => s.sum = SumQuantity(Incoming(V, k))
         /\ s.pc \in { "findRow", "flush" } => s.sum = LedgerNet(V, k)
         /\ s.pc = "flush" => s.write = PendingWrite(RowOf(s, R, k), s.sum)

(* The command in hand has passed its check.                                 *)
Checked(s, e, L) ==
    LET c == s.request.commands[s.n]
        k == SourceKey(c) IN
    /\ Valid(c)
    /\ k \in BalanceKey => k \in e.checks
    /\ (k \in BalanceKey /\ ~MovesNothing(c) /\ k \notin e.staleChecks \cup e.misled) =>
         LedgerNet(L \cup s.own, k) >= c.quantity

(* The keys of the commands that are through are visible.                    *)
Through(s, i) == i < s.n \/ (i = s.n /\ s.pc \in Recomputing \cup { "respond", "commit" })
Done(s, L) ==
    \A i \in 1..s.n :
        (Through(s, i) /\ s.request.commands[i].key # NULL) =>
            \E t \in L \cup s.own : t.key = s.request.commands[i].key

Position(s, e, L, R) ==
    /\ s.pc \in { "idle", "lock", "done" } => Clear(s, e)
    /\ s.pc \notin { "idle", "done" } => s.request \in Requests /\ s.n \in 1..Len(s.request.commands)
    /\ s.pc \in Recomputing <=> s.sides # << >>
    /\ s.pc \in Recomputing => Summed(s, e, L, R)
    /\ s.pc = "insert" => Checked(s, e, L)
    /\ s.pc \notin { "idle", "done" } => Done(s, L)
    /\ s.pc \in { "respond", "commit" } => s.n = Len(s.request.commands)

SessionOK(s, e, L, R, n, S, O) == Kept(s, e, L, R, n, S, O) /\ Position(s, e, L, R)

(* Two sessions hold different rows and different keys.                      *)
Apart(s, z) ==
    /\ s.locked \cap (z.locked \cup DOMAIN z.wrote) = {}
    /\ DOMAIN s.wrote \cap DOMAIN z.wrote = {}
    /\ \A t \in s.own, u \in z.own : t.key = u.key => t.key = NULL

(* What is committed: rows that are exact unless raced, and sums that are    *)
(* not negative unless overdrawn.                                            *)
Store(L, R, n, S, O) ==
    /\ L \subseteq StockTransaction /\ IsFiniteSet(L)
    /\ n \in Nat /\ \A t \in L : t.id < n
    /\ R \in [ BalanceKey -> Nullable(Row) ]
    /\ \A k \in BalanceKey : ~Materialised(k) => R[k] = NULL
    /\ S \subseteq BalanceKey
    /\ \A k \in BalanceKey \ S :
         Quantity(R[k]) = IF Materialised(k) THEN LedgerNet(L, k) ELSE 0
    /\ \A k \in BalanceKey : LedgerNet(L, k) < 0 => k \in O

Committed == Store(ledger, rows, nextId, suspect, overdrawn) /\ OncePerRequest

Told == { "none", "ok", "rejected", "conflict", "error", "deadlock", "lost" }
Answered ==
    /\ answer \in [ Workers -> Told ]
    /\ \A w \in Workers : session[w].pc = "done" => answer[w] # "none"

SessionsOK ==
    /\ DOMAIN session = Workers /\ DOMAIN seen = Workers
    /\ \A w \in Workers : SessionOK(session[w], seen[w], ledger, rows, nextId, suspect, overdrawn)
    /\ \A v, w \in Workers : v # w => Apart(session[v], session[w])

TransactionsInv == Committed /\ Answered /\ SessionsOK

----------------------------------------------------------------------------
(* Sums, sides and writes.                                                  *)

(* Rows that do not touch a key leave its sums alone. *)
LEMMA Untouched ==
    ASSUME NEW L, NEW D, NEW k \in BalanceKey, \A t \in D : k \notin TouchedKeys(t)
    PROVE  /\ Incoming(L \cup D, k) = Incoming(L, k) /\ Outgoing(L \cup D, k) = Outgoing(L, k)
           /\ LedgerNet(L \cup D, k) = LedgerNet(L, k)
  <1>1. \A t \in D : FromKey(t) # k /\ ToKey(t) # k
    BY DEF TouchedKeys
  <1>2. Incoming(L \cup D, k) = Incoming(L, k) /\ Outgoing(L \cup D, k) = Outgoing(L, k)
    BY <1>1 DEF Incoming, Outgoing
  <1> QED
    BY <1>2 DEF LedgerNet

(* More rows have no smaller sum. *)
LEMMA SumMonotone ==
    ASSUME NEW T, IsFiniteSet(T), NEW S \in SUBSET T
    PROVE  SumQuantity(S) <= SumQuantity(T)
  <1>1. Units(S) \in SUBSET Units(T)
    BY DEF Units
  <1> QED
    BY <1>1, UnitsFinite, FS_Subset DEF SumQuantity

(* Rows that do not leave a key do not lower it. *)
LEMMA OnlyInflows ==
    ASSUME NEW L, NEW D, IsFiniteSet(L), IsFiniteSet(D), NEW k, \A t \in D : FromKey(t) # k
    PROVE  LedgerNet(L, k) <= LedgerNet(L \cup D, k)
  <1>1. IsFiniteSet(L \cup D)
    BY FS_Union
  <1>2. IsFiniteSet(Incoming(L \cup D, k)) /\ IsFiniteSet(Incoming(L, k)) /\ IsFiniteSet(Outgoing(L, k))
    BY <1>1, SidesFinite
  <1>3. Incoming(L, k) \in SUBSET Incoming(L \cup D, k)
    BY DEF Incoming
  <1>4. Outgoing(L \cup D, k) = Outgoing(L, k)
    BY DEF Outgoing
  <1>5. SumQuantity(Incoming(L, k)) <= SumQuantity(Incoming(L \cup D, k))
    BY <1>2, <1>3, SumMonotone
  <1>6. /\ SumQuantity(Incoming(L, k)) \in Nat /\ SumQuantity(Incoming(L \cup D, k)) \in Nat
        /\ SumQuantity(Outgoing(L, k)) \in Nat
    BY <1>2, UnitsFinite
  <1> QED
    BY <1>4, <1>5, <1>6 DEF LedgerNet

(* A row's units are as many as its quantity. *)
LEMMA SumOfOne ==
    ASSUME NEW t, t.quantity \in 1..MaxQuantity
    PROVE  SumQuantity({t}) = t.quantity
  <1>1. Units({t}) = {t} \X (1..t.quantity)
    BY LedgerConstants DEF Units
  <1>2. IsFiniteSet({t}) /\ Cardinality({t}) = 1
    BY FS_Singleton
  <1>3. t.quantity \in Nat \ {0}
    BY LedgerConstants
  <1>4. IsFiniteSet(1..t.quantity) /\ Cardinality(1..t.quantity) = t.quantity
    BY <1>3, FS_Interval
  <1>5. Cardinality({t} \X (1..t.quantity)) = Cardinality({t}) * Cardinality(1..t.quantity)
    BY <1>2, <1>4, FS_Product
  <1>6. Cardinality({t} \X (1..t.quantity)) = t.quantity
    BY <1>2, <1>3, <1>4, <1>5
  <1> QED
    BY <1>1, <1>6 DEF SumQuantity

(* A new row takes its quantity from the key it leaves, unless it arrives there too. *)
LEMMA Withdrawn ==
    ASSUME NEW L, IsFiniteSet(L), NEW t \in StockTransaction, t \notin L
    PROVE  LET k == FromKey(t) IN
           LedgerNet(L \cup {t}, k) =
             IF ToKey(t) = k THEN LedgerNet(L, k) ELSE LedgerNet(L, k) - t.quantity
  <1> DEFINE k == FromKey(t)
             In(S) == SumQuantity(Incoming(S, k))
             Out(S) == SumQuantity(Outgoing(S, k))
  <1>1. IsFiniteSet({t}) /\ IsFiniteSet(L \cup {t}) /\ (L \cup {t}) \ {t} = L /\ {t} \in SUBSET (L \cup {t})
    BY FS_Singleton, FS_AddElement
  <1>2. In(L \cup {t}) = In(L) + In({t}) /\ Out(L \cup {t}) = Out(L) + Out({t})
    BY <1>1, SumOfRest
  <1>3. t.quantity \in 1..MaxQuantity /\ t.quantity \in Nat
    BY LedgerConstants DEF StockTransaction
  <1>4. Outgoing({t}, k) = {t} /\ Incoming({t}, k) = IF ToKey(t) = k THEN {t} ELSE {}
    BY DEF Outgoing, Incoming
  <1>5. Out({t}) = t.quantity
    BY <1>3, <1>4, SumOfOne
  <1>6. SumQuantity({}) = 0
    BY FS_EmptySet DEF SumQuantity, Units
  <1>7. In({t}) = IF ToKey(t) = k THEN t.quantity ELSE 0
    BY <1>3, <1>4, <1>6, SumOfOne
  <1>8. In(L) \in Nat /\ Out(L) \in Nat
    BY SidesFinite, UnitsFinite
  <1>9. LedgerNet(L \cup {t}, k) = In(L \cup {t}) - Out(L \cup {t}) /\ LedgerNet(L, k) = In(L) - Out(L)
    BY DEF LedgerNet
  <1> HIDE DEF In, Out, k
  <1>10. LedgerNet(L \cup {t}, k) = IF ToKey(t) = k THEN LedgerNet(L, k) ELSE LedgerNet(L, k) - t.quantity
    BY <1>2, <1>3, <1>5, <1>7, <1>8, <1>9
  <1> QED
    BY <1>10 DEF k

----------------------------------------------------------------------------
(* Sequences of sides, and writes.                                          *)

(* The first of a sequence and the rest of it are its elements. *)
LEMMA FirstAndRest ==
    ASSUME NEW S, NEW q \in Seq(S), q # << >>
    PROVE  /\ Head(q) \in S /\ Tail(q) \in Seq(S)
           /\ Elements(q) = {Head(q)} \cup Elements(Tail(q))
           /\ Len(q) \in Nat /\ (Len(q) > 1 <=> Tail(q) # << >>)
  <1>1. Len(q) \in Nat \ {0} /\ DOMAIN q = 1..Len(q) /\ Head(q) = q[1]
    BY EmptySeq, LenProperties
  <1>2. /\ Head(q) \in S /\ Tail(q) \in Seq(S) /\ Len(Tail(q)) = Len(q) - 1
        /\ \A i \in 1..Len(Tail(q)) : Tail(q)[i] = q[i + 1]
    BY HeadTailProperties
  <1>3. DOMAIN Tail(q) = 1..Len(Tail(q))
    BY <1>2, LenProperties
  <1>4. Tail(q) = << >> <=> Len(Tail(q)) = 0
    BY <1>1, <1>2, EmptySeq
  <1>5. Elements(q) \subseteq {Head(q)} \cup Elements(Tail(q))
    <2> SUFFICES ASSUME NEW i \in 1..Len(q) PROVE q[i] \in {Head(q)} \cup Elements(Tail(q))
      BY <1>1 DEF Elements
    <2>1. CASE i = 1
      BY <1>1, <2>1
    <2>2. CASE i # 1
      <3>1. i - 1 \in 1..Len(Tail(q)) /\ (i - 1) + 1 = i
        BY <1>1, <1>2, <2>2
      <3>2. Tail(q)[i - 1] = q[i]
        BY <1>2, <3>1
      <3> QED
        BY <1>3, <3>1, <3>2 DEF Elements
    <2> QED
      BY <2>1, <2>2
  <1>6. {Head(q)} \cup Elements(Tail(q)) \subseteq Elements(q)
    <2>1. Head(q) \in Elements(q)
      BY <1>1 DEF Elements
    <2>2. ASSUME NEW i \in 1..Len(Tail(q)) PROVE Tail(q)[i] \in Elements(q)
      <3>1. i + 1 \in 1..Len(q)
        BY <1>1, <1>2
      <3> QED
        BY <1>1, <1>2, <3>1 DEF Elements
    <2> QED
      BY <1>3, <2>1, <2>2 DEF Elements
  <1> QED
    BY <1>1, <1>2, <1>4, <1>5, <1>6

(* The elements of a concatenation are those of its parts. *)
LEMMA ElementsOfBoth ==
    ASSUME NEW S, NEW p \in Seq(S), NEW q \in Seq(S)
    PROVE  p \o q \in Seq(S) /\ Elements(p \o q) = Elements(p) \cup Elements(q)
  <1>1. /\ p \o q \in Seq(S) /\ Len(p \o q) = Len(p) + Len(q)
        /\ \A i \in 1..(Len(p) + Len(q)) : (p \o q)[i] = IF i <= Len(p) THEN p[i] ELSE q[i - Len(p)]
    BY ConcatProperties
  <1>2. /\ Len(p) \in Nat /\ Len(q) \in Nat /\ DOMAIN p = 1..Len(p) /\ DOMAIN q = 1..Len(q)
        /\ DOMAIN (p \o q) = 1..(Len(p) + Len(q))
    BY <1>1, LenProperties
  <1> DEFINE r == p \o q
  <1> HIDE DEF r
  <1>3. Elements(r) \subseteq Elements(p) \cup Elements(q)
    <2> SUFFICES ASSUME NEW i \in 1..(Len(p) + Len(q)) PROVE r[i] \in Elements(p) \cup Elements(q)
      BY <1>2 DEF Elements, r
    <2>1. CASE i <= Len(p)
      BY <1>1, <1>2, <2>1 DEF Elements, r
    <2>2. CASE ~(i <= Len(p))
      <3>1. i - Len(p) \in 1..Len(q) /\ r[i] = q[i - Len(p)]
        BY <1>1, <1>2, <2>2 DEF r
      <3> QED
        BY <1>2, <3>1 DEF Elements
    <2> QED
      BY <2>1, <2>2
  <1>4. ASSUME NEW i \in 1..Len(p) PROVE p[i] \in Elements(r)
    <2>1. i \in 1..(Len(p) + Len(q)) /\ r[i] = p[i]
      BY <1>1, <1>2 DEF r
    <2> QED
      BY <1>2, <2>1 DEF Elements, r
  <1>5. ASSUME NEW i \in 1..Len(q) PROVE q[i] \in Elements(r)
    <2>1. i + Len(p) \in 1..(Len(p) + Len(q)) /\ ~(i + Len(p) <= Len(p)) /\ (i + Len(p)) - Len(p) = i
      BY <1>2
    <2>2. r[i + Len(p)] = q[i]
      BY <1>1, <2>1 DEF r
    <2> QED
      BY <1>2, <2>1, <2>2 DEF Elements, r
  <1>6. Elements(p) \cup Elements(q) \subseteq Elements(r)
    BY <1>2, <1>4, <1>5 DEF Elements
  <1> QED
    BY <1>1, <1>3, <1>6 DEF r

(* The sides of a movement are the keys it touches that have a balance. *)
LEMMA SidesFacts ==
    ASSUME NEW t
    PROVE  /\ SidesOf(t) \in Seq(BalanceKey)
           /\ Elements(SidesOf(t)) = { k \in TouchedKeys(t) : Materialised(k) }
  <1> DEFINE side(k) == IF k \in BalanceKey /\ Materialised(k) THEN << k >> ELSE << >>
  <1>1. SidesOf(t) = side(FromKey(t)) \o side(ToKey(t))
    BY DEF SidesOf
  <1>2. ASSUME NEW k
        PROVE  side(k) \in Seq(BalanceKey) /\ Elements(side(k)) = { j \in {k} \cap BalanceKey : Materialised(j) }
    <2>1. CASE k \in BalanceKey /\ Materialised(k)
      BY <2>1 DEF Elements
    <2>2. CASE ~(k \in BalanceKey /\ Materialised(k))
      BY <2>2, EmptySeq DEF Elements
    <2> QED
      BY <2>1, <2>2
  <1> HIDE DEF side
  <1>3. /\ SidesOf(t) \in Seq(BalanceKey)
        /\ Elements(SidesOf(t)) = Elements(side(FromKey(t))) \cup Elements(side(ToKey(t)))
    BY <1>1, <1>2, ElementsOfBoth
  <1> QED
    BY <1>2, <1>3 DEF TouchedKeys

(* A write to a balance row leaves writes to balance rows. *)
LEMMA WriteType ==
    ASSUME NEW f \in Writes, NEW k \in BalanceKey, NEW r \in Nullable(Row)
    PROVE  /\ [ j \in DOMAIN f \cup {k} |-> IF j = k THEN r ELSE f[j] ] \in Writes
           /\ DOMAIN f \subseteq BalanceKey /\ \A j \in DOMAIN f : f[j] \in Nullable(Row)
  <1>1. PICK K \in SUBSET BalanceKey : f \in [ K -> Nullable(Row) ]
    BY DEF Writes
  <1>2. DOMAIN f = K /\ K \cup {k} \in SUBSET BalanceKey
    BY <1>1
  <1>3. [ j \in K \cup {k} |-> IF j = k THEN r ELSE f[j] ] \in [ K \cup {k} -> Nullable(Row) ]
    BY <1>1
  <1> QED
    BY <1>1, <1>2, <1>3 DEF Writes

----------------------------------------------------------------------------
(* Steps of one session.                                                    *)

Returned(s) ==
    IF s.n < Len(s.request.commands) THEN [ [ s EXCEPT !.n = s.n + 1 ] EXCEPT !.pc = "lookup" ]
    ELSE [ s EXCEPT !.pc = IF s.request.commits THEN "commit" ELSE "respond" ]

(* A request is a sequence of commands, none of which may overdraw. *)
LEMMA RequestFacts ==
    ASSUME NEW r \in Requests
    PROVE  /\ r.lock \subseteq BalanceKey /\ r.commits \in BOOLEAN
           /\ r.commands \in Seq(StockCommand)
           /\ Len(r.commands) \in Nat \ {0} /\ DOMAIN r.commands = 1..Len(r.commands)
           /\ \A i \in 1..Len(r.commands) :
                /\ r.commands[i] \in StockCommand /\ ~r.commands[i].allowNegative
                /\ r.commands[i].key # NULL => r.commands[i].key \in KeysOf(r)
  <1>1. /\ r.lock \subseteq BalanceKey /\ r.commits \in BOOLEAN
        /\ r.commands \in Seq(StockCommand) /\ Len(r.commands) > 0
    BY LedgerTransactionsConstants DEF Request
  <1>2. Len(r.commands) \in Nat /\ DOMAIN r.commands = 1..Len(r.commands)
    BY <1>1, LenProperties
  <1>3. \A i \in 1..Len(r.commands) : r.commands[i] \in StockCommand
    BY <1>1, ElementOfSeq
  <1> QED
    BY <1>1, <1>2, <1>3, LedgerTransactionsConstants DEF KeysOf

(* What a session keeps does not depend on what it is at, and ids only grow. *)
LEMMA StillKept ==
    ASSUME NEW s, NEW e, NEW L, NEW R, NEW n \in Nat, NEW S, NEW O, Kept(s, e, L, R, n, S, O),
           NEW z \in Session, NEW m \in Nat, n <= m,
           z.own = s.own, z.wrote = s.wrote, z.sides = s.sides, z.locked = s.locked,
           z.request = s.request
    PROVE  Kept(z, e, L, R, m, S, O)
  <1>1. \A t \in s.own : t.id \in Nat
    BY DEF Kept, Session, StockTransaction
  <1>2. TouchedBy(z) = TouchedBy(s) /\ Pending(z) = Pending(s) /\ \A k : RowOf(z, R, k) = RowOf(s, R, k)
    BY DEF TouchedBy, Pending, RowOf
  <1>3. Rows(z, e, m)
    BY <1>1, <1>2 DEF Kept, Rows
  <1>4. Recomputed(z, e, L, R)
    BY <1>2 DEF Kept, Recomputed
  <1>5. Drawn(z, e, L, O) /\ Holds(z, e, R, S) /\ Keyed(z, L)
    BY DEF Kept, Drawn, Holds, Keyed
  <1> QED
    BY <1>3, <1>4, <1>5 DEF Kept

(* Ids given to others change nothing. *)
LEMMA IdsGrow ==
    ASSUME NEW s, NEW e, NEW L, NEW R, NEW n \in Nat, NEW S, NEW O,
           SessionOK(s, e, L, R, n, S, O), NEW m \in Nat, n <= m
    PROVE  SessionOK(s, e, L, R, m, S, O)
  <1>1. s \in Session
    BY DEF SessionOK, Kept
  <1>2. Kept(s, e, L, R, m, S, O)
    BY <1>1, StillKept DEF SessionOK
  <1> QED
    BY <1>2 DEF SessionOK

(* A command that is through leaves the session at the next one or at its end. *)
LEMMA ReturnedOK ==
    ASSUME NEW s, NEW e, NEW L, NEW R, NEW n \in Nat, NEW S, NEW O, Kept(s, e, L, R, n, S, O),
           s.request \in Requests, s.n \in 1..Len(s.request.commands), s.sides = << >>,
           \A i \in 1..s.n : s.request.commands[i].key # NULL =>
                               \E t \in L \cup s.own : t.key = s.request.commands[i].key
    PROVE  SessionOK(Returned(s), e, L, R, n, S, O)
  <1> DEFINE z == Returned(s)
             c == s.request.commands
  <1>1. s \in Session /\ s.n \in Nat /\ Len(c) \in Nat /\ s.n <= Len(c)
    BY RequestFacts DEF Kept
  <1>2. /\ z \in Session
        /\ z.own = s.own /\ z.wrote = s.wrote /\ z.sides = s.sides /\ z.locked = s.locked
        /\ z.request = s.request
        /\ \/ s.n < Len(c) /\ z.n = s.n + 1 /\ z.pc = "lookup"
           \/ s.n = Len(c) /\ z.n = s.n /\ z.pc \in { "commit", "respond" }
    <2>1. CASE s.n < Len(c)
      <3>1. z = [ [ s EXCEPT !.n = s.n + 1 ] EXCEPT !.pc = "lookup" ]
        BY <2>1 DEF Returned
      <3> DEFINE y == [ s EXCEPT !.n = s.n + 1 ]
      <3>2. /\ y \in Session /\ y.n = s.n + 1 /\ y.own = s.own /\ y.wrote = s.wrote
            /\ y.sides = s.sides /\ y.locked = s.locked /\ y.request = s.request
        BY <1>1 DEF Session
      <3>3. z = [ y EXCEPT !.pc = "lookup" ]
        BY <3>1
      <3> HIDE DEF z, y
      <3>4. z \in Session /\ z.n = y.n /\ z.pc = "lookup"
        BY <3>2, <3>3 DEF Session, PC
      <3>5. /\ z.own = y.own /\ z.wrote = y.wrote /\ z.sides = y.sides /\ z.locked = y.locked
            /\ z.request = y.request
        BY <3>2, <3>3 DEF Session
      <3> QED
        BY <2>1, <3>2, <3>4, <3>5
    <2>2. CASE ~(s.n < Len(c))
      <3>1. z = [ s EXCEPT !.pc = IF s.request.commits THEN "commit" ELSE "respond" ]
        BY <2>2 DEF Returned
      <3> HIDE DEF z
      <3>2. z \in Session
        BY <1>1, <3>1 DEF Session, PC
      <3>3. /\ z.own = s.own /\ z.wrote = s.wrote /\ z.sides = s.sides /\ z.locked = s.locked
            /\ z.request = s.request /\ z.n = s.n /\ z.pc \in { "commit", "respond" }
        BY <1>1, <3>1 DEF Session
      <3> QED
        BY <1>1, <2>2, <3>2, <3>3
    <2> QED
      BY <2>1, <2>2
  <1> HIDE DEF z
  <1>3. Kept(z, e, L, R, n, S, O)
    BY <1>2, StillKept
  <1>4. z.n \in 1..Len(z.request.commands) /\ z.pc \in { "lookup", "commit", "respond" }
        /\ (z.pc \in { "respond", "commit" } => z.n = Len(z.request.commands))
    BY <1>1, <1>2
  <1>5. Done(z, L)
    BY <1>1, <1>2 DEF Done, Through, Recomputing
  <1>6. Position(z, e, L, R)
    BY <1>2, <1>4, <1>5 DEF Position, Recomputing
  <1> QED
    BY <1>3, <1>6 DEF SessionOK, z

(* A session that has done nothing is in order. *)
LEMMA ClearOK ==
    ASSUME NEW z \in Session, NEW e \in Readings, NEW L, NEW R, NEW n, NEW S, NEW O,
           Clear(z, e), z.sides = << >>, z.pc \in { "idle", "done", "lock", "lookup" },
           z.pc \in { "lock", "lookup" } => z.request \in Requests /\ z.n = 1
    PROVE  SessionOK(z, e, L, R, n, S, O)
  <1>1. TouchedBy(z) = {} /\ Pending(z) = {}
    BY DEF Clear, TouchedBy, Pending, Elements
  <1>2. Rows(z, e, n)
    BY <1>1, FS_EmptySet DEF Clear, Rows
  <1>3. Recomputed(z, e, L, R) /\ Drawn(z, e, L, O) /\ Holds(z, e, R, S) /\ Keyed(z, L)
    BY <1>1 DEF Clear, Recomputed, Drawn, Holds, Keyed
  <1>4. z.pc \in { "lock", "lookup" } => z.n \in 1..Len(z.request.commands)
    BY RequestFacts
  <1>5. z.pc \in { "lock", "lookup" } => Done(z, L)
    BY DEF Done, Through, Recomputing
  <1> QED
    BY <1>2, <1>3, <1>4, <1>5 DEF SessionOK, Kept, Position, Recomputing

(* A session that is idle has nothing. *)
LEMMA IdleFacts ==
    /\ Idle \in Session /\ Idle.pc = "idle" /\ Idle.sides = << >> /\ Idle.n = 1
    /\ NothingSeen \in Readings /\ Clear(Idle, NothingSeen)
  <1>1. NoWrites \in Writes /\ DOMAIN NoWrites = {}
    BY DEF NoWrites, Writes
  <1>2. Idle \in Session
    BY <1>1, EmptySeq DEF Session, PC, Nullable, Idle
  <1> QED
    BY <1>1, <1>2 DEF Idle, NothingSeen, Readings, Clear

(* A request begins with nothing. *)
LEMMA BeginOK ==
    ASSUME NEW r \in Requests, NEW pc \in { "lock", "lookup" }, NEW e \in Readings, Clear(Idle, e),
           NEW L, NEW R, NEW n, NEW S, NEW O
    PROVE  SessionOK([ [ Idle EXCEPT !.request = r ] EXCEPT !.pc = pc ], e, L, R, n, S, O)
  <1> DEFINE y == [ Idle EXCEPT !.request = r ]
             z == [ y EXCEPT !.pc = pc ]
  <1>1. /\ y \in Session /\ y.n = 1 /\ y.request = r /\ y.sides = << >>
        /\ y.own = Idle.own /\ y.wrote = Idle.wrote /\ y.locked = Idle.locked
    BY IdleFacts DEF Session, Nullable
  <1> HIDE DEF y
  <1>2. z \in Session /\ z.n = 1 /\ z.request = r /\ z.sides = << >> /\ z.pc = pc
    BY <1>1 DEF Session, PC
  <1>3. z.own = Idle.own /\ z.wrote = Idle.wrote /\ z.locked = Idle.locked
    BY <1>1 DEF Session
  <1> HIDE DEF z
  <1>4. Clear(z, e)
    BY <1>3 DEF Clear
  <1>5. SessionOK(z, e, L, R, n, S, O)
    BY <1>2, <1>4, ClearOK
  <1> QED
    BY <1>5 DEF y, z

(* A session rolled back or committed, or not begun, has nothing. *)
LEMMA EndedOK ==
    ASSUME NEW r \in Nullable(Requests), NEW L, NEW R, NEW n, NEW S, NEW O
    PROVE  /\ SessionOK([ Idle EXCEPT !.pc = "done", !.request = r ], NothingSeen, L, R, n, S, O)
           /\ SessionOK(Idle, NothingSeen, L, R, n, S, O)
  <1> DEFINE z == [ Idle EXCEPT !.pc = "done", !.request = r ]
  <1>1. z \in Session /\ z.pc = "done" /\ z.sides = << >>
    BY IdleFacts DEF Session, PC
  <1>2. z.own = Idle.own /\ z.wrote = Idle.wrote /\ z.locked = Idle.locked
    BY IdleFacts DEF Session
  <1> HIDE DEF z
  <1>3. Clear(z, NothingSeen)
    BY <1>2, IdleFacts DEF Clear
  <1>4. SessionOK(z, NothingSeen, L, R, n, S, O)
    BY <1>1, <1>3, IdleFacts, ClearOK
  <1>5. SessionOK(Idle, NothingSeen, L, R, n, S, O)
    BY IdleFacts, ClearOK
  <1> QED
    BY <1>4, <1>5 DEF z

(* The locks are taken before anything is read. *)
LEMMA LockOK ==
    ASSUME NEW s, NEW e, NEW L, NEW R, NEW n \in Nat, NEW S, NEW O,
           SessionOK(s, e, L, R, n, S, O), s.pc = "lock",
           NEW X \in SUBSET BalanceKey, \A k \in X : R[k] # NULL
    PROVE  SessionOK([ [ s EXCEPT !.locked = X ] EXCEPT !.pc = "lookup" ], e, L, R, n, S, O)
  <1> DEFINE y == [ s EXCEPT !.locked = X ]
             z == [ y EXCEPT !.pc = "lookup" ]
  <1>1. s \in Session /\ e \in Readings /\ Clear(s, e) /\ s.sides = << >> /\ s.request \in Requests
        /\ s.n \in 1..Len(s.request.commands) /\ Done(s, L) /\ Kept(s, e, L, R, n, S, O)
    BY DEF SessionOK, Kept, Position, Recomputing
  <1>2. /\ y \in Session /\ y.own = s.own /\ y.wrote = s.wrote /\ y.sides = s.sides
        /\ y.locked = X /\ y.request = s.request /\ y.n = s.n
    BY <1>1 DEF Session
  <1> HIDE DEF y
  <1>3. z \in Session /\ z.own = y.own /\ z.wrote = y.wrote /\ z.sides = y.sides
    BY <1>2 DEF Session, PC
  <1>4. z.locked = y.locked /\ z.request = y.request /\ z.n = y.n /\ z.pc = "lookup"
    BY <1>2 DEF Session
  <1> HIDE DEF z
  <1>5. TouchedBy(z) = TouchedBy(s) /\ Pending(z) = Pending(s) /\ \A k : RowOf(z, R, k) = RowOf(s, R, k)
    BY <1>2, <1>3 DEF TouchedBy, Pending, RowOf
  <1>6. Rows(z, e, n) /\ Recomputed(z, e, L, R)
    BY <1>1, <1>2, <1>3, <1>5 DEF Kept, Rows, Recomputed
  <1>7. Drawn(z, e, L, O) /\ Keyed(z, L)
    BY <1>1, <1>2, <1>3, <1>4 DEF Kept, Drawn, Keyed
  <1>8. Holds(z, e, R, S)
    BY <1>1, <1>2, <1>4 DEF Holds, Clear
  <1>9. Done(z, L)
    BY <1>1, <1>2, <1>3, <1>4 DEF Done, Through, Recomputing
  <1>10. Position(z, e, L, R)
    BY <1>1, <1>2, <1>3, <1>4, <1>9 DEF Position, Recomputing
  <1>11. Kept(z, e, L, R, n, S, O)
    BY <1>1, <1>3, <1>6, <1>7, <1>8 DEF Kept
  <1>12. SessionOK(z, e, L, R, n, S, O)
    BY <1>10, <1>11 DEF SessionOK
  <1> QED
    BY <1>12 DEF y, z

(* A command whose key is visible is through. *)
LEMMA HitOK ==
    ASSUME NEW s, NEW e, NEW L, NEW R, NEW n \in Nat, NEW S, NEW O,
           SessionOK(s, e, L, R, n, S, O), s.pc = "lookup",
           \E t \in L \cup s.own : t.key = s.request.commands[s.n].key
    PROVE  SessionOK(Returned(s), e, L, R, n, S, O)
  <1>1. /\ Kept(s, e, L, R, n, S, O) /\ s.request \in Requests /\ s.n \in 1..Len(s.request.commands)
        /\ s.sides = << >> /\ Done(s, L)
    BY DEF SessionOK, Position, Recomputing
  <1>2. s.n \in Nat
    BY <1>1
  <1>3. \A i \in 1..s.n : i < s.n \/ i = s.n
    BY <1>2
  <1>4. \A i \in 1..s.n : s.request.commands[i].key # NULL =>
            \E t \in L \cup s.own : t.key = s.request.commands[i].key
    BY <1>1, <1>3 DEF Done, Through
  <1> QED
    BY <1>1, <1>4, ReturnedOK

(* A command whose key is not visible goes on to its checks. *)
LEMMA MissOK ==
    ASSUME NEW s, NEW e, NEW L, NEW R, NEW n \in Nat, NEW S, NEW O,
           SessionOK(s, e, L, R, n, S, O), s.pc = "lookup"
    PROVE  SessionOK([ s EXCEPT !.pc = "check" ], e, L, R, n, S, O)
  <1> DEFINE z == [ s EXCEPT !.pc = "check" ]
  <1>1. /\ Kept(s, e, L, R, n, S, O) /\ s \in Session /\ s.request \in Requests
        /\ s.n \in 1..Len(s.request.commands) /\ s.sides = << >> /\ Done(s, L)
    BY DEF SessionOK, Position, Recomputing, Kept
  <1>2. z \in Session /\ z.own = s.own /\ z.wrote = s.wrote /\ z.sides = s.sides
    BY <1>1 DEF Session, PC
  <1>3. z.locked = s.locked /\ z.request = s.request /\ z.n = s.n /\ z.pc = "check"
    BY <1>1 DEF Session
  <1> HIDE DEF z
  <1>4. Kept(z, e, L, R, n, S, O)
    BY <1>1, <1>2, <1>3, StillKept
  <1>5. Done(z, L)
    BY <1>1, <1>2, <1>3 DEF Done, Through, Recomputing
  <1>6. Position(z, e, L, R)
    BY <1>1, <1>2, <1>3, <1>5 DEF Position, Recomputing
  <1>7. SessionOK(z, e, L, R, n, S, O)
    BY <1>4, <1>6 DEF SessionOK
  <1> QED
    BY <1>7 DEF z

(* What a session sees of a row it is not recomputing, not stale and not     *)
(* suspect, is the sum of what it sees.                                      *)
LEMMA SeenExact ==
    ASSUME NEW s, NEW e, NEW L, NEW R, NEW n, NEW S, NEW O, Kept(s, e, L, R, n, S, O),
           Store(L, R, n, S, O), s.sides = << >>, NEW k \in BalanceKey, Materialised(k),
           k \notin S \cup e.staleSums
    PROVE  Quantity(RowOf(s, R, k)) = LedgerNet(L \cup s.own, k)
  <1>1. Pending(s) = {}
    BY DEF Pending, Elements
  <1>2. CASE k \in TouchedBy(s)
    BY <1>1, <1>2 DEF Kept, Recomputed
  <1>3. CASE k \notin TouchedBy(s)
    <2>1. k \notin DOMAIN s.wrote /\ \A t \in s.own : k \notin TouchedKeys(t)
      BY <1>3 DEF Kept, Rows, TouchedBy
    <2>2. LedgerNet(L \cup s.own, k) = LedgerNet(L, k)
      BY <2>1, Untouched
    <2>3. RowOf(s, R, k) = R[k] /\ Quantity(R[k]) = LedgerNet(L, k)
      BY <2>1 DEF RowOf, Store
    <2> QED
      BY <2>2, <2>3
  <1> QED
    BY <1>2, <1>3

(* A session draws below zero only on what was below zero before. *)
LEMMA StillDrawn ==
    ASSUME NEW s, NEW e, NEW L, NEW R, NEW n, NEW S, NEW O, Kept(s, e, L, R, n, S, O),
           Store(L, R, n, S, O), NEW k \in BalanceKey, k \notin e.checks,
           LedgerNet(L \cup s.own, k) < 0
    PROVE  k \in O
  <1>1. \A t \in s.own : FromKey(t) # k
    BY DEF Kept, Drawn
  <1>2. IsFiniteSet(L) /\ IsFiniteSet(s.own) /\ IsFiniteSet(L \cup s.own)
    BY FS_Union DEF Store, Kept, Rows
  <1>3. LedgerNet(L, k) <= LedgerNet(L \cup s.own, k)
    BY <1>1, <1>2, OnlyInflows
  <1>4. LedgerNet(L, k) \in Int /\ LedgerNet(L \cup s.own, k) \in Int
    BY <1>2, SidesFinite
  <1>5. LedgerNet(L, k) < 0
    BY <1>3, <1>4
  <1> QED
    BY <1>5 DEF Store

(* The check reads the row of the key it draws upon. *)
LEMMA CheckOK ==
    ASSUME NEW s, NEW e, NEW L, NEW R, NEW n \in Nat, NEW S, NEW O,
           SessionOK(s, e, L, R, n, S, O), Store(L, R, n, S, O), s.pc = "check",
           NEW c, c = s.request.commands[s.n], NEW k, k = SourceKey(c), Valid(c),
           Sufficient(c, IF k \in BalanceKey THEN Quantity(RowOf(s, R, k)) ELSE 0)
    PROVE  SessionOK([ s EXCEPT !.pc = "insert" ],
                     [ e EXCEPT !.checks = @ \cup ({k} \cap BalanceKey),
                                !.misled = @ \cup ({k} \cap (S \cup e.staleSums)) ],
                     L, R, n, S, O)
  <1> DEFINE z == [ s EXCEPT !.pc = "insert" ]
             f == [ e EXCEPT !.checks = @ \cup ({k} \cap BalanceKey),
                             !.misled = @ \cup ({k} \cap (S \cup e.staleSums)) ]
  <1>1. /\ Kept(s, e, L, R, n, S, O) /\ s \in Session /\ s.request \in Requests
        /\ s.n \in 1..Len(s.request.commands) /\ s.sides = << >> /\ Done(s, L)
        /\ e \in Readings /\ S \subseteq BalanceKey
    BY DEF SessionOK, Position, Recomputing, Kept, Store
  <1>2. z \in Session /\ z.own = s.own /\ z.wrote = s.wrote /\ z.sides = s.sides
    BY <1>1 DEF Session, PC
  <1>3. z.locked = s.locked /\ z.request = s.request /\ z.n = s.n /\ z.pc = "insert"
    BY <1>1 DEF Session
  <1>4. /\ f.sums = e.sums /\ f.staleSums = e.staleSums /\ f.staleChecks = e.staleChecks
        /\ f.checks = e.checks \cup ({k} \cap BalanceKey)
        /\ f.misled = e.misled \cup ({k} \cap (S \cup e.staleSums))
    BY <1>1 DEF Readings
  <1>5. f \in Readings
    BY <1>1 DEF Readings
  <1> HIDE DEF z, f
  <1>6. Kept(z, e, L, R, n, S, O)
    BY <1>1, <1>2, <1>3, StillKept
  <1>7. Rows(z, f, n) /\ Recomputed(z, f, L, R) /\ Holds(z, f, R, S) /\ Keyed(z, L)
    BY <1>4, <1>6 DEF Kept, Rows, Recomputed, Holds, Keyed
  <1>8. ASSUME k \in BalanceKey, k \notin f.staleChecks \cup f.misled
        PROVE  /\ LedgerNet(L \cup s.own, k) < 0 => k \in O
               /\ ~MovesNothing(c) => LedgerNet(L \cup s.own, k) >= c.quantity
    <2>1. k \notin S \cup e.staleSums /\ k \notin e.staleChecks \cup e.misled
      BY <1>4, <1>8
    <2>2. LedgerNet(L \cup s.own, k) < 0 => k \in O
      <3>1. CASE k \in e.checks
        BY <1>1, <2>1, <3>1 DEF Kept, Drawn
      <3>2. CASE k \notin e.checks
        BY <1>1, <1>8, <3>2, StillDrawn
      <3> QED
        BY <3>1, <3>2
    <2>3. ASSUME ~MovesNothing(c) PROVE LedgerNet(L \cup s.own, k) >= c.quantity
      <3>1. c \in StockCommand /\ ~c.allowNegative
        BY <1>1, RequestFacts
      <3>2. c.from # NULL /\ c.quantity \in Nat \ {0}
        BY <1>8, <3>1, LedgerConstants DEF SourceKey, BalanceKey, Valid, StockCommand
      <3>3. Quantity(RowOf(s, R, k)) >= c.quantity
        BY <1>8, <2>3, <3>1, <3>2 DEF Sufficient
      <3>4. Materialised(k)
        <4> SUFFICES ASSUME ~Materialised(k) PROVE FALSE
          OBVIOUS
        <4>1. k \notin DOMAIN s.wrote
          BY <1>1 DEF Kept, Rows
        <4>2. RowOf(s, R, k) = NULL
          BY <1>8, <4>1 DEF RowOf, Store
        <4>3. Quantity(RowOf(s, R, k)) = 0
          BY <4>2 DEF Quantity
        <4> QED
          BY <3>2, <3>3, <4>3
      <3> QED
        BY <1>1, <1>8, <2>1, <3>3, <3>4, SeenExact
    <2> QED
      BY <2>2, <2>3
  <1>9. Drawn(z, f, L, O)
    <2>1. \A t \in z.own : FromKey(t) \in BalanceKey => FromKey(t) \in f.checks
      BY <1>4, <1>6 DEF Kept, Drawn
    <2>2. \A j \in f.checks \ (f.staleChecks \cup f.misled) :
             LedgerNet(L \cup z.own, j) < 0 => j \in O
      <3> SUFFICES ASSUME NEW j \in f.checks, j \notin f.staleChecks \cup f.misled,
                          LedgerNet(L \cup z.own, j) < 0
                   PROVE  j \in O
        OBVIOUS
      <3>1. CASE j \in e.checks
        BY <1>4, <1>6, <3>1 DEF Kept, Drawn
      <3>2. CASE j \notin e.checks
        <4>1. j = k /\ k \in BalanceKey
          BY <1>4, <3>2
        <4> QED
          BY <1>2, <1>8, <4>1
      <3> QED
        BY <3>1, <3>2
    <2> QED
      BY <2>1, <2>2 DEF Drawn
  <1>10. Checked(z, f, L)
    BY <1>2, <1>3, <1>4, <1>8 DEF Checked
  <1>11. Done(z, L)
    BY <1>1, <1>2, <1>3 DEF Done, Through, Recomputing
  <1>12. Position(z, f, L, R)
    BY <1>1, <1>2, <1>3, <1>10, <1>11 DEF Position, Recomputing
  <1>13. SessionOK(z, f, L, R, n, S, O)
    BY <1>2, <1>5, <1>7, <1>9, <1>12 DEF SessionOK, Kept
  <1> QED
    BY <1>13 DEF z, f

(* The movement the command in hand inserts, and the session with it. *)
Movement(s, n) == Transaction(s.request.commands[s.n], n)
Inserted(s, n) == [ s EXCEPT !.own = @ \cup {Movement(s, n)}, !.sides = SidesOf(Movement(s, n)) ]

(* A new row whose key is not visible is the session's own, and its sides    *)
(* are yet to be recomputed.                                                 *)
LEMMA InsertedKept ==
    ASSUME NEW s, NEW e, NEW L, NEW R, NEW n, NEW S, NEW O,
           SessionOK(s, e, L, R, n, S, O), Store(L, R, n, S, O), s.pc = "insert",
           s.request.commands[s.n].key # NULL =>
             \A u \in L \cup s.own : u.key # s.request.commands[s.n].key,
           NEW m, m = n + 1
    PROVE  LET c == s.request.commands[s.n]
               t == Movement(s, n)
               y == Inserted(s, n) IN
           /\ Kept(y, e, L, R, m, S, O)
           /\ y.request = s.request /\ y.n = s.n /\ y.own = s.own \cup {t} /\ y.sides = SidesOf(t)
           /\ t.key = c.key
  <1> DEFINE V == L \cup s.own
             c == s.request.commands[s.n]
             t == Movement(s, n)
             y == Inserted(s, n)
  <1> c.key # NULL => \A u \in L \cup s.own : u.key # c.key
    OBVIOUS
  <1> HIDE DEF c, t, y
  <1> c = s.request.commands[s.n] /\ t = Transaction(c, n)
    BY DEF c, t, Movement
  <1> y = [ s EXCEPT !.own = @ \cup {t}, !.sides = SidesOf(t) ]
    BY DEF y, t, Inserted
  <1>1. /\ Kept(s, e, L, R, n, S, O) /\ s \in Session /\ s.request \in Requests
        /\ s.n \in 1..Len(s.request.commands) /\ s.sides = << >> /\ Checked(s, e, L)
        /\ e \in Readings /\ n \in Nat /\ L \subseteq StockTransaction /\ IsFiniteSet(L)
    BY DEF SessionOK, Position, Recomputing, Kept, Store
  <1>2. c \in StockCommand /\ Valid(c) /\ (c.key # NULL => c.key \in KeysOf(s.request))
    BY <1>1, RequestFacts DEF Checked
  <1>3. /\ t \in StockTransaction /\ t.id = n
        /\ t.key = c.key /\ t.quantity = c.quantity /\ FromKey(t) = SourceKey(c)
        /\ MovesNothing(c) => ToKey(t) = FromKey(t)
    <2>1. t \in StockTransaction /\ t.id = n
      BY <1>1, <1>2, TransactionType
    <2> QED
      BY <2>1 DEF Transaction, FromKey, ToKey, SourceKey, MovesNothing
  <1>4. /\ SidesOf(t) \in Seq(BalanceKey)
        /\ Elements(SidesOf(t)) = { k \in TouchedKeys(t) : Materialised(k) }
    BY SidesFacts
  <1> HIDE DEF V
  <1>5. /\ y \in Session /\ y.request = s.request /\ y.n = s.n /\ y.own = s.own \cup {t}
        /\ y.sides = SidesOf(t) /\ y.wrote = s.wrote /\ y.locked = s.locked
    BY <1>1, <1>3, <1>4 DEF Session
  <1>6. /\ TouchedBy(y) = TouchedBy(s) \cup TouchedKeys(t)
        /\ Pending(y) = { k \in TouchedKeys(t) : Materialised(k) } /\ Pending(s) = {}
        /\ \A k : RowOf(y, R, k) = RowOf(s, R, k)
        /\ L \cup y.own = V \cup {t}
    BY <1>1, <1>4, <1>5 DEF TouchedBy, Pending, RowOf, Elements, V
  <1>7. \A u \in V : u.id \in Nat /\ u.id < n
    BY <1>1 DEF V, Kept, Rows, Session, Store, StockTransaction
  <1>8. t \notin V /\ IsFiniteSet(V) /\ IsFiniteSet(y.own)
    <2>1. IsFiniteSet(s.own)
      BY <1>1 DEF Kept, Rows
    <2>2. IsFiniteSet(V)
      BY <1>1, <2>1, FS_Union DEF V
    <2>3. IsFiniteSet(s.own \cup {t})
      BY <2>1, FS_AddElement
    <2>4. t \notin V
      BY <1>1, <1>3, <1>7
    <2> QED
      BY <1>5, <2>2, <2>3, <2>4
  <1>9. Rows(y, e, m)
    <2>1. \A u \in y.own : u.id < m
      BY <1>1, <1>3, <1>5, <1>7 DEF V
    <2> QED
      BY <1>1, <1>5, <1>6, <1>8, <2>1 DEF Kept, Rows
  <1>10. Recomputed(y, e, L, R)
    <2> SUFFICES ASSUME NEW k \in TouchedBy(y), Materialised(k), k \notin Pending(y), k \notin e.staleSums
                 PROVE  /\ k \in e.sums
                        /\ Quantity(RowOf(y, R, k)) = LedgerNet(L \cup y.own, k)
                        /\ k \notin DOMAIN y.wrote => R[k] = NULL
      BY DEF Recomputed
    <2>1. k \notin TouchedKeys(t) /\ k \in TouchedBy(s) /\ k \in BalanceKey
      BY <1>6 DEF TouchedBy, TouchedKeys
    <2>2. LedgerNet(V \cup {t}, k) = LedgerNet(V, k)
      BY <2>1, Untouched
    <2>3. /\ k \in e.sums /\ Quantity(RowOf(s, R, k)) = LedgerNet(V, k)
          /\ k \notin DOMAIN s.wrote => R[k] = NULL
      BY <1>1, <1>6, <2>1 DEF Kept, Recomputed, V
    <2> QED
      BY <1>5, <1>6, <2>2, <2>3
  <1>11. Drawn(y, e, L, O)
    <2>1. \A u \in y.own : FromKey(u) \in BalanceKey => FromKey(u) \in e.checks
      BY <1>1, <1>3, <1>5 DEF Kept, Drawn, Checked
    <2>2. ASSUME NEW k \in e.checks, k \notin e.staleChecks \cup e.misled, LedgerNet(V \cup {t}, k) < 0
          PROVE  k \in O
      <3>1. LedgerNet(V, k) < 0 => k \in O
        BY <1>1, <2>2 DEF Kept, Drawn, V
      <3>2. IsFiniteSet(V \cup {t}) /\ IsFiniteSet({t})
        BY <1>8, FS_AddElement, FS_Singleton
      <3>3. LedgerNet(V, k) \in Int /\ LedgerNet(V \cup {t}, k) \in Int
        BY <1>8, <3>2, SidesFinite
      <3>4. CASE FromKey(t) # k
        <4>1. LedgerNet(V, k) <= LedgerNet(V \cup {t}, k)
          BY <1>8, <3>2, <3>4, OnlyInflows
        <4> QED
          BY <2>2, <3>1, <3>3, <4>1
      <3>5. CASE FromKey(t) = k /\ ToKey(t) = k
        BY <1>3, <1>8, <2>2, <3>1, <3>5, Withdrawn
      <3>6. CASE FromKey(t) = k /\ ToKey(t) # k
        <4>1. LedgerNet(V \cup {t}, k) = LedgerNet(V, k) - t.quantity
          BY <1>3, <1>8, <3>6, Withdrawn
        <4>2. ~MovesNothing(c) /\ k = SourceKey(c) /\ k \in BalanceKey
          BY <1>1, <1>3, <2>2, <3>6 DEF Readings
        <4>3. LedgerNet(V, k) >= t.quantity
          BY <1>1, <1>3, <2>2, <4>2 DEF Checked, V
        <4>4. t.quantity \in Nat
          BY <1>3, LedgerConstants DEF StockTransaction
        <4> QED
          BY <2>2, <3>3, <4>1, <4>3, <4>4
      <3> QED
        BY <3>4, <3>5, <3>6
    <2> QED
      BY <1>6, <2>1, <2>2 DEF Drawn
  <1>12. Holds(y, e, R, S)
    BY <1>1, <1>5 DEF Kept, Holds
  <1>13. Keyed(y, L)
    BY <1>1, <1>2, <1>3, <1>5 DEF Kept, Keyed
  <1>14. /\ Kept(y, e, L, R, m, S, O) /\ y.request = s.request /\ y.n = s.n
         /\ y.own = s.own \cup {t} /\ y.sides = SidesOf(t) /\ t.key = c.key
    BY <1>1, <1>3, <1>5, <1>9, <1>10, <1>11, <1>12, <1>13 DEF Kept
  <1> QED
    BY <1>14 DEF c, t, y

(* After the insert the session recomputes, or the command is through.       *)
LEMMA InsertOK ==
    ASSUME NEW s, NEW e, NEW L, NEW R, NEW n, NEW S, NEW O, SessionOK(s, e, L, R, n, S, O),
           s.pc = "insert", NEW t, t.key = s.request.commands[s.n].key,
           NEW y, NEW m \in Nat, Kept(y, e, L, R, m, S, O),
           y.request = s.request, y.n = s.n, y.own = s.own \cup {t}
    PROVE  /\ y.sides = << >> => SessionOK(Returned(y), e, L, R, m, S, O)
           /\ y.sides # << >> => SessionOK([ y EXCEPT !.pc = "sumIn" ], e, L, R, m, S, O)
  <1>1. /\ s.request \in Requests /\ s.n \in 1..Len(s.request.commands) /\ Done(s, L) /\ s.n \in Nat
    BY DEF SessionOK, Position
  <1>2. /\ y.request \in Requests /\ y.n \in 1..Len(y.request.commands) /\ y \in Session
    BY <1>1 DEF Kept
  <1>3. \A i \in 1..y.n : y.request.commands[i].key # NULL =>
            \E u \in L \cup y.own : u.key = y.request.commands[i].key
    <2> SUFFICES ASSUME NEW i \in 1..s.n, s.request.commands[i].key # NULL
                 PROVE  \E u \in L \cup y.own : u.key = s.request.commands[i].key
      OBVIOUS
    <2>1. CASE i < s.n
      BY <1>1, <2>1 DEF Done, Through
    <2>2. CASE i = s.n
      BY <1>1, <2>2
    <2> QED
      BY <1>1, <2>1, <2>2
  <1>4. ASSUME y.sides = << >> PROVE SessionOK(Returned(y), e, L, R, m, S, O)
    BY <1>2, <1>3, <1>4, ReturnedOK
  <1>5. ASSUME y.sides # << >> PROVE SessionOK([ y EXCEPT !.pc = "sumIn" ], e, L, R, m, S, O)
    <2> DEFINE z == [ y EXCEPT !.pc = "sumIn" ]
    <2>1. z \in Session /\ z.own = y.own /\ z.wrote = y.wrote /\ z.sides = y.sides
      BY <1>2 DEF Session, PC
    <2>2. z.locked = y.locked /\ z.request = y.request /\ z.n = y.n /\ z.pc = "sumIn"
      BY <1>2 DEF Session
    <2> HIDE DEF z
    <2> m <= m
      OBVIOUS
    <2>3. Kept(z, e, L, R, m, S, O)
      BY <2>1, <2>2, StillKept
    <2>4. Done(z, L)
      BY <1>3, <2>1, <2>2 DEF Done
    <2>5. Summed(z, e, L, R)
      BY <2>2 DEF Summed
    <2>6. Position(z, e, L, R)
      BY <1>2, <1>5, <2>1, <2>2, <2>4, <2>5 DEF Position, Recomputing
    <2>7. SessionOK(z, e, L, R, m, S, O)
      BY <2>3, <2>6 DEF SessionOK
    <2> QED
      BY <2>7 DEF z
  <1> QED
    BY <1>4, <1>5

(* A session that recomputes has a key in hand that it touches. *)
LEMMA InHand ==
    ASSUME NEW s, NEW e, NEW L, NEW R, NEW n, NEW S, NEW O, SessionOK(s, e, L, R, n, S, O),
           Store(L, R, n, S, O), s.pc \in Recomputing, NEW k, k = Head(s.sides)
    PROVE  /\ Kept(s, e, L, R, n, S, O) /\ s \in Session /\ e \in Readings /\ n \in Nat
           /\ s.request \in Requests /\ s.n \in 1..Len(s.request.commands) /\ s.sides # << >>
           /\ k \in BalanceKey /\ k \in TouchedBy(s) /\ k \in Pending(s) /\ Materialised(k)
           /\ Pending(s) = {k} \cup Elements(Tail(s.sides)) /\ Tail(s.sides) \in Seq(BalanceKey)
           /\ Len(s.sides) > 1 <=> Tail(s.sides) # << >>
           /\ Summed(s, e, L, R) /\ RowOf(s, R, k) \in Nullable(Row)
           /\ \A i \in 1..s.n : s.request.commands[i].key # NULL =>
                 \E t \in L \cup s.own : t.key = s.request.commands[i].key
           /\ IsFiniteSet(L \cup s.own)
  <1>1. /\ Kept(s, e, L, R, n, S, O) /\ s \in Session /\ e \in Readings /\ n \in Nat
        /\ s.request \in Requests /\ s.n \in 1..Len(s.request.commands) /\ s.sides # << >>
        /\ Summed(s, e, L, R) /\ Done(s, L) /\ s.sides \in Seq(BalanceKey) /\ s.wrote \in Writes
        /\ R \in [ BalanceKey -> Nullable(Row) ] /\ IsFiniteSet(L)
    BY DEF SessionOK, Position, Recomputing, Kept, Session, Store
  <1>2. /\ k \in BalanceKey /\ Tail(s.sides) \in Seq(BalanceKey)
        /\ Pending(s) = {k} \cup Elements(Tail(s.sides))
        /\ Len(s.sides) > 1 <=> Tail(s.sides) # << >>
    BY <1>1, FirstAndRest DEF Pending
  <1>3. k \in TouchedBy(s) /\ Materialised(k)
    BY <1>1, <1>2 DEF Kept, Rows
  <1>4. RowOf(s, R, k) \in Nullable(Row)
    BY <1>1, <1>2, WriteType DEF RowOf, Nullable
  <1>5. s.n \in Nat /\ \A i \in 1..s.n : i < s.n \/ i = s.n
    BY <1>1
  <1>6. \A i \in 1..s.n : s.request.commands[i].key # NULL =>
            \E t \in L \cup s.own : t.key = s.request.commands[i].key
    BY <1>1, <1>5 DEF Done, Through
  <1>7. IsFiniteSet(L \cup s.own)
    BY <1>1, FS_Union DEF Kept, Rows
  <1> QED
    BY <1>1, <1>2, <1>3, <1>4, <1>6, <1>7

(* A statement that takes a sum or reads the row leaves what the session     *)
(* keeps, and is the next of the four.                                       *)
LEMMA NextStatement ==
    ASSUME NEW s, NEW e, NEW L, NEW R, NEW n, NEW S, NEW O, SessionOK(s, e, L, R, n, S, O),
           Store(L, R, n, S, O), s.pc \in Recomputing,
           NEW f, Kept(s, f, L, R, n, S, O),
           NEW z \in Session, z.own = s.own, z.wrote = s.wrote, z.sides = s.sides,
           z.locked = s.locked, z.request = s.request, z.n = s.n, z.pc \in Recomputing,
           Summed(z, f, L, R)
    PROVE  SessionOK(z, f, L, R, n, S, O)
  <1>1. /\ s.request \in Requests /\ s.n \in 1..Len(s.request.commands) /\ s.sides # << >> /\ n \in Nat
        /\ \A i \in 1..s.n : s.request.commands[i].key # NULL =>
             \E t \in L \cup s.own : t.key = s.request.commands[i].key
    BY InHand
  <1>2. Done(z, L)
    BY <1>1 DEF Done
  <1>3. Position(z, f, L, R)
    BY <1>1, <1>2 DEF Position, Recomputing
  <1>4. n <= n
    BY <1>1
  <1>5. Kept(z, f, L, R, n, S, O)
    BY <1>1, <1>4, StillKept
  <1> QED
    BY <1>3, <1>5 DEF SessionOK

(* The incoming sum: from here on the key has been read. *)
LEMMA SumIncomingOK ==
    ASSUME NEW s, NEW e, NEW L, NEW R, NEW n, NEW S, NEW O, SessionOK(s, e, L, R, n, S, O),
           Store(L, R, n, S, O), s.pc = "sumIn", NEW k, k = Head(s.sides)
    PROVE  SessionOK([ [ s EXCEPT !.sum = SumQuantity(Incoming(L \cup s.own, k)) ] EXCEPT !.pc = "sumOut" ],
                     [ e EXCEPT !.sums = @ \cup {k}, !.staleSums = @ \ {k} ], L, R, n, S, O)
  <1> DEFINE x == SumQuantity(Incoming(L \cup s.own, k))
             y == [ s EXCEPT !.sum = x ]
             z == [ y EXCEPT !.pc = "sumOut" ]
             f == [ e EXCEPT !.sums = @ \cup {k}, !.staleSums = @ \ {k} ]
  <1>1. /\ Kept(s, e, L, R, n, S, O) /\ s \in Session /\ e \in Readings /\ s.pc \in Recomputing
        /\ k \in BalanceKey /\ k \in TouchedBy(s) /\ k \in Pending(s) /\ IsFiniteSet(L \cup s.own)
    BY InHand DEF Recomputing
  <1>2. IsFiniteSet(Incoming(L \cup s.own, k))
    BY <1>1, SidesFinite
  <1>3. x \in Int
    BY <1>2, UnitsFinite
  <1> HIDE DEF x
  <1>4. /\ y \in Session /\ y.own = s.own /\ y.wrote = s.wrote /\ y.sides = s.sides
        /\ y.locked = s.locked /\ y.request = s.request /\ y.n = s.n /\ y.sum = x
    BY <1>1, <1>3 DEF Session
  <1> HIDE DEF y
  <1>5. z \in Session /\ z.own = y.own /\ z.wrote = y.wrote /\ z.sides = y.sides /\ z.sum = y.sum
    BY <1>4 DEF Session, PC
  <1>6. z.locked = y.locked /\ z.request = y.request /\ z.n = y.n /\ z.pc = "sumOut"
    BY <1>4 DEF Session
  <1> HIDE DEF z
  <1>7. /\ f \in Readings /\ f.sums = e.sums \cup {k} /\ f.staleSums = e.staleSums \ {k}
        /\ f.checks = e.checks /\ f.staleChecks = e.staleChecks /\ f.misled = e.misled
    BY <1>1 DEF Readings
  <1> HIDE DEF f
  <1>8. Rows(s, f, n) /\ Recomputed(s, f, L, R)
    BY <1>1, <1>7 DEF Kept, Rows, Recomputed
  <1>9. Drawn(s, f, L, O) /\ Holds(s, f, R, S) /\ Keyed(s, L)
    BY <1>1, <1>7 DEF Kept, Drawn, Holds, Keyed
  <1>10. Kept(s, f, L, R, n, S, O)
    BY <1>1, <1>7, <1>8, <1>9 DEF Kept
  <1>11. Summed(z, f, L, R)
    BY <1>4, <1>5, <1>6, <1>7 DEF Summed, x
  <1>12. SessionOK(z, f, L, R, n, S, O)
    BY <1>1, <1>4, <1>5, <1>6, <1>10, <1>11, NextStatement DEF Recomputing
  <1> QED
    BY <1>12 DEF x, y, z, f

(* The outgoing sum: what is left is the sum of the key, unless it is stale. *)
LEMMA SumOutgoingOK ==
    ASSUME NEW s, NEW e, NEW L, NEW R, NEW n, NEW S, NEW O, SessionOK(s, e, L, R, n, S, O),
           Store(L, R, n, S, O), s.pc = "sumOut", NEW k, k = Head(s.sides)
    PROVE  SessionOK([ [ s EXCEPT !.sum = @ - SumQuantity(Outgoing(L \cup s.own, k)) ] EXCEPT !.pc = "findRow" ],
                     e, L, R, n, S, O)
  <1> DEFINE x == s.sum - SumQuantity(Outgoing(L \cup s.own, k))
             y == [ s EXCEPT !.sum = x ]
             z == [ y EXCEPT !.pc = "findRow" ]
  <1>1. /\ Kept(s, e, L, R, n, S, O) /\ s \in Session /\ e \in Readings /\ s.pc \in Recomputing
        /\ Summed(s, e, L, R) /\ IsFiniteSet(L \cup s.own)
    BY InHand DEF Recomputing
  <1>2. IsFiniteSet(Outgoing(L \cup s.own, k))
    BY <1>1, SidesFinite
  <1>3. SumQuantity(Outgoing(L \cup s.own, k)) \in Nat /\ s.sum \in Int
    BY <1>1, <1>2, UnitsFinite DEF Session
  <1>4. /\ x \in Int /\ k \in e.sums
        /\ k \notin e.staleSums => x = LedgerNet(L \cup s.own, k)
    BY <1>1, <1>3 DEF Summed, LedgerNet
  <1> HIDE DEF x
  <1>5. /\ y \in Session /\ y.own = s.own /\ y.wrote = s.wrote /\ y.sides = s.sides
        /\ y.locked = s.locked /\ y.request = s.request /\ y.n = s.n /\ y.sum = x
    BY <1>1, <1>4 DEF Session
  <1> HIDE DEF y
  <1>6. z \in Session /\ z.own = y.own /\ z.wrote = y.wrote /\ z.sides = y.sides /\ z.sum = y.sum
    BY <1>5 DEF Session, PC
  <1>7. z.locked = y.locked /\ z.request = y.request /\ z.n = y.n /\ z.pc = "findRow"
    BY <1>5 DEF Session
  <1> HIDE DEF z
  <1>8. Summed(z, e, L, R)
    BY <1>4, <1>5, <1>6, <1>7 DEF Summed
  <1>9. SessionOK(z, e, L, R, n, S, O)
    BY <1>1, <1>5, <1>6, <1>7, <1>8, NextStatement DEF Recomputing
  <1> QED
    BY <1>9 DEF x, y, z

(* The write that a row and a sum ask for. *)
LEMMA PendingWriteFacts ==
    ASSUME NEW found \in Nullable(Row), NEW sum \in Int
    PROVE  LET p == PendingWrite(found, sum) IN
           /\ p \in PendingWrites
           /\ p.kind \in { "insert", "touch", "update" } => sum # 0
           /\ p.kind \in { "delete", "touch", "update" } => p.row \in Nat
  <1>1. CASE found = NULL
    BY <1>1 DEF PendingWrite, PendingWrites, Nullable
  <1>2. CASE found # NULL
    <2>1. found.row \in Nat
      BY <1>2 DEF Nullable, Row
    <2> QED
      BY <1>2, <2>1 DEF PendingWrite, PendingWrites, Nullable
  <1> QED
    BY <1>1, <1>2

(* The row is read: the write is settled. *)
LEMMA FindRowOK ==
    ASSUME NEW s, NEW e, NEW L, NEW R, NEW n, NEW S, NEW O, SessionOK(s, e, L, R, n, S, O),
           Store(L, R, n, S, O), s.pc = "findRow", NEW k, k = Head(s.sides)
    PROVE  SessionOK([ [ s EXCEPT !.write = PendingWrite(RowOf(s, R, k), s.sum) ] EXCEPT !.pc = "flush" ],
                     e, L, R, n, S, O)
  <1> DEFINE p == PendingWrite(RowOf(s, R, k), s.sum)
             y == [ s EXCEPT !.write = p ]
             z == [ y EXCEPT !.pc = "flush" ]
  <1>1. /\ Kept(s, e, L, R, n, S, O) /\ s \in Session /\ e \in Readings /\ s.pc \in Recomputing
        /\ Summed(s, e, L, R) /\ RowOf(s, R, k) \in Nullable(Row)
    BY InHand DEF Recomputing
  <1>11. s.sum \in Int
    BY <1>1 DEF Session
  <1>2. /\ p \in PendingWrites
        /\ p.kind \in { "insert", "touch", "update" } => s.sum # 0
        /\ p.kind \in { "delete", "touch", "update" } => p.row \in Nat
    BY <1>1, <1>11, PendingWriteFacts
  <1>3. k \in e.sums /\ (k \notin e.staleSums => s.sum = LedgerNet(L \cup s.own, k))
    BY <1>1 DEF Summed
  <1>4. p = PendingWrite(RowOf(s, R, k), s.sum)
    OBVIOUS
  <1> HIDE DEF p
  <1>5. /\ y \in Session /\ y.own = s.own /\ y.wrote = s.wrote /\ y.sides = s.sides
        /\ y.locked = s.locked /\ y.request = s.request /\ y.n = s.n /\ y.sum = s.sum /\ y.write = p
    BY <1>1, <1>2 DEF Session, Nullable
  <1> HIDE DEF y
  <1>6. z \in Session /\ z.own = y.own /\ z.wrote = y.wrote /\ z.sides = y.sides /\ z.sum = y.sum
    BY <1>5 DEF Session, PC
  <1>7. z.locked = y.locked /\ z.request = y.request /\ z.n = y.n /\ z.pc = "flush" /\ z.write = y.write
    BY <1>5 DEF Session
  <1> HIDE DEF z
  <1>8. RowOf(z, R, k) = RowOf(s, R, k)
    BY <1>5, <1>6 DEF RowOf
  <1>9. Summed(z, e, L, R)
    BY <1>2, <1>3, <1>4, <1>5, <1>6, <1>7, <1>8 DEF Summed
  <1>10. SessionOK(z, e, L, R, n, S, O)
    BY <1>1, <1>5, <1>6, <1>7, <1>9, NextStatement DEF Recomputing
  <1> QED
    BY <1>10 DEF p, y, z

(* What a flush that succeeds leaves in the row in hand. *)
LEMMA WrittenFacts ==
    ASSUME NEW p \in PendingWrites, NEW now \in Nullable(Row), NEW sum \in Int,
           FlushSucceeds(p, now), nextId \in Nat,
           p.kind \in { "insert", "touch", "update" } => sum # 0,
           p.kind \in { "delete", "touch", "update" } => p.row \in Nat
    PROVE  /\ ~LeavesRowAlone(p, now) => Written(p, now, sum) \in Nullable(Row)
           /\ p = PendingWrite(now, sum) =>
                /\ ~LeavesRowAlone(p, now) => Quantity(Written(p, now, sum)) = sum
                /\ LeavesRowAlone(p, now) => now = NULL /\ sum = 0
  <1>1. \A x \in Row : x # NULL
    BY NullIsNoRow
  <1>2. ASSUME NEW i \in Nat, sum # 0
        PROVE  /\ [ row |-> i, quantity |-> sum ] \in Row
               /\ Quantity([ row |-> i, quantity |-> sum ]) = sum
    <2>1. [ row |-> i, quantity |-> sum ] \in Row
      BY <1>2 DEF Row
    <2> QED
      BY <1>1, <2>1 DEF Quantity
  <1>3. CASE p.kind = "nothing"
    <2>1. LeavesRowAlone(p, now)
      BY <1>3 DEF LeavesRowAlone
    <2>2. p = PendingWrite(now, sum) => sum = 0 /\ now = NULL
      BY <1>3 DEF PendingWrite
    <2> QED
      BY <2>1, <2>2
  <1>4. CASE p.kind = "delete"
    <2>1. Written(p, now, sum) = NULL /\ Quantity(NULL) = 0
      BY <1>4 DEF Written, Quantity
    <2>2. p = PendingWrite(now, sum) => sum = 0 /\ now # NULL /\ p.row = now.row
      BY <1>4 DEF PendingWrite
    <2>3. LeavesRowAlone(p, now) => now = NULL \/ now.row # p.row
      BY <1>4 DEF LeavesRowAlone
    <2> QED
      BY <2>1, <2>2, <2>3 DEF Nullable
  <1>5. CASE p.kind = "insert"
    <2>1. Written(p, now, sum) = [ row |-> nextId, quantity |-> sum ] /\ ~LeavesRowAlone(p, now)
      BY <1>5 DEF Written, LeavesRowAlone
    <2>2. sum # 0
      BY <1>5
    <2> QED
      BY <1>2, <2>1, <2>2 DEF Nullable
  <1>6. CASE p.kind = "update"
    <2>1. Written(p, now, sum) = [ row |-> p.row, quantity |-> sum ] /\ ~LeavesRowAlone(p, now)
      BY <1>6 DEF Written, LeavesRowAlone
    <2>2. sum # 0 /\ p.row \in Nat
      BY <1>6
    <2> QED
      BY <1>2, <2>1, <2>2 DEF Nullable
  <1>7. CASE p.kind = "touch"
    <2>1. Written(p, now, sum) = now /\ ~LeavesRowAlone(p, now) /\ now # NULL
      BY <1>7 DEF Written, LeavesRowAlone, FlushSucceeds
    <2>2. p = PendingWrite(now, sum) => now.quantity = sum
      BY <1>7, <2>1 DEF PendingWrite
    <2> QED
      BY <2>1, <2>2 DEF Quantity
  <1> QED
    BY <1>3, <1>4, <1>5, <1>6, <1>7 DEF PendingWrites

(* The row in hand is recomputed, and what is kept of the others stays.      *)
LEMMA FlushedKept ==
    ASSUME NEW s, NEW e, NEW L, NEW R, NEW n, NEW S, NEW O, SessionOK(s, e, L, R, n, S, O),
           Store(L, R, n, S, O), s.pc = "flush", NEW k, k = Head(s.sides),
           NEW y \in Session, y.own = s.own, y.sides = Tail(s.sides), y.locked = s.locked,
           y.request = s.request, DOMAIN y.wrote \subseteq DOMAIN s.wrote \cup {k},
           \A j \in BalanceKey \ {k} :
              /\ RowOf(y, R, j) = RowOf(s, R, j)
              /\ j \in DOMAIN s.wrote => j \in DOMAIN y.wrote,
           k \notin e.staleSums =>
              /\ Quantity(RowOf(y, R, k)) = LedgerNet(L \cup s.own, k)
              /\ k \notin DOMAIN y.wrote => R[k] = NULL,
           NEW m \in Nat, n <= m
    PROVE  Kept(y, e, L, R, m, S, O)
  <1>1. /\ Kept(s, e, L, R, n, S, O) /\ s \in Session /\ e \in Readings /\ n \in Nat
        /\ k \in BalanceKey /\ k \in TouchedBy(s) /\ k \in Pending(s) /\ Materialised(k)
        /\ Pending(s) = {k} \cup Elements(Tail(s.sides)) /\ Summed(s, e, L, R)
    BY InHand DEF Recomputing
  <1>2. TouchedBy(y) = TouchedBy(s) /\ Pending(y) = Elements(Tail(s.sides))
    BY DEF TouchedBy, Pending
  <1>3. TouchedBy(s) \subseteq BalanceKey
    BY DEF TouchedBy, TouchedKeys
  <1>4. \A t \in s.own : t.id \in Nat
    BY <1>1 DEF Session, StockTransaction
  <1>5. Rows(y, e, m)
    BY <1>1, <1>2, <1>4 DEF Kept, Rows
  <1>6. Recomputed(y, e, L, R)
    <2> SUFFICES ASSUME NEW j \in TouchedBy(s), Materialised(j), j \notin Pending(y), j \notin e.staleSums
                 PROVE  /\ j \in e.sums
                        /\ Quantity(RowOf(y, R, j)) = LedgerNet(L \cup s.own, j)
                        /\ j \notin DOMAIN y.wrote => R[j] = NULL
      BY <1>2 DEF Recomputed
    <2>1. CASE j = k
      BY <1>1, <2>1 DEF Summed
    <2>2. CASE j # k
      <3>1. j \notin Pending(s) /\ j \in BalanceKey
        BY <1>1, <1>2, <1>3, <2>2
      <3> QED
        BY <1>1, <2>2, <3>1 DEF Kept, Recomputed
    <2> QED
      BY <2>1, <2>2
  <1>7. Drawn(y, e, L, O) /\ Holds(y, e, R, S) /\ Keyed(y, L)
    BY <1>1 DEF Kept, Drawn, Holds, Keyed
  <1> QED
    BY <1>1, <1>5, <1>6, <1>7 DEF Kept

(* The session whose pending write is flushed. *)
Flushed(s) ==
    LET k == Head(s.sides)
        now == RowOf(s, rows, k)
    IN IF LeavesRowAlone(s.write, now) THEN s
       ELSE [ s EXCEPT !.wrote = [ j \in DOMAIN s.wrote \cup {k} |->
                IF j = k THEN Written(s.write, now, s.sum) ELSE s.wrote[j] ] ]

(* After the flush the other side is next, or the command is through. *)
LEMMA FlushOK ==
    ASSUME NEW s, NEW e, SessionOK(s, e, ledger, rows, nextId, suspect, overdrawn),
           Store(ledger, rows, nextId, suspect, overdrawn), s.pc = "flush",
           NEW k, k = Head(s.sides), NEW now, now = RowOf(s, rows, k),
           FlushSucceeds(s.write, now),
           NEW m, m = IF s.write.kind = "insert" THEN nextId + 1 ELSE nextId
    PROVE  LET x == Flushed(s) IN
           /\ m \in Nat /\ nextId <= m
           /\ x.sides = s.sides /\ x.own = s.own /\ x.locked = s.locked /\ x \in Session
           /\ DOMAIN x.wrote \subseteq DOMAIN s.wrote \cup {k}
           /\ LeavesRowAlone(s.write, now) => x = s
           /\ Len(x.sides) > 1 =>
                SessionOK([ [ x EXCEPT !.sides = Tail(x.sides) ] EXCEPT !.pc = "sumIn" ],
                          e, ledger, rows, m, suspect, overdrawn)
           /\ ~(Len(x.sides) > 1) =>
                SessionOK(Returned([ x EXCEPT !.sides = << >> ]), e, ledger, rows, m, suspect, overdrawn)
  <1> DEFINE x == Flushed(s)
             p == s.write
             v == Written(p, now, s.sum)
             kept == [ j \in DOMAIN s.wrote \cup {k} |-> IF j = k THEN v ELSE s.wrote[j] ]
             T == Tail(s.sides)
  <1> HIDE DEF x
  <1> x = IF LeavesRowAlone(p, now) THEN s ELSE [ s EXCEPT !.wrote = kept ]
    BY DEF x, Flushed
  <1>1. /\ Kept(s, e, ledger, rows, nextId, suspect, overdrawn) /\ s \in Session /\ nextId \in Nat
        /\ s.request \in Requests /\ s.n \in 1..Len(s.request.commands)
        /\ k \in BalanceKey /\ Summed(s, e, ledger, rows) /\ now \in Nullable(Row)
        /\ T \in Seq(BalanceKey) /\ (Len(s.sides) > 1 <=> T # << >>)
        /\ \A i \in 1..s.n : s.request.commands[i].key # NULL =>
              \E t \in ledger \cup s.own : t.key = s.request.commands[i].key
    BY InHand DEF Recomputing
  <1>2. m \in Nat /\ nextId <= m
    BY <1>1
  <1>3. /\ p \in PendingWrites
        /\ p.kind \in { "insert", "touch", "update" } => s.sum # 0
        /\ p.kind \in { "delete", "touch", "update" } => p.row \in Nat
        /\ k \notin e.staleSums => s.sum = LedgerNet(ledger \cup s.own, k) /\ p = PendingWrite(now, s.sum)
    BY <1>1 DEF Summed
  <1>4. s.sum \in Int /\ s.wrote \in Writes
    BY <1>1 DEF Session
  <1>5. /\ ~LeavesRowAlone(p, now) => v \in Nullable(Row)
        /\ p = PendingWrite(now, s.sum) =>
             /\ ~LeavesRowAlone(p, now) => Quantity(v) = s.sum
             /\ LeavesRowAlone(p, now) => now = NULL /\ s.sum = 0
    BY <1>1, <1>3, <1>4, WrittenFacts
  <1>6. x = IF LeavesRowAlone(p, now) THEN s ELSE [ s EXCEPT !.wrote = kept ]
    OBVIOUS
  <1>7. /\ DOMAIN kept = DOMAIN s.wrote \cup {k} /\ kept[k] = v
        /\ \A j \in DOMAIN s.wrote \ {k} : kept[j] = s.wrote[j]
    OBVIOUS
  <1>8. ~LeavesRowAlone(p, now) => kept \in Writes
    BY <1>1, <1>4, <1>5, WriteType
  <1>20. T = Tail(s.sides) /\ p = s.write
    OBVIOUS
  <1> HIDE DEF v, kept, T, p
  <1>9. /\ x \in Session /\ x.own = s.own /\ x.sides = s.sides /\ x.locked = s.locked
        /\ x.request = s.request /\ x.n = s.n
        /\ x.wrote = IF LeavesRowAlone(p, now) THEN s.wrote ELSE kept
    <2>1. CASE LeavesRowAlone(p, now)
      BY <1>1, <1>6, <2>1
    <2>2. CASE ~LeavesRowAlone(p, now)
      <3>1. x = [ s EXCEPT !.wrote = kept ] /\ kept \in Writes
        BY <1>6, <1>8, <2>2
      <3> QED
        BY <1>1, <2>2, <3>1 DEF Session
    <2> QED
      BY <2>1, <2>2
  <1>10. DOMAIN x.wrote \subseteq DOMAIN s.wrote \cup {k}
    BY <1>7, <1>9
  <1> DEFINE y == [ x EXCEPT !.sides = T ]
  <1>11. /\ y \in Session /\ y.own = s.own /\ y.sides = T /\ y.locked = s.locked
         /\ y.request = s.request /\ y.n = s.n /\ y.wrote = x.wrote
    BY <1>1, <1>9 DEF Session
  <1> HIDE DEF y
  <1>12. \A j \in BalanceKey \ {k} :
            RowOf(y, rows, j) = RowOf(s, rows, j) /\ (j \in DOMAIN s.wrote => j \in DOMAIN y.wrote)
    BY <1>7, <1>9, <1>11 DEF RowOf
  <1>13. ASSUME k \notin e.staleSums
         PROVE  /\ Quantity(RowOf(y, rows, k)) = LedgerNet(ledger \cup s.own, k)
                /\ k \notin DOMAIN y.wrote => rows[k] = NULL
    <2>1. p = PendingWrite(now, s.sum) /\ s.sum = LedgerNet(ledger \cup s.own, k)
      BY <1>3, <1>13
    <2>2. CASE LeavesRowAlone(p, now)
      <3>1. now = NULL /\ s.sum = 0 /\ RowOf(y, rows, k) = now
        BY <1>5, <1>9, <1>11, <2>1, <2>2 DEF RowOf
      <3> QED
        BY <1>9, <1>11, <2>1, <2>2, <3>1 DEF Quantity, RowOf
    <2>3. CASE ~LeavesRowAlone(p, now)
      <3>1. Quantity(v) = s.sum /\ y.wrote = kept
        BY <1>5, <1>9, <1>11, <2>1, <2>3
      <3> QED
        BY <1>7, <2>1, <3>1 DEF RowOf
    <2> QED
      BY <2>2, <2>3
  <1>14. DOMAIN y.wrote \subseteq DOMAIN s.wrote \cup {k}
    BY <1>10, <1>11
  <1>15. Kept(y, e, ledger, rows, m, suspect, overdrawn)
    BY <1>2, <1>11, <1>12, <1>13, <1>14, <1>20, FlushedKept
  <1>16. /\ y.request \in Requests /\ y.n \in 1..Len(y.request.commands)
         /\ \A i \in 1..y.n : y.request.commands[i].key # NULL =>
               \E t \in ledger \cup y.own : t.key = y.request.commands[i].key
    BY <1>1, <1>11
  <1>17. ASSUME Len(x.sides) > 1
         PROVE  SessionOK([ [ x EXCEPT !.sides = Tail(x.sides) ] EXCEPT !.pc = "sumIn" ],
                          e, ledger, rows, m, suspect, overdrawn)
    <2> DEFINE z == [ y EXCEPT !.pc = "sumIn" ]
    <2>1. z \in Session /\ z.own = y.own /\ z.wrote = y.wrote /\ z.sides = y.sides
      BY <1>11 DEF Session, PC
    <2>2. z.locked = y.locked /\ z.request = y.request /\ z.n = y.n /\ z.pc = "sumIn"
      BY <1>11 DEF Session
    <2> HIDE DEF z
    <2>3. m <= m
      BY <1>2
    <2>4. Kept(z, e, ledger, rows, m, suspect, overdrawn)
      BY <1>2, <1>15, <2>1, <2>2, <2>3, StillKept
    <2>5. Done(z, ledger) /\ Summed(z, e, ledger, rows)
      BY <1>16, <2>1, <2>2 DEF Done, Summed
    <2>6. z.sides # << >>
      BY <1>1, <1>9, <1>11, <1>17, <2>1
    <2>7. Position(z, e, ledger, rows)
      BY <1>16, <2>1, <2>2, <2>5, <2>6 DEF Position, Recomputing
    <2>8. SessionOK(z, e, ledger, rows, m, suspect, overdrawn)
      BY <2>4, <2>7 DEF SessionOK
    <2> QED
      BY <1>9, <1>20, <2>8 DEF z, y
  <1>18. ASSUME ~(Len(x.sides) > 1)
         PROVE  SessionOK(Returned([ x EXCEPT !.sides = << >> ]), e, ledger, rows, m, suspect, overdrawn)
    <2>1. T = << >>
      BY <1>1, <1>9, <1>18
    <2>2. SessionOK(Returned(y), e, ledger, rows, m, suspect, overdrawn)
      BY <1>2, <1>11, <1>15, <1>16, <2>1, ReturnedOK
    <2> QED
      BY <2>1, <2>2 DEF y
  <1> QED
    BY <1>2, <1>6, <1>9, <1>10, <1>17, <1>18, <1>20 DEF x

(* The answer goes out before the commit. *)
LEMMA RespondOK ==
    ASSUME NEW s, NEW e, NEW L, NEW R, NEW n \in Nat, NEW S, NEW O,
           SessionOK(s, e, L, R, n, S, O), s.pc = "respond"
    PROVE  SessionOK([ s EXCEPT !.pc = "commit" ], e, L, R, n, S, O)
  <1> DEFINE z == [ s EXCEPT !.pc = "commit" ]
  <1>1. /\ Kept(s, e, L, R, n, S, O) /\ s \in Session /\ s.request \in Requests
        /\ s.n \in 1..Len(s.request.commands) /\ s.sides = << >> /\ Done(s, L)
        /\ s.n = Len(s.request.commands)
    BY DEF SessionOK, Position, Recomputing, Kept
  <1>2. z \in Session /\ z.own = s.own /\ z.wrote = s.wrote /\ z.sides = s.sides
    BY <1>1 DEF Session, PC
  <1>3. z.locked = s.locked /\ z.request = s.request /\ z.n = s.n /\ z.pc = "commit"
    BY <1>1 DEF Session
  <1> HIDE DEF z
  <1>4. Kept(z, e, L, R, n, S, O)
    BY <1>1, <1>2, <1>3, StillKept
  <1>5. Done(z, L)
    BY <1>1, <1>2, <1>3 DEF Done, Through
  <1>6. Position(z, e, L, R)
    BY <1>1, <1>2, <1>3, <1>5 DEF Position, Recomputing
  <1>7. SessionOK(z, e, L, R, n, S, O)
    BY <1>4, <1>6 DEF SessionOK
  <1> QED
    BY <1>7 DEF z

----------------------------------------------------------------------------
(* The commit.                                                              *)

(* What OncePerRequest says of a ledger. *)
Once(L) ==
    /\ \A t, u \in L : t.key = u.key /\ t.key # NULL => t = u
    /\ \A r \in Requests : KeysOf(r) \cap { t.key : t \in L } \in { {}, KeysOf(r) }

(* A session that commits has nothing left to recompute, and all its keys. *)
LEMMA AtCommit ==
    ASSUME NEW z, NEW f, NEW L, NEW R, NEW n, NEW S, NEW O, SessionOK(z, f, L, R, n, S, O),
           z.pc = "commit"
    PROVE  /\ Kept(z, f, L, R, n, S, O) /\ z \in Session /\ f \in Readings
           /\ z.sides = << >> /\ Pending(z) = {}
           /\ TouchedBy(z) \subseteq BalanceKey /\ DOMAIN z.wrote \subseteq TouchedBy(z)
           /\ z.request \in Requests
           /\ \A key \in KeysOf(z.request) : \E t \in L \cup z.own : t.key = key
  <1>1. /\ Kept(z, f, L, R, n, S, O) /\ z \in Session /\ f \in Readings
        /\ z.sides = << >> /\ z.request \in Requests /\ Done(z, L)
        /\ z.n = Len(z.request.commands)
    BY DEF SessionOK, Position, Recomputing, Kept
  <1>2. Pending(z) = {}
    BY <1>1 DEF Pending, Elements
  <1>3. TouchedBy(z) \subseteq BalanceKey /\ DOMAIN z.wrote \subseteq TouchedBy(z)
    BY <1>1 DEF TouchedBy, TouchedKeys, Kept, Rows
  <1>4. z.n \in Nat /\ DOMAIN z.request.commands = 1..z.n
    BY <1>1, RequestFacts
  <1>5. \A i \in 1..z.n : Through(z, i)
    BY <1>4 DEF Through
  <1>6. \A key \in KeysOf(z.request) : \E t \in L \cup z.own : t.key = key
    BY <1>1, <1>4, <1>5 DEF KeysOf, Done
  <1> QED
    BY <1>1, <1>2, <1>3, <1>6

(* The commit of a whole request leaves every request written once or not at all. *)
LEMMA CommitOnce ==
    ASSUME NEW z, NEW f, NEW L, NEW R, NEW n, NEW S, NEW O, SessionOK(z, f, L, R, n, S, O),
           z.pc = "commit", Once(L)
    PROVE  Once(L \cup z.own)
  <1>1. /\ Keyed(z, L) /\ z.request \in Requests
        /\ \A key \in KeysOf(z.request) : \E t \in L \cup z.own : t.key = key
    BY AtCommit DEF Kept
  <1>2. \A t, u \in L \cup z.own : t.key = u.key /\ t.key # NULL => t = u
    BY <1>1 DEF Once, Keyed
  <1>3. ASSUME NEW r \in Requests
        PROVE  KeysOf(r) \cap { t.key : t \in L \cup z.own } \in { {}, KeysOf(r) }
    <2>1. CASE r = z.request
      BY <1>1, <2>1
    <2>2. CASE r # z.request
      <3>1. KeysOf(r) \cap KeysOf(z.request) = {}
        BY <1>1, <2>2, LedgerTransactionsConstants
      <3>2. NULL \notin KeysOf(r)
        BY DEF KeysOf
      <3>3. KeysOf(r) \cap { t.key : t \in L \cup z.own } = KeysOf(r) \cap { t.key : t \in L }
        BY <1>1, <3>1, <3>2 DEF Keyed
      <3> QED
        BY <3>3 DEF Once
    <2> QED
      BY <2>1, <2>2
  <1> QED
    BY <1>2, <1>3 DEF Once

(* What is committed is exact where the session read it undisturbed, and not *)
(* negative where its checks were good.                                      *)
LEMMA CommitStore ==
    ASSUME NEW z, NEW f, NEW L, NEW R, NEW n, NEW S, NEW O, SessionOK(z, f, L, R, n, S, O),
           Store(L, R, n, S, O), z.pc = "commit"
    PROVE  Store(L \cup z.own, [ k \in BalanceKey |-> RowOf(z, R, k) ], n,
                 (S \ TouchedBy(z)) \cup f.staleSums, O \cup f.staleChecks \cup f.misled)
  <1> DEFINE L2 == L \cup z.own
             R2 == [ k \in BalanceKey |-> RowOf(z, R, k) ]
             S2 == (S \ TouchedBy(z)) \cup f.staleSums
             O2 == O \cup f.staleChecks \cup f.misled
  <1>1. /\ Kept(z, f, L, R, n, S, O) /\ z \in Session /\ f \in Readings
        /\ Pending(z) = {} /\ TouchedBy(z) \subseteq BalanceKey /\ DOMAIN z.wrote \subseteq TouchedBy(z)
    BY AtCommit
  <1>2. /\ L2 \subseteq StockTransaction /\ IsFiniteSet(L2) /\ n \in Nat /\ \A t \in L2 : t.id < n
    <2>1. IsFiniteSet(z.own) /\ z.own \subseteq StockTransaction /\ \A t \in z.own : t.id < n
      BY <1>1 DEF Kept, Rows, Session
    <2>2. IsFiniteSet(L2)
      BY <2>1, FS_Union DEF Store
    <2> QED
      BY <2>1, <2>2 DEF Store
  <1>3. R2 \in [ BalanceKey -> Nullable(Row) ]
    <2>1. z.wrote \in Writes
      BY <1>1 DEF Session
    <2>2. \A k \in BalanceKey : RowOf(z, R, k) \in Nullable(Row)
      BY <2>1, WriteType DEF RowOf, Store, Nullable
    <2> QED
      BY <2>2
  <1>4. ASSUME NEW k \in BalanceKey, ~Materialised(k) PROVE R2[k] = NULL
    <2>1. k \notin DOMAIN z.wrote
      BY <1>1, <1>4 DEF Kept, Rows
    <2> QED
      BY <1>4, <2>1 DEF RowOf, Store
  <1>5. S2 \subseteq BalanceKey
    BY <1>1 DEF Store, Readings
  <1>6. ASSUME NEW k \in BalanceKey \ S2
        PROVE  Quantity(R2[k]) = IF Materialised(k) THEN LedgerNet(L2, k) ELSE 0
    <2>1. CASE ~Materialised(k)
      BY <1>4, <2>1 DEF Quantity
    <2>2. CASE Materialised(k) /\ k \in TouchedBy(z)
      BY <1>1, <1>6, <2>2 DEF Kept, Recomputed
    <2>3. CASE Materialised(k) /\ k \notin TouchedBy(z)
      <3>1. k \notin S /\ k \notin DOMAIN z.wrote /\ \A t \in z.own : k \notin TouchedKeys(t)
        BY <1>1, <1>6, <2>3 DEF TouchedBy
      <3>2. LedgerNet(L2, k) = LedgerNet(L, k)
        BY <3>1, Untouched
      <3> QED
        BY <2>3, <3>1, <3>2 DEF RowOf, Store
    <2> QED
      BY <2>1, <2>2, <2>3
  <1>7. ASSUME NEW k \in BalanceKey, LedgerNet(L2, k) < 0 PROVE k \in O2
    <2>1. CASE k \in f.checks
      BY <1>1, <1>7, <2>1 DEF Kept, Drawn
    <2>2. CASE k \notin f.checks
      BY <1>1, <1>7, <2>2, StillDrawn
    <2> QED
      BY <2>1, <2>2
  <1> HIDE DEF L2, R2, S2, O2
  <1>8. Store(L2, R2, n, S2, O2)
    BY <1>2, <1>3, <1>4, <1>5, <1>6, <1>7 DEF Store
  <1> QED
    BY <1>8 DEF L2, R2, S2, O2

(* What another session commits changes neither what this one holds nor what *)
(* it computed, but where that becomes stale.                                *)
LEMMA CommitOther ==
    ASSUME NEW z, NEW f, NEW L, NEW R, NEW n, NEW S, NEW O, SessionOK(z, f, L, R, n, S, O),
           Store(L, R, n, S, O), z.pc = "commit",
           NEW s, NEW e, SessionOK(s, e, L, R, n, S, O), Apart(s, z), Apart(z, s)
    PROVE  SessionOK(s, [ e EXCEPT !.staleSums = @ \cup (TouchedBy(z) \cap e.sums),
                                   !.staleChecks = @ \cup (TouchedBy(z) \cap e.checks) ],
                     L \cup z.own, [ k \in BalanceKey |-> RowOf(z, R, k) ], n,
                     (S \ TouchedBy(z)) \cup f.staleSums, O \cup f.staleChecks \cup f.misled)
  <1> DEFINE T == TouchedBy(z)
             L2 == L \cup z.own
             R2 == [ k \in BalanceKey |-> RowOf(z, R, k) ]
             S2 == (S \ T) \cup f.staleSums
             O2 == O \cup f.staleChecks \cup f.misled
             g == [ e EXCEPT !.staleSums = @ \cup (T \cap e.sums), !.staleChecks = @ \cup (T \cap e.checks) ]
  <1>1. /\ Kept(z, f, L, R, n, S, O) /\ f \in Readings /\ Pending(z) = {}
        /\ T \subseteq BalanceKey /\ DOMAIN z.wrote \subseteq T
    BY AtCommit
  <1>2. Kept(s, e, L, R, n, S, O) /\ Position(s, e, L, R) /\ s \in Session /\ e \in Readings
    BY DEF SessionOK, Kept
  <1>3. /\ g \in Readings /\ g.sums = e.sums /\ g.checks = e.checks /\ g.misled = e.misled
        /\ g.staleSums = e.staleSums \cup (T \cap e.sums)
        /\ g.staleChecks = e.staleChecks \cup (T \cap e.checks)
    BY <1>1, <1>2 DEF Readings
  <1>4. /\ L2 \cup s.own = (L \cup s.own) \cup z.own
        /\ \A k \in BalanceKey \ T : R2[k] = R[k] /\ RowOf(s, R2, k) = RowOf(s, R, k)
    BY <1>1 DEF RowOf
  <1>5. ASSUME NEW k \in BalanceKey \ T
        PROVE  /\ LedgerNet(L2 \cup s.own, k) = LedgerNet(L \cup s.own, k)
               /\ Incoming(L2 \cup s.own, k) = Incoming(L \cup s.own, k)
    <2>1. \A t \in z.own : k \notin TouchedKeys(t)
      BY <1>5 DEF TouchedBy
    <2>2. /\ LedgerNet((L \cup s.own) \cup z.own, k) = LedgerNet(L \cup s.own, k)
          /\ Incoming((L \cup s.own) \cup z.own, k) = Incoming(L \cup s.own, k)
      BY <1>5, <2>1, Untouched
    <2> HIDE DEF L2
    <2> QED
      BY <1>4, <2>2
  <1>6. TouchedBy(s) \subseteq BalanceKey /\ (s.sides # << >> => Head(s.sides) \in BalanceKey)
    <2>1. s.sides \in Seq(BalanceKey)
      BY <1>2 DEF Session
    <2> QED
      BY <2>1, FirstAndRest DEF TouchedBy, TouchedKeys
  <1>7. ASSUME NEW k \in s.locked PROVE /\ R2[k] # NULL /\ (k \in T => k \in S2) /\ k \in BalanceKey
    <2>1. R[k] # NULL /\ k \in BalanceKey /\ k \notin DOMAIN z.wrote
      BY <1>2 DEF Kept, Holds, Session, Apart
    <2>2. R2[k] # NULL
      BY <2>1 DEF RowOf
    <2>3. ASSUME k \in T, k \notin f.staleSums PROVE FALSE
      BY <1>1, <2>1, <2>3 DEF Kept, Recomputed, Store
    <2> QED
      BY <2>1, <2>2, <2>3
  <1> HIDE DEF g, T, L2, R2, S2, O2
  <1>8. Rows(s, g, n)
    BY <1>2, <1>3 DEF Kept, Rows
  <1>9. Recomputed(s, g, L2, R2)
    <2> SUFFICES ASSUME NEW k \in TouchedBy(s), Materialised(k), k \notin Pending(s), k \notin g.staleSums
                 PROVE  /\ k \in g.sums
                        /\ Quantity(RowOf(s, R2, k)) = LedgerNet(L2 \cup s.own, k)
                        /\ k \notin DOMAIN s.wrote => R2[k] = NULL
      BY DEF Recomputed
    <2>1. /\ k \in e.sums /\ Quantity(RowOf(s, R, k)) = LedgerNet(L \cup s.own, k)
          /\ k \notin DOMAIN s.wrote => R[k] = NULL
      BY <1>2, <1>3 DEF Kept, Recomputed
    <2>2. k \in BalanceKey \ T
      BY <1>3, <1>6, <2>1
    <2> QED
      BY <1>3, <1>4, <1>5, <2>1, <2>2
  <1>10. Drawn(s, g, L2, O2)
    <2>1. \A t \in s.own : FromKey(t) \in BalanceKey => FromKey(t) \in g.checks
      BY <1>2, <1>3 DEF Kept, Drawn
    <2>2. ASSUME NEW k \in g.checks, k \notin g.staleChecks \cup g.misled,
                 LedgerNet(L2 \cup s.own, k) < 0
          PROVE  k \in O2
      <3>1. k \in BalanceKey \ T /\ k \in e.checks \ (e.staleChecks \cup e.misled)
        BY <1>2, <1>3, <2>2 DEF Readings
      <3>2. LedgerNet(L \cup s.own, k) < 0
        BY <1>5, <2>2, <3>1
      <3>3. k \in O
        BY <1>2, <3>1, <3>2 DEF Kept, Drawn
      <3> QED
        BY <3>3 DEF O2
    <2> QED
      BY <2>1, <2>2 DEF Drawn
  <1>11. Holds(s, g, R2, S2)
    <2>1. ASSUME NEW k \in s.locked, k \in g.staleSums \cup g.staleChecks PROVE k \in S2
      <3>1. CASE k \in T
        BY <1>7, <3>1
      <3>2. CASE k \notin T
        <4>1. k \in e.staleSums \cup e.staleChecks
          BY <1>3, <2>1, <3>2
        <4>2. k \in S
          BY <1>2, <4>1 DEF Kept, Holds
        <4> QED
          BY <3>2, <4>2 DEF S2
      <3> QED
        BY <3>1, <3>2
    <2> QED
      BY <1>7, <2>1 DEF Holds
  <1>12. Keyed(s, L2)
    BY <1>2 DEF Kept, Keyed, Apart, L2
  <1>13. s.pc \in { "idle", "lock", "done" } => Clear(s, g)
    BY <1>2, <1>3 DEF Position, Clear
  <1>14. ASSUME s.pc \in Recomputing PROVE Summed(s, g, L2, R2)
    <2> DEFINE k == Head(s.sides)
    <2>1. Summed(s, e, L, R) /\ k \in BalanceKey
      BY <1>2, <1>6, <1>14 DEF Position
    <2>2. s.pc # "sumIn" => k \in e.sums
      BY <2>1 DEF Summed
    <2>3. (s.pc # "sumIn" /\ k \notin g.staleSums) => k \notin e.staleSums /\ k \in BalanceKey \ T
      BY <1>3, <2>1, <2>2
    <2>4. k \in BalanceKey \ T =>
            /\ LedgerNet(L2 \cup s.own, k) = LedgerNet(L \cup s.own, k)
            /\ Incoming(L2 \cup s.own, k) = Incoming(L \cup s.own, k)
            /\ RowOf(s, R2, k) = RowOf(s, R, k)
      BY <1>4, <1>5
    <2> HIDE DEF k
    <2>5. k = Head(s.sides)
      BY DEF k
    <2> QED
      BY <1>3, <2>1, <2>2, <2>3, <2>4, <2>5 DEF Summed
  <1>15. ASSUME s.pc = "insert" PROVE Checked(s, g, L2)
    <2> DEFINE c == s.request.commands[s.n]
               k == SourceKey(c)
    <2>1. Checked(s, e, L)
      BY <1>2, <1>15 DEF Position
    <2>2. ASSUME k \in BalanceKey, ~MovesNothing(c), k \notin g.staleChecks \cup g.misled
          PROVE  LedgerNet(L2 \cup s.own, k) >= c.quantity
      <3>1. k \in e.checks /\ k \notin e.staleChecks \cup e.misled
        BY <1>3, <2>1, <2>2 DEF Checked
      <3>2. k \in BalanceKey \ T
        BY <1>3, <2>2, <3>1
      <3>3. LedgerNet(L \cup s.own, k) >= c.quantity
        BY <2>1, <2>2, <3>1 DEF Checked
      <3> QED
        BY <1>5, <3>2, <3>3
    <2> QED
      BY <1>3, <2>1, <2>2 DEF Checked
  <1>16. s.pc \notin { "idle", "done" } => Done(s, L2)
    BY <1>2 DEF Position, Done, L2
  <1>17. Position(s, g, L2, R2)
    BY <1>2, <1>13, <1>14, <1>15, <1>16 DEF Position
  <1>18. SessionOK(s, g, L2, R2, n, S2, O2)
    BY <1>2, <1>3, <1>8, <1>9, <1>10, <1>11, <1>12, <1>17 DEF SessionOK, Kept
  <1> QED
    BY <1>18 DEF g, T, L2, R2, S2, O2

----------------------------------------------------------------------------
(* The steps of the system.                                                 *)

(* What a step of one session leaves to the others. *)
LEMMA ApartSame ==
    ASSUME NEW s, NEW y, NEW z, Apart(s, y), Apart(y, s), z.own \subseteq s.own,
           z.locked \subseteq s.locked, DOMAIN z.wrote \subseteq DOMAIN s.wrote
    PROVE  Apart(z, y) /\ Apart(y, z)
  BY DEF Apart

(* Where a session is at says nothing of what it holds. *)
LEMMA GotoFields ==
    ASSUME NEW s \in Session, NEW pc \in PC
    PROVE  LET z == [ s EXCEPT !.pc = pc ] IN
           /\ z \in Session /\ z.pc = pc /\ z.own = s.own
           /\ z.locked = s.locked /\ z.wrote = s.wrote
  BY DEF Session

(* A return neither takes nor gives up anything. *)
LEMMA ReturnedFields ==
    ASSUME NEW s \in Session
    PROVE  LET z == Returned(s) IN
           /\ z.pc \in { "lookup", "commit", "respond" } /\ z.own = s.own
           /\ z.locked = s.locked /\ z.wrote = s.wrote
  <1>1. CASE s.n < Len(s.request.commands)
    <2> DEFINE y == [ s EXCEPT !.n = s.n + 1 ]
    <2>1. y \in Session /\ y.own = s.own /\ y.locked = s.locked /\ y.wrote = s.wrote
      BY DEF Session
    <2>2. Returned(s) = [ y EXCEPT !.pc = "lookup" ]
      BY <1>1 DEF Returned
    <2> HIDE DEF y
    <2> QED
      BY <2>1, <2>2, GotoFields DEF PC
  <1>2. CASE ~(s.n < Len(s.request.commands))
    <2>1. PICK pc \in { "commit", "respond" } : Returned(s) = [ s EXCEPT !.pc = pc ]
      BY <1>2 DEF Returned
    <2> QED
      BY <2>1, GotoFields DEF PC
  <1> QED
    BY <1>1, <1>2

(* The step of one session that commits nothing. *)
LEMMA LocalStep ==
    ASSUME TransactionsInv, NEW w \in Workers, NEW z, NEW f,
           session' = [ session EXCEPT ![w] = z ],
           DOMAIN seen' = Workers, seen'[w] = f, \A v \in Workers \ {w} : seen'[v] = seen[v],
           ledger' = ledger, rows' = rows, suspect' = suspect, overdrawn' = overdrawn,
           nextId' \in Nat, nextId <= nextId', Answered',
           SessionOK(z, f, ledger, rows, nextId', suspect, overdrawn),
           \A v \in Workers \ {w} : Apart(z, session[v]) /\ Apart(session[v], z)
    PROVE  TransactionsInv'
  <1>1. /\ DOMAIN session' = Workers /\ session'[w] = z
        /\ \A v \in Workers \ {w} : session'[v] = session[v]
    BY DEF TransactionsInv, SessionsOK
  <1>2. \A t \in ledger : t.id \in Nat /\ t.id < nextId
    BY DEF TransactionsInv, Committed, Store, StockTransaction
  <1>3. nextId \in Nat
    BY DEF TransactionsInv, Committed, Store
  <1>4. \A t \in ledger : t.id < nextId'
    BY <1>2, <1>3
  <1>5. Store(ledger, rows, nextId', suspect, overdrawn)
    BY <1>4 DEF TransactionsInv, Committed, Store
  <1>6. Committed'
    BY <1>5 DEF TransactionsInv, Committed, OncePerRequest
  <1>7. ASSUME NEW v \in Workers
        PROVE  SessionOK(session'[v], seen'[v], ledger, rows, nextId', suspect, overdrawn)
    <2>1. CASE v = w
      BY <1>1, <2>1
    <2>2. CASE v # w
      <3>1. SessionOK(session[v], seen[v], ledger, rows, nextId, suspect, overdrawn)
        BY DEF TransactionsInv, SessionsOK
      <3>2. SessionOK(session[v], seen[v], ledger, rows, nextId', suspect, overdrawn)
        BY <1>3, <3>1, IdsGrow
      <3> QED
        BY <1>1, <2>2, <3>2
    <2> QED
      BY <2>1, <2>2
  <1>8. ASSUME NEW v \in Workers, NEW u \in Workers, v # u PROVE Apart(session'[v], session'[u])
    BY <1>1, <1>8 DEF TransactionsInv, SessionsOK
  <1>9. SessionsOK'
    BY <1>1, <1>7, <1>8 DEF SessionsOK
  <1> QED
    BY <1>6, <1>9 DEF TransactionsInv

(* What the invariant says of the session a step is about. *)
LEMMA OfSession ==
    ASSUME TransactionsInv, NEW w \in Workers
    PROVE  /\ SessionOK(session[w], seen[w], ledger, rows, nextId, suspect, overdrawn)
           /\ Store(ledger, rows, nextId, suspect, overdrawn)
           /\ session[w] \in Session /\ seen[w] \in Readings /\ nextId \in Nat /\ nextId <= nextId
           /\ \A v \in Workers \ {w} : Apart(session[w], session[v]) /\ Apart(session[v], session[w])
           /\ DOMAIN session = Workers /\ DOMAIN seen = Workers
           /\ answer \in [ Workers -> Told ]
  <1>1. SessionOK(session[w], seen[w], ledger, rows, nextId, suspect, overdrawn)
    BY DEF TransactionsInv, SessionsOK
  <1>2. Store(ledger, rows, nextId, suspect, overdrawn)
    BY DEF TransactionsInv, Committed
  <1>3. nextId \in Nat
    BY <1>2 DEF Store
  <1> QED
    BY <1>1, <1>2, <1>3 DEF TransactionsInv, SessionsOK, Answered, SessionOK, Kept

(* A session that is told nothing new is told enough while it is not done.   *)
LEMMA AnsweredSame ==
    ASSUME TransactionsInv, NEW w \in Workers, NEW z, session' = [ session EXCEPT ![w] = z ],
           answer' = answer, z.pc # "done"
    PROVE  Answered'
  BY DEF TransactionsInv, SessionsOK, Answered

(* A rollback leaves nothing of the session. *)
LEMMA InvRollBack ==
    ASSUME TransactionsInv, NEW w \in Workers, NEW why \in Told \ {"none"}, RollBack(w, why)
    PROVE  TransactionsInv'
  <1> DEFINE z == [ Idle EXCEPT !.pc = "done", !.request = session[w].request ]
  <1>1. /\ session' = [ session EXCEPT ![w] = z ]
        /\ answer' = [ answer EXCEPT ![w] = why ] /\ seen' = [ seen EXCEPT ![w] = NothingSeen ]
        /\ ledger' = ledger /\ rows' = rows /\ nextId' = nextId /\ suspect' = suspect
        /\ overdrawn' = overdrawn
    BY DEF RollBack, Ended
  <1>2. /\ session[w] \in Session /\ nextId \in Nat /\ nextId <= nextId /\ DOMAIN seen = Workers
        /\ DOMAIN session = Workers /\ answer \in [ Workers -> Told ]
        /\ \A v \in Workers \ {w} : Apart(session[w], session[v]) /\ Apart(session[v], session[w])
    BY OfSession
  <1>3. session[w].request \in Nullable(Requests)
    BY <1>2 DEF Session
  <1>4. SessionOK(z, NothingSeen, ledger, rows, nextId, suspect, overdrawn)
    BY <1>3, EndedOK
  <1>5. z.pc = "done"
    BY IdleFacts DEF Session
  <1> HIDE DEF z
  <1>6. z.own = {} /\ z.locked = {} /\ DOMAIN z.wrote = {}
    BY <1>4, <1>5 DEF SessionOK, Position, Clear
  <1>7. \A v \in Workers \ {w} : Apart(z, session[v]) /\ Apart(session[v], z)
    BY <1>6 DEF Apart
  <1>8. Answered'
    BY <1>1, <1>2 DEF TransactionsInv, Answered
  <1>9. /\ DOMAIN seen' = Workers /\ seen'[w] = NothingSeen
        /\ \A v \in Workers \ {w} : seen'[v] = seen[v]
    BY <1>1, <1>2
  <1> QED
    BY <1>1, <1>2, <1>4, <1>7, <1>8, <1>9, LocalStep

(* The step of one session that nobody is told of and that makes nothing stale. *)
LEMMA QuietStep ==
    ASSUME TransactionsInv, NEW w \in Workers, NEW z,
           session' = [ session EXCEPT ![w] = z ], UNCHANGED << ledger, rows, answer, aux >>,
           nextId' \in Nat, nextId <= nextId', z.pc # "done",
           SessionOK(z, seen[w], ledger, rows, nextId', suspect, overdrawn),
           \A v \in Workers \ {w} : Apart(z, session[v]) /\ Apart(session[v], z)
    PROVE  TransactionsInv'
  <1>1. /\ ledger' = ledger /\ rows' = rows /\ answer' = answer /\ seen' = seen
        /\ suspect' = suspect /\ overdrawn' = overdrawn
    BY DEF aux
  <1>2. Answered'
    BY <1>1, AnsweredSame
  <1>3. DOMAIN seen' = Workers /\ seen'[w] = seen[w] /\ \A v \in Workers \ {w} : seen'[v] = seen[v]
    BY <1>1, OfSession
  <1> QED
    BY <1>1, <1>2, <1>3, LocalStep

(* A session that holds no more than before holds nothing of the others. *)
LEMMA ApartOthers ==
    ASSUME TransactionsInv, NEW w \in Workers, NEW z, z.own \subseteq session[w].own,
           z.locked \subseteq session[w].locked, DOMAIN z.wrote \subseteq DOMAIN session[w].wrote
    PROVE  \A v \in Workers \ {w} : Apart(z, session[v]) /\ Apart(session[v], z)
  <1> SUFFICES ASSUME NEW v \in Workers \ {w} PROVE Apart(z, session[v]) /\ Apart(session[v], z)
    OBVIOUS
  <1>1. Apart(session[w], session[v]) /\ Apart(session[v], session[w])
    BY OfSession
  <1> QED
    BY <1>1, ApartSame

(* The return of record() is a step to the returned session. *)
LEMMA ReturnStep ==
    ASSUME NEW w, NEW s, Return(w, s)
    PROVE  session' = [ session EXCEPT ![w] = Returned(s) ]
  <1>1. CASE s.n < Len(s.request.commands)
    BY <1>1 DEF Return, Goto, Returned
  <1>2. CASE ~(s.n < Len(s.request.commands))
    BY <1>2 DEF Return, Goto, Returned
  <1> QED
    BY <1>1, <1>2

(* Who holds neither row nor key another waits for. *)
LEMMA NotBlocked ==
    ASSUME NEW w \in Workers, Blockers(w) = {}, NEW v \in Workers \ {w}
    PROVE  /\ session[w].pc = "lock" =>
                session[w].request.lock \cap (session[v].locked \cup DOMAIN session[v].wrote) = {}
           /\ (session[w].pc = "insert" /\ Current(w).key # NULL) =>
                \A t \in session[v].own : t.key # Current(w).key
           /\ (session[w].pc = "flush" /\ session[w].write.kind # "nothing") =>
                Head(session[w].sides) \notin session[v].locked \cup DOMAIN session[v].wrote
  <1>1. ASSUME session[w].pc = "lock"
        PROVE  session[w].request.lock \cap (session[v].locked \cup DOMAIN session[v].wrote) = {}
    <2>1. UNION { RowHolders(w, k) : k \in session[w].request.lock } = {}
      BY <1>1 DEF Blockers
    <2>2. \A k \in session[w].request.lock : v \notin RowHolders(w, k)
      BY <2>1
    <2> QED
      BY <2>2 DEF RowHolders
  <1>2. ASSUME session[w].pc = "insert", Current(w).key # NULL
        PROVE  \A t \in session[v].own : t.key # Current(w).key
    <2>1. KeyHolders(w, Current(w).key) = {}
      BY <1>2 DEF Blockers
    <2> QED
      BY <2>1 DEF KeyHolders
  <1>3. ASSUME session[w].pc = "flush", session[w].write.kind # "nothing"
        PROVE  Head(session[w].sides) \notin session[v].locked \cup DOMAIN session[v].wrote
    <2>1. RowHolders(w, Head(session[w].sides)) = {}
      BY <1>3 DEF Blockers
    <2> QED
      BY <2>1 DEF RowHolders
  <1> QED
    BY <1>1, <1>2, <1>3

(* A request begins. *)
LEMMA InvBegin ==
    ASSUME TransactionsInv, NEW w \in Workers, Begin(w)
    PROVE  TransactionsInv'
  <1>1. PICK r \in Requests :
          Goto(w, [ Idle EXCEPT !.request = r ], IF r.lock = {} THEN "lookup" ELSE "lock")
    BY DEF Begin
  <1>2. UNCHANGED << ledger, rows, answer, aux >> /\ nextId' = nextId /\ session[w].pc = "idle"
    BY DEF Begin, At
  <1>3. PICK pc \in { "lock", "lookup" } :
          session' = [ session EXCEPT ![w] = [ [ Idle EXCEPT !.request = r ] EXCEPT !.pc = pc ] ]
    BY <1>1 DEF Goto
  <1>4. /\ SessionOK(session[w], seen[w], ledger, rows, nextId, suspect, overdrawn)
        /\ seen[w] \in Readings /\ nextId \in Nat /\ nextId <= nextId
    BY OfSession
  <1>5. Clear(session[w], seen[w])
    BY <1>2, <1>4 DEF SessionOK, Position
  <1>6. Clear(Idle, seen[w])
    BY <1>5, IdleFacts DEF Clear
  <1> DEFINE y == [ Idle EXCEPT !.request = r ]
             z == [ y EXCEPT !.pc = pc ]
  <1>7. SessionOK(z, seen[w], ledger, rows, nextId, suspect, overdrawn)
    BY <1>4, <1>6, BeginOK
  <1>8. y \in Session /\ y.own = Idle.own /\ y.wrote = Idle.wrote /\ y.locked = Idle.locked
    BY IdleFacts DEF Session, Nullable
  <1>9. session' = [ session EXCEPT ![w] = z ]
    BY <1>3
  <1> HIDE DEF y
  <1>10. z.pc = pc /\ z.own = y.own /\ z.wrote = y.wrote /\ z.locked = y.locked
    BY <1>8, GotoFields DEF PC
  <1> HIDE DEF z
  <1>11. z.own = {} /\ z.locked = {} /\ DOMAIN z.wrote = {}
    BY <1>8, <1>10, IdleFacts DEF Clear
  <1>12. \A v \in Workers \ {w} : Apart(z, session[v]) /\ Apart(session[v], z)
    BY <1>11 DEF Apart
  <1> QED
    BY <1>2, <1>4, <1>7, <1>9, <1>10, <1>12, QuietStep

(* The rows are locked. *)
LEMMA InvLock ==
    ASSUME TransactionsInv, NEW w \in Workers, Lock(w)
    PROVE  TransactionsInv'
  <1> DEFINE X == { k \in session[w].request.lock : rows[k] # NULL }
             y == [ session[w] EXCEPT !.locked = X ]
             z == [ y EXCEPT !.pc = "lookup" ]
  <1>1. /\ session' = [ session EXCEPT ![w] = z ] /\ session[w].pc = "lock" /\ Blockers(w) = {}
        /\ UNCHANGED << ledger, rows, answer, aux >> /\ nextId' = nextId
    BY DEF Lock, At, Goto
  <1>2. /\ SessionOK(session[w], seen[w], ledger, rows, nextId, suspect, overdrawn)
        /\ session[w] \in Session /\ nextId \in Nat /\ nextId <= nextId
    BY OfSession
  <1>3. session[w].request \in Requests /\ Clear(session[w], seen[w])
    BY <1>1, <1>2 DEF SessionOK, Position
  <1>4. X \in SUBSET BalanceKey /\ \A k \in X : rows[k] # NULL
    BY <1>3, RequestFacts
  <1>5. SessionOK(z, seen[w], ledger, rows, nextId, suspect, overdrawn)
    <2> HIDE DEF X
    <2> QED
      BY <1>1, <1>2, <1>4, LockOK
  <1>6. y \in Session /\ y.own = session[w].own /\ y.wrote = session[w].wrote /\ y.locked = X
    BY <1>2, <1>4 DEF Session
  <1> HIDE DEF y
  <1>7. z.pc = "lookup" /\ z.own = y.own /\ z.wrote = y.wrote /\ z.locked = y.locked
    BY <1>6, GotoFields DEF PC
  <1>8. ASSUME NEW v \in Workers \ {w} PROVE Apart(z, session[v]) /\ Apart(session[v], z)
    <2>1. X \cap (session[v].locked \cup DOMAIN session[v].wrote) = {}
      BY <1>1, NotBlocked
    <2>2. z.own = {} /\ DOMAIN z.wrote = {} /\ z.locked = X
      BY <1>3, <1>6, <1>7 DEF Clear
    <2> HIDE DEF z, X
    <2> QED
      BY <2>1, <2>2 DEF Apart
  <1> HIDE DEF z
  <1> QED
    BY <1>1, <1>2, <1>5, <1>7, <1>8, QuietStep

(* The key is looked up. *)
LEMMA InvLookup ==
    ASSUME TransactionsInv, NEW w \in Workers, Lookup(w)
    PROVE  TransactionsInv'
  <1> DEFINE s == session[w]
  <1>1. /\ s.pc = "lookup" /\ UNCHANGED << ledger, rows, answer, aux >> /\ nextId' = nextId
    BY DEF Lookup, At
  <1>2. /\ SessionOK(s, seen[w], ledger, rows, nextId, suspect, overdrawn)
        /\ s \in Session /\ nextId \in Nat /\ nextId <= nextId
    BY OfSession
  <1>3. CASE Current(w).key # NULL /\ \E t \in Visible(w) : t.key = Current(w).key
    <2> DEFINE z == Returned(s)
    <2>1. session' = [ session EXCEPT ![w] = z ]
      BY <1>3, ReturnStep DEF Lookup
    <2>2. SessionOK(z, seen[w], ledger, rows, nextId, suspect, overdrawn)
      BY <1>1, <1>2, <1>3, HitOK DEF Visible, Current
    <2>3. z.pc # "done" /\ z.own = s.own /\ z.locked = s.locked /\ z.wrote = s.wrote
      BY <1>2, ReturnedFields
    <2> HIDE DEF z
    <2>4. \A v \in Workers \ {w} : Apart(z, session[v]) /\ Apart(session[v], z)
      BY <2>3, ApartOthers
    <2> QED
      BY <1>1, <1>2, <2>1, <2>2, <2>3, <2>4, QuietStep
  <1>4. CASE ~(Current(w).key # NULL /\ \E t \in Visible(w) : t.key = Current(w).key)
    <2> DEFINE z == [ s EXCEPT !.pc = "check" ]
    <2>1. session' = [ session EXCEPT ![w] = z ]
      BY <1>4 DEF Lookup, Goto
    <2>2. SessionOK(z, seen[w], ledger, rows, nextId, suspect, overdrawn)
      BY <1>1, <1>2, MissOK
    <2>3. z.pc # "done" /\ z.own = s.own /\ z.locked = s.locked /\ z.wrote = s.wrote
      BY <1>2, GotoFields DEF PC
    <2> HIDE DEF z
    <2>4. \A v \in Workers \ {w} : Apart(z, session[v]) /\ Apart(session[v], z)
      BY <2>3, ApartOthers
    <2> QED
      BY <1>1, <1>2, <2>1, <2>2, <2>3, <2>4, QuietStep
  <1> QED
    BY <1>3, <1>4

(* The command passes its checks, or the request is rejected. *)
LEMMA InvCheck ==
    ASSUME TransactionsInv, NEW w \in Workers, Check(w)
    PROVE  TransactionsInv'
  <1> DEFINE s == session[w]
             c == s.request.commands[s.n]
             k == SourceKey(c)
             z == [ s EXCEPT !.pc = "insert" ]
             f == [ seen[w] EXCEPT !.checks = @ \cup ({k} \cap BalanceKey),
                                   !.misled = @ \cup ({k} \cap (suspect \cup seen[w].staleSums)) ]
  <1>1. CASE ~Acceptable(w)
    <2>1. RollBack(w, "rejected")
      BY <1>1 DEF Check
    <2> QED
      BY <2>1, InvRollBack DEF Told
  <1>2. CASE Acceptable(w)
    <2>1. /\ s.pc = "check" /\ session' = [ session EXCEPT ![w] = z ]
          /\ ledger' = ledger /\ rows' = rows /\ nextId' = nextId /\ answer' = answer
          /\ suspect' = suspect /\ overdrawn' = overdrawn
      BY <1>2 DEF Check, At, Goto
    <2>2. /\ SessionOK(s, seen[w], ledger, rows, nextId, suspect, overdrawn)
          /\ Store(ledger, rows, nextId, suspect, overdrawn)
          /\ s \in Session /\ nextId \in Nat /\ nextId <= nextId /\ DOMAIN seen = Workers
      BY OfSession
    <2>3. DOMAIN seen' = Workers /\ seen'[w] = f /\ \A v \in Workers \ {w} : seen'[v] = seen[v]
      BY <1>2, <2>2 DEF Check, Current
    <2>4. Valid(c) /\ Sufficient(c, IF k \in BalanceKey THEN Quantity(RowOf(s, rows, k)) ELSE 0)
      BY <1>2 DEF Acceptable, Current, VisibleRow, RowOf
    <2>5. SessionOK(z, f, ledger, rows, nextId, suspect, overdrawn)
      BY <2>1, <2>2, <2>4, CheckOK
    <2>6. z.pc # "done" /\ z.own = s.own /\ z.locked = s.locked /\ z.wrote = s.wrote
      BY <2>2, GotoFields DEF PC
    <2> HIDE DEF z, f
    <2>7. \A v \in Workers \ {w} : Apart(z, session[v]) /\ Apart(session[v], z)
      BY <2>6, ApartOthers
    <2>8. Answered'
      BY <2>1, <2>6, AnsweredSame
    <2> QED
      BY <2>1, <2>2, <2>3, <2>5, <2>7, <2>8, LocalStep
  <1> QED
    BY <1>1, <1>2

(* The movement is inserted, or its key is taken. *)
LEMMA InvInsert ==
    ASSUME TransactionsInv, NEW w \in Workers, Insert(w)
    PROVE  TransactionsInv'
  <1> DEFINE s == session[w]
             c == s.request.commands[s.n]
             t == Movement(s, nextId)
             y == Inserted(s, nextId)
             taken == c.key # NULL /\ \E u \in ledger \cup s.own : u.key = c.key
  <1>1. CASE taken
    <2>1. RollBack(w, "conflict")
      BY <1>1 DEF Insert, Current, Visible
    <2> QED
      BY <2>1, InvRollBack DEF Told
  <1>2. CASE ~taken
    <2>1. /\ s.pc = "insert" /\ Blockers(w) = {}
          /\ IF y.sides = << >> THEN Return(w, y) ELSE Goto(w, y, "sumIn")
          /\ nextId' = nextId + 1 /\ UNCHANGED << ledger, rows, answer, aux >>
      BY <1>2 DEF Insert, At, Current, Visible, Movement, Inserted
    <2>2. /\ SessionOK(s, seen[w], ledger, rows, nextId, suspect, overdrawn)
          /\ Store(ledger, rows, nextId, suspect, overdrawn)
          /\ s \in Session /\ nextId \in Nat
      BY OfSession
    <2>3. nextId' \in Nat /\ nextId <= nextId'
      BY <2>1, <2>2
    <2>4. c.key # NULL => \A u \in ledger \cup s.own : u.key # c.key
      BY <1>2
    <2>5. /\ Kept(y, seen[w], ledger, rows, nextId', suspect, overdrawn)
          /\ y.request = s.request /\ y.n = s.n /\ y.own = s.own \cup {t} /\ t.key = c.key
      <3> HIDE DEF taken
      <3> QED
        BY <2>1, <2>2, <2>4, InsertedKept
    <2>6. y \in Session /\ y.locked = s.locked /\ y.wrote = s.wrote
      <3>1. y \in Session
        BY <2>5 DEF Kept
      <3> QED
        BY <2>2, <3>1 DEF Session, Inserted
    <2>7. ASSUME NEW v \in Workers \ {w} PROVE Apart(y, session[v]) /\ Apart(session[v], y)
      <3>1. Apart(s, session[v]) /\ Apart(session[v], s)
        BY OfSession
      <3>2. c.key # NULL => \A u \in session[v].own : u.key # c.key
        BY <2>1, NotBlocked DEF Current
      <3> HIDE DEF y, t, c
      <3> QED
        BY <2>5, <2>6, <3>1, <3>2 DEF Apart
    <2> HIDE DEF y, t, taken
    <2>8. ASSUME NEW z, SessionOK(z, seen[w], ledger, rows, nextId', suspect, overdrawn),
                 session' = [ session EXCEPT ![w] = z ], z.pc # "done",
                 z.own = y.own, z.locked = y.locked, z.wrote = y.wrote
          PROVE  TransactionsInv'
      <3>1. \A v \in Workers \ {w} : Apart(z, session[v]) /\ Apart(session[v], z)
        BY <2>7, <2>8, ApartSame
      <3> QED
        BY <2>1, <2>3, <2>8, <3>1, QuietStep
    <2>9. /\ y.sides = << >> => SessionOK(Returned(y), seen[w], ledger, rows, nextId', suspect, overdrawn)
          /\ y.sides # << >> =>
               SessionOK([ y EXCEPT !.pc = "sumIn" ], seen[w], ledger, rows, nextId', suspect, overdrawn)
      BY <2>1, <2>2, <2>3, <2>5, InsertOK
    <2>10. CASE y.sides = << >>
      <3>1. session' = [ session EXCEPT ![w] = Returned(y) ]
        BY <2>1, <2>10, ReturnStep
      <3>2. /\ Returned(y).pc # "done" /\ Returned(y).own = y.own
            /\ Returned(y).locked = y.locked /\ Returned(y).wrote = y.wrote
        BY <2>6, ReturnedFields
      <3> QED
        BY <2>8, <2>9, <2>10, <3>1, <3>2
    <2>11. CASE y.sides # << >>
      <3> DEFINE z == [ y EXCEPT !.pc = "sumIn" ]
      <3>1. session' = [ session EXCEPT ![w] = z ]
        BY <2>1, <2>11 DEF Goto
      <3>2. z.pc # "done" /\ z.own = y.own /\ z.locked = y.locked /\ z.wrote = y.wrote
        BY <2>6, GotoFields DEF PC
      <3> QED
        BY <2>8, <2>9, <2>11, <3>1, <3>2
    <2> QED
      BY <2>10, <2>11
  <1> QED
    BY <1>1, <1>2

(* What is in hand is a session, whatever number and write it carries. *)
LEMMA CarriedFields ==
    ASSUME NEW s \in Session, NEW sum \in Int, NEW p \in Nullable(PendingWrites), NEW pc \in PC
    PROVE  \A y \in { [ s EXCEPT !.sum = sum ], [ s EXCEPT !.write = p ] } :
             LET z == [ y EXCEPT !.pc = pc ] IN
             /\ z.pc = pc /\ z.own = s.own /\ z.locked = s.locked /\ z.wrote = s.wrote
  <1> SUFFICES ASSUME NEW y \in { [ s EXCEPT !.sum = sum ], [ s EXCEPT !.write = p ] }
               PROVE  LET z == [ y EXCEPT !.pc = pc ] IN
                      /\ z.pc = pc /\ z.own = s.own /\ z.locked = s.locked /\ z.wrote = s.wrote
    OBVIOUS
  <1>1. y \in Session /\ y.own = s.own /\ y.locked = s.locked /\ y.wrote = s.wrote
    BY DEF Session
  <1> QED
    BY <1>1, GotoFields

(* The incoming rows are summed. *)
LEMMA InvSumIncoming ==
    ASSUME TransactionsInv, NEW w \in Workers, SumIncoming(w)
    PROVE  TransactionsInv'
  <1> DEFINE s == session[w]
             k == Head(s.sides)
             sum == SumQuantity(Incoming(ledger \cup s.own, k))
             y == [ s EXCEPT !.sum = sum ]
             z == [ y EXCEPT !.pc = "sumOut" ]
             f == [ seen[w] EXCEPT !.sums = @ \cup {k}, !.staleSums = @ \ {k} ]
  <1>1. /\ s.pc = "sumIn" /\ session' = [ session EXCEPT ![w] = z ]
        /\ ledger' = ledger /\ rows' = rows /\ nextId' = nextId /\ answer' = answer
        /\ suspect' = suspect /\ overdrawn' = overdrawn
    BY DEF SumIncoming, At, Goto, Visible
  <1>2. /\ SessionOK(s, seen[w], ledger, rows, nextId, suspect, overdrawn)
        /\ Store(ledger, rows, nextId, suspect, overdrawn)
        /\ s \in Session /\ nextId \in Nat /\ nextId <= nextId /\ DOMAIN seen = Workers
    BY OfSession
  <1>3. DOMAIN seen' = Workers /\ seen'[w] = f /\ \A v \in Workers \ {w} : seen'[v] = seen[v]
    BY <1>2 DEF SumIncoming
  <1>4. SessionOK(z, f, ledger, rows, nextId, suspect, overdrawn)
    BY <1>1, <1>2, SumIncomingOK
  <1>5. sum \in Int
    <2>1. IsFiniteSet(ledger \cup s.own)
      BY <1>1, <1>2, InHand DEF Recomputing
    <2> QED
      BY <2>1, SidesFinite, UnitsFinite
  <1>6. z.pc # "done" /\ z.own = s.own /\ z.locked = s.locked /\ z.wrote = s.wrote
    BY <1>2, <1>5, CarriedFields DEF PC, Nullable
  <1> HIDE DEF z, f
  <1>7. \A v \in Workers \ {w} : Apart(z, session[v]) /\ Apart(session[v], z)
    BY <1>6, ApartOthers
  <1>8. Answered'
    BY <1>1, <1>6, AnsweredSame
  <1> QED
    BY <1>1, <1>2, <1>3, <1>4, <1>7, <1>8, LocalStep

(* The outgoing rows are summed. *)
LEMMA InvSumOutgoing ==
    ASSUME TransactionsInv, NEW w \in Workers, SumOutgoing(w)
    PROVE  TransactionsInv'
  <1> DEFINE s == session[w]
             k == Head(s.sides)
             out == SumQuantity(Outgoing(ledger \cup s.own, k))
             y == [ s EXCEPT !.sum = @ - out ]
             z == [ y EXCEPT !.pc = "findRow" ]
  <1>1. /\ s.pc = "sumOut" /\ session' = [ session EXCEPT ![w] = z ]
        /\ UNCHANGED << ledger, rows, answer, aux >> /\ nextId' = nextId
    BY DEF SumOutgoing, At, Goto, Visible
  <1>2. /\ SessionOK(s, seen[w], ledger, rows, nextId, suspect, overdrawn)
        /\ Store(ledger, rows, nextId, suspect, overdrawn)
        /\ s \in Session /\ nextId \in Nat /\ nextId <= nextId
    BY OfSession
  <1>3. SessionOK(z, seen[w], ledger, rows, nextId, suspect, overdrawn)
    BY <1>1, <1>2, SumOutgoingOK
  <1>4. s.sum - out \in Int
    <2>1. IsFiniteSet(ledger \cup s.own)
      BY <1>1, <1>2, InHand DEF Recomputing
    <2>2. out \in Nat
      BY <2>1, SidesFinite, UnitsFinite
    <2>3. s.sum \in Int
      BY <1>2 DEF Session
    <2> HIDE DEF out
    <2> QED
      BY <2>2, <2>3
  <1>5. z.pc # "done" /\ z.own = s.own /\ z.locked = s.locked /\ z.wrote = s.wrote
    BY <1>2, <1>4, CarriedFields DEF PC, Nullable
  <1> HIDE DEF z
  <1>6. \A v \in Workers \ {w} : Apart(z, session[v]) /\ Apart(session[v], z)
    BY <1>5, ApartOthers
  <1> QED
    BY <1>1, <1>2, <1>3, <1>5, <1>6, QuietStep

(* The balance row is read, and its new value is pending. *)
LEMMA InvFindRow ==
    ASSUME TransactionsInv, NEW w \in Workers, FindRow(w)
    PROVE  TransactionsInv'
  <1> DEFINE s == session[w]
             k == Head(s.sides)
             p == PendingWrite(RowOf(s, rows, k), s.sum)
             y == [ s EXCEPT !.write = p ]
             z == [ y EXCEPT !.pc = "flush" ]
  <1>1. /\ s.pc = "findRow" /\ session' = [ session EXCEPT ![w] = z ]
        /\ UNCHANGED << ledger, rows, answer, aux >> /\ nextId' = nextId
    BY DEF FindRow, At, Goto, VisibleRow, RowOf
  <1>2. /\ SessionOK(s, seen[w], ledger, rows, nextId, suspect, overdrawn)
        /\ Store(ledger, rows, nextId, suspect, overdrawn)
        /\ s \in Session /\ nextId \in Nat /\ nextId <= nextId
    BY OfSession
  <1>3. SessionOK(z, seen[w], ledger, rows, nextId, suspect, overdrawn)
    BY <1>1, <1>2, FindRowOK
  <1>4. p \in Nullable(PendingWrites)
    <2>1. RowOf(s, rows, k) \in Nullable(Row) /\ s.sum \in Int
      BY <1>1, <1>2, InHand DEF Recomputing, Session
    <2> QED
      BY <2>1, PendingWriteFacts DEF Nullable
  <1> HIDE DEF p
  <1>5. z.pc # "done" /\ z.own = s.own /\ z.locked = s.locked /\ z.wrote = s.wrote
    BY <1>2, <1>4, CarriedFields DEF PC
  <1> HIDE DEF z
  <1>6. \A v \in Workers \ {w} : Apart(z, session[v]) /\ Apart(session[v], z)
    BY <1>5, ApartOthers
  <1> QED
    BY <1>1, <1>2, <1>3, <1>5, <1>6, QuietStep

(* The pending write is flushed, or fails. *)
LEMMA InvFlush ==
    ASSUME TransactionsInv, NEW w \in Workers, Flush(w)
    PROVE  TransactionsInv'
  <1> DEFINE s == session[w]
             k == Head(s.sides)
             now == RowOf(s, rows, k)
             x == Flushed(s)
  <1>1. CASE ~FlushSucceeds(s.write, now)
    <2>1. RollBack(w, "error")
      BY <1>1 DEF Flush, VisibleRow, RowOf
    <2> QED
      BY <2>1, InvRollBack DEF Told
  <1>2. CASE FlushSucceeds(s.write, now)
    <2>1. /\ s.pc = "flush" /\ Blockers(w) = {} /\ NextSide(w, x)
          /\ nextId' = IF s.write.kind = "insert" THEN nextId + 1 ELSE nextId
          /\ UNCHANGED << ledger, rows, answer, aux >>
      BY <1>2 DEF Flush, At, VisibleRow, RowOf, Flushed
    <2>2. /\ SessionOK(s, seen[w], ledger, rows, nextId, suspect, overdrawn)
          /\ Store(ledger, rows, nextId, suspect, overdrawn)
          /\ s \in Session /\ nextId \in Nat
      BY OfSession
    <2>3. /\ nextId' \in Nat /\ nextId <= nextId'
          /\ x.sides = s.sides /\ x.own = s.own /\ x.locked = s.locked /\ x \in Session
          /\ DOMAIN x.wrote \subseteq DOMAIN s.wrote \cup {k}
          /\ LeavesRowAlone(s.write, now) => x = s
          /\ Len(x.sides) > 1 =>
               SessionOK([ [ x EXCEPT !.sides = Tail(x.sides) ] EXCEPT !.pc = "sumIn" ],
                         seen[w], ledger, rows, nextId', suspect, overdrawn)
          /\ ~(Len(x.sides) > 1) =>
               SessionOK(Returned([ x EXCEPT !.sides = << >> ]),
                         seen[w], ledger, rows, nextId', suspect, overdrawn)
      BY <1>2, <2>1, <2>2, FlushOK
    <2>4. ASSUME NEW v \in Workers \ {w} PROVE Apart(x, session[v]) /\ Apart(session[v], x)
      <3>1. Apart(s, session[v]) /\ Apart(session[v], s)
        BY OfSession
      <3>2. CASE LeavesRowAlone(s.write, now)
        BY <2>3, <3>1, <3>2
      <3>3. CASE ~LeavesRowAlone(s.write, now)
        <4>1. k \notin session[v].locked \cup DOMAIN session[v].wrote
          BY <2>1, <3>3, NotBlocked DEF LeavesRowAlone
        <4> HIDE DEF x, s, k
        <4> QED
          BY <2>3, <3>1, <4>1 DEF Apart
      <3> QED
        BY <3>2, <3>3
    <2>5. Tail(s.sides) \in Seq(BalanceKey)
      BY <2>1, <2>2, InHand DEF Recomputing
    <2> HIDE DEF x
    <2>6. ASSUME NEW z, SessionOK(z, seen[w], ledger, rows, nextId', suspect, overdrawn),
                 session' = [ session EXCEPT ![w] = z ], z.pc # "done",
                 z.own = x.own, z.locked = x.locked, z.wrote = x.wrote
          PROVE  TransactionsInv'
      <3>1. \A v \in Workers \ {w} : Apart(z, session[v]) /\ Apart(session[v], z)
        BY <2>4, <2>6, ApartSame
      <3> QED
        BY <2>1, <2>3, <2>6, <3>1, QuietStep
    <2>7. ASSUME NEW q \in Seq(BalanceKey)
          PROVE  LET y == [ x EXCEPT !.sides = q ] IN
                 y \in Session /\ y.own = x.own /\ y.locked = x.locked /\ y.wrote = x.wrote
      BY <2>3 DEF Session
    <2>8. CASE Len(x.sides) > 1
      <3> DEFINE y == [ x EXCEPT !.sides = Tail(x.sides) ]
                 z == [ y EXCEPT !.pc = "sumIn" ]
      <3>1. session' = [ session EXCEPT ![w] = z ]
        BY <2>1, <2>8 DEF NextSide, Goto
      <3>2. SessionOK(z, seen[w], ledger, rows, nextId', suspect, overdrawn)
        BY <2>3, <2>8
      <3>3. y \in Session /\ y.own = x.own /\ y.locked = x.locked /\ y.wrote = x.wrote
        BY <2>3, <2>5, <2>7
      <3> HIDE DEF y
      <3>4. z.pc # "done" /\ z.own = y.own /\ z.locked = y.locked /\ z.wrote = y.wrote
        BY <3>3, GotoFields DEF PC
      <3> HIDE DEF z
      <3> QED
        BY <2>6, <3>1, <3>2, <3>3, <3>4
    <2>9. CASE ~(Len(x.sides) > 1)
      <3> DEFINE y == [ x EXCEPT !.sides = << >> ]
      <3>1. session' = [ session EXCEPT ![w] = Returned(y) ]
        <4>1. Return(w, y)
          BY <2>1, <2>9 DEF NextSide
        <4> QED
          BY <4>1, ReturnStep
      <3>2. SessionOK(Returned(y), seen[w], ledger, rows, nextId', suspect, overdrawn)
        BY <2>3, <2>9
      <3>3. y \in Session /\ y.own = x.own /\ y.locked = x.locked /\ y.wrote = x.wrote
        BY <2>7, EmptySeq
      <3> HIDE DEF y
      <3>4. /\ Returned(y).pc # "done" /\ Returned(y).own = y.own
            /\ Returned(y).locked = y.locked /\ Returned(y).wrote = y.wrote
        BY <3>3, ReturnedFields
      <3> QED
        BY <2>6, <3>1, <3>2, <3>3, <3>4
    <2> QED
      BY <2>8, <2>9
  <1> QED
    BY <1>1, <1>2

(* The answer is sent. *)
LEMMA InvRespond ==
    ASSUME TransactionsInv, NEW w \in Workers, Respond(w)
    PROVE  TransactionsInv'
  <1> DEFINE s == session[w]
             z == [ s EXCEPT !.pc = "commit" ]
  <1>1. /\ s.pc = "respond" /\ session' = [ session EXCEPT ![w] = z ]
        /\ answer' = [ answer EXCEPT ![w] = "ok" ] /\ nextId' = nextId
        /\ ledger' = ledger /\ rows' = rows /\ seen' = seen
        /\ suspect' = suspect /\ overdrawn' = overdrawn
    BY DEF Respond, At, Goto, aux
  <1>2. /\ SessionOK(s, seen[w], ledger, rows, nextId, suspect, overdrawn)
        /\ s \in Session /\ nextId \in Nat /\ nextId <= nextId /\ DOMAIN seen = Workers
        /\ answer \in [ Workers -> Told ]
    BY OfSession
  <1>3. SessionOK(z, seen[w], ledger, rows, nextId, suspect, overdrawn)
    BY <1>1, <1>2, RespondOK
  <1>4. z.pc # "done" /\ z.own = s.own /\ z.locked = s.locked /\ z.wrote = s.wrote
    BY <1>2, GotoFields DEF PC
  <1> HIDE DEF z
  <1>5. \A v \in Workers \ {w} : Apart(z, session[v]) /\ Apart(session[v], z)
    BY <1>4, ApartOthers
  <1>6. Answered'
    <2>1. \A v \in Workers : session'[v].pc = "done" => session[v].pc = "done" /\ v # w
      BY <1>1, <1>4 DEF TransactionsInv, SessionsOK
    <2> QED
      BY <1>1, <2>1 DEF TransactionsInv, Answered, Told
  <1>7. DOMAIN seen' = Workers /\ seen'[w] = seen[w] /\ \A v \in Workers \ {w} : seen'[v] = seen[v]
    BY <1>1, <1>2
  <1> QED
    BY <1>1, <1>2, <1>3, <1>5, <1>6, <1>7, LocalStep

(* The transaction commits: what it wrote is there, and the others' readings *)
(* of what it touched are stale.                                             *)
LEMMA InvCommit ==
    ASSUME TransactionsInv, NEW w \in Workers, Commit(w)
    PROVE  TransactionsInv'
  <1> DEFINE s == session[w]
             f == seen[w]
             z == [ Idle EXCEPT !.pc = "done", !.request = s.request ]
  <1>1. /\ s.pc = "commit" /\ session' = [ session EXCEPT ![w] = z ]
        /\ ledger' = ledger \cup s.own /\ rows' = [ k \in BalanceKey |-> RowOf(s, rows, k) ]
        /\ answer' = [ answer EXCEPT ![w] = "ok" ] /\ nextId' = nextId
        /\ suspect' = (suspect \ TouchedBy(s)) \cup f.staleSums
        /\ overdrawn' = overdrawn \cup f.staleChecks \cup f.misled
    BY DEF Commit, At, Ended, VisibleRow, RowOf, Touched, TouchedBy
  <1>2. /\ DOMAIN seen' = Workers /\ seen'[w] = NothingSeen
        /\ \A v \in Workers \ {w} :
             seen'[v] = [ seen[v] EXCEPT !.staleSums = @ \cup (TouchedBy(s) \cap seen[v].sums),
                                         !.staleChecks = @ \cup (TouchedBy(s) \cap seen[v].checks) ]
    BY DEF Commit, Outdated, Touched, TouchedBy
  <1>3. /\ SessionOK(s, f, ledger, rows, nextId, suspect, overdrawn)
        /\ Store(ledger, rows, nextId, suspect, overdrawn) /\ s \in Session
        /\ DOMAIN session = Workers /\ answer \in [ Workers -> Told ]
    BY OfSession
  <1>4. Store(ledger', rows', nextId', suspect', overdrawn')
    BY <1>1, <1>3, CommitStore
  <1>5. Once(ledger')
    <2>1. Once(ledger)
      BY DEF TransactionsInv, Committed, OncePerRequest, Once
    <2> QED
      BY <1>1, <1>3, <2>1, CommitOnce
  <1>6. Committed'
    BY <1>4, <1>5 DEF Committed, OncePerRequest, Once
  <1>7. /\ DOMAIN session' = Workers /\ session'[w] = z
        /\ \A v \in Workers \ {w} : session'[v] = session[v]
    BY <1>1, <1>3
  <1>8. SessionOK(z, NothingSeen, ledger', rows', nextId', suspect', overdrawn')
    <2>1. s.request \in Nullable(Requests)
      BY <1>3 DEF Session
    <2> QED
      BY <2>1, EndedOK
  <1>9. z.pc = "done"
    BY IdleFacts DEF Session
  <1> HIDE DEF z
  <1>10. z.own = {} /\ z.locked = {} /\ DOMAIN z.wrote = {}
    BY <1>8, <1>9 DEF SessionOK, Position, Clear
  <1>11. ASSUME NEW v \in Workers
         PROVE  SessionOK(session'[v], seen'[v], ledger', rows', nextId', suspect', overdrawn')
    <2>1. CASE v = w
      BY <1>2, <1>7, <1>8, <2>1
    <2>2. CASE v # w
      <3>1. /\ SessionOK(session[v], seen[v], ledger, rows, nextId, suspect, overdrawn)
            /\ Apart(session[v], s) /\ Apart(s, session[v])
        BY <2>2, OfSession
      <3> DEFINE g == [ seen[v] EXCEPT !.staleSums = @ \cup (TouchedBy(s) \cap seen[v].sums),
                                       !.staleChecks = @ \cup (TouchedBy(s) \cap seen[v].checks) ]
      <3>2. SessionOK(session[v], g, ledger \cup s.own, [ k \in BalanceKey |-> RowOf(s, rows, k) ],
                      nextId, (suspect \ TouchedBy(s)) \cup f.staleSums,
                      overdrawn \cup f.staleChecks \cup f.misled)
        BY <1>1, <1>3, <3>1, CommitOther
      <3>3. seen'[v] = g /\ session'[v] = session[v]
        BY <1>2, <1>7, <2>2
      <3> HIDE DEF g
      <3> QED
        BY <1>1, <3>2, <3>3
    <2> QED
      BY <2>1, <2>2
  <1>12. ASSUME NEW v \in Workers, NEW u \in Workers, v # u PROVE Apart(session'[v], session'[u])
    <2>1. CASE v = w \/ u = w
      BY <1>7, <1>10, <1>12, <2>1 DEF Apart
    <2>2. CASE v # w /\ u # w
      BY <1>7, <1>12, <2>2 DEF TransactionsInv, SessionsOK
    <2> QED
      BY <2>1, <2>2
  <1>13. SessionsOK'
    BY <1>2, <1>7, <1>11, <1>12 DEF SessionsOK
  <1>14. Answered'
    BY <1>1, <1>3 DEF TransactionsInv, SessionsOK, Answered, Told
  <1> QED
    BY <1>6, <1>13, <1>14 DEF TransactionsInv

----------------------------------------------------------------------------
(* The specification.                                                       *)

(* What was committed before is exact, and no request has begun. *)
LEMMA TransactionsInit == Init => TransactionsInv
  <1> SUFFICES ASSUME Init PROVE TransactionsInv
    OBVIOUS
  <1>1. /\ ledger = InitialLedger /\ rows = [ k \in BalanceKey |-> InitialRow(k) ]
        /\ nextId = Cardinality(InitialLedger) + 1 /\ suspect = {} /\ overdrawn = {}
        /\ DOMAIN session = Workers /\ \A w \in Workers : session[w] = Idle
        /\ DOMAIN seen = Workers /\ \A w \in Workers : seen[w] = NothingSeen
        /\ answer = [ w \in Workers |-> "none" ]
    BY DEF Init
  <1>2. Cardinality(InitialLedger) \in Nat
    BY InitialLedgerWritten, FS_CardinalityType
  <1>3. ledger \subseteq StockTransaction /\ IsFiniteSet(ledger) /\ nextId \in Nat
    BY <1>1, <1>2, InitialLedgerWritten
  <1>4. \A t \in ledger : t.id < nextId
    <2>1. \A t \in ledger : t.id \in Nat /\ t.id <= Cardinality(InitialLedger)
      BY <1>1, <1>3, InitialLedgerWritten DEF StockTransaction
    <2> QED
      BY <1>1, <1>2, <2>1
  <1>5. ASSUME NEW k \in BalanceKey
        PROVE  /\ InitialRow(k) \in Nullable(Row) /\ (~Materialised(k) => InitialRow(k) = NULL)
               /\ Quantity(InitialRow(k)) = IF Materialised(k) THEN LedgerNet(ledger, k) ELSE 0
               /\ ~(LedgerNet(ledger, k) < 0)
    <2> DEFINE q == LedgerNet(ledger, k)
    <2>1. q \in Int /\ q >= 0
      BY <1>1, <1>3, SidesFinite, InitialLedgerWritten
    <2>2. InitialRow(k) = IF Materialised(k) /\ q # 0 THEN [ row |-> 0, quantity |-> q ] ELSE NULL
      BY <1>1 DEF InitialRow
    <2> HIDE DEF q
    <2>3. CASE Materialised(k) /\ q # 0
      <3>1. [ row |-> 0, quantity |-> q ] \in Row
        BY <2>1, <2>3 DEF Row
      <3>2. InitialRow(k) \in Row /\ InitialRow(k).quantity = q
        BY <2>2, <2>3, <3>1
      <3>3. InitialRow(k) # NULL
        BY <3>2, NullIsNoRow
      <3> QED
        BY <2>1, <2>3, <3>2, <3>3 DEF Nullable, Quantity, q
    <2>4. CASE ~(Materialised(k) /\ q # 0)
      <3>1. InitialRow(k) = NULL
        BY <2>2, <2>4
      <3> QED
        BY <2>1, <2>4, <3>1 DEF Nullable, Quantity, q
    <2> QED
      BY <2>3, <2>4
  <1>6. Store(ledger, rows, nextId, suspect, overdrawn)
    <2>1. \A k \in BalanceKey : rows[k] = InitialRow(k)
      BY <1>1
    <2>2. rows \in [ BalanceKey -> Nullable(Row) ]
      BY <1>1, <1>5
    <2> QED
      BY <1>1, <1>3, <1>4, <1>5, <2>1, <2>2 DEF Store
  <1>7. OncePerRequest
    BY <1>1, InitialLedgerWritten DEF OncePerRequest
  <1>8. ASSUME NEW w \in Workers
        PROVE  SessionOK(session[w], seen[w], ledger, rows, nextId, suspect, overdrawn)
    <2>1. NULL \in Nullable(Requests)
      BY DEF Nullable
    <2>2. SessionOK(Idle, NothingSeen, ledger, rows, nextId, suspect, overdrawn)
      BY <2>1, EndedOK
    <2> QED
      BY <1>1, <2>2
  <1>9. \A v, w \in Workers : Apart(session[v], session[w])
    BY <1>1, IdleFacts DEF Apart, Clear
  <1>10. Answered
    BY <1>1, IdleFacts DEF Answered, Told
  <1> QED
    BY <1>1, <1>6, <1>7, <1>8, <1>9, <1>10 DEF TransactionsInv, Committed, SessionsOK

(* Every statement, and every loss, keeps it. *)
LEMMA TransactionsStep == TransactionsInv /\ [Next]_vars => TransactionsInv'
  <1> SUFFICES ASSUME TransactionsInv, [Next]_vars PROVE TransactionsInv'
    OBVIOUS
  <1>1. CASE UNCHANGED vars
    <2>1. /\ ledger' = ledger /\ rows' = rows /\ nextId' = nextId /\ session' = session
          /\ answer' = answer /\ seen' = seen /\ suspect' = suspect /\ overdrawn' = overdrawn
      BY <1>1 DEF vars, code, aux
    <2> QED
      BY <2>1 DEF TransactionsInv, Committed, OncePerRequest, Answered, SessionsOK
  <1>2. ASSUME NEW w \in Workers, Statement(w) PROVE TransactionsInv'
    <2>1. CASE Lock(w) \/ Lookup(w) \/ Check(w) \/ Insert(w)
      BY <2>1, InvLock, InvLookup, InvCheck, InvInsert
    <2>2. CASE SumIncoming(w) \/ SumOutgoing(w) \/ FindRow(w) \/ Flush(w)
      BY <2>2, InvSumIncoming, InvSumOutgoing, InvFindRow, InvFlush
    <2>3. CASE Respond(w) \/ Commit(w)
      BY <2>3, InvRespond, InvCommit
    <2> QED
      BY <1>2, <2>1, <2>2, <2>3 DEF Statement
  <1>3. ASSUME NEW w \in Workers, Begin(w) \/ DeadlockVictim(w) \/ Lost(w) PROVE TransactionsInv'
    <2>1. CASE Begin(w)
      BY <2>1, InvBegin
    <2>2. CASE DeadlockVictim(w)
      <3>1. RollBack(w, "deadlock")
        BY <2>2 DEF DeadlockVictim
      <3> QED
        BY <3>1, InvRollBack DEF Told
    <2>3. CASE Lost(w)
      <3>1. RollBack(w, "ok") \/ RollBack(w, "lost")
        BY <2>3 DEF Lost
      <3> QED
        BY <3>1, InvRollBack DEF Told
    <2> QED
      BY <1>3, <2>1, <2>2, <2>3
  <1> QED
    BY <1>1, <1>2, <1>3 DEF Next, Served

(* In every reachable state the ledger and the balance rows, committed and   *)
(* in flight, are well-typed, and a request that is done has been answered.  *)
THEOREM TypeCorrect == Spec => []TypeOK
  <1>1. TransactionsInv => TypeOK
    <2> SUFFICES ASSUME TransactionsInv PROVE TypeOK
      OBVIOUS
    <2>1. /\ ledger \subseteq StockTransaction /\ rows \in [ BalanceKey -> Nullable(Row) ]
          /\ nextId \in Nat
      BY DEF TransactionsInv, Committed, Store
    <2>2. /\ answer \in [ Workers -> Told ]
          /\ \A w \in Workers : session[w].pc = "done" => answer[w] # "none"
      BY DEF TransactionsInv, Answered
    <2>3. ASSUME NEW w \in Workers
          PROVE  /\ session[w].own \subseteq StockTransaction
                 /\ \A k \in DOMAIN session[w].wrote :
                      k \in BalanceKey /\ session[w].wrote[k] \in Nullable(Row)
      <3>1. session[w] \in Session
        BY OfSession
      <3>2. session[w].own \subseteq StockTransaction /\ session[w].wrote \in Writes
        BY <3>1 DEF Session
      <3> QED
        BY <3>2 DEF Writes
    <2> QED
      BY <2>1, <2>2, <2>3 DEF TypeOK, At, Told
  <1> QED
    BY <1>1, TransactionsInit, TransactionsStep, PTL DEF Spec

(* S1 under concurrency: a committed balance row is the committed ledger's   *)
(* sum, whatever requests run at a time and however they end, except for a   *)
(* key whose last writer had summed it before another request committed.     *)
THEOREM BalanceExact == Spec => []BalanceExactUnlessRaced
  <1>1. TransactionsInv => BalanceExactUnlessRaced
    BY DEF TransactionsInv, Committed, Store, BalanceExactUnlessRaced, InLedger
  <1> QED
    BY <1>1, TransactionsInit, TransactionsStep, PTL DEF Spec

(* The ledger of a key goes below zero only where a request drew on it after *)
(* a check that another commit had made stale, or of a row gone wrong.       *)
THEOREM NegativeOnlyStale == Spec => []NegativeOnlyByStaleCheck
  <1>1. TransactionsInv => NegativeOnlyByStaleCheck
    BY DEF TransactionsInv, Committed, Store, NegativeOnlyByStaleCheck
  <1> QED
    BY <1>1, TransactionsInit, TransactionsStep, PTL DEF Spec

(* The check and the sums of a key whose row was taken FOR UPDATE before the *)
(* commands run stay good to the commit, unless the row was wrong already.   *)
THEOREM LockedStaysGood == Spec => []LockedStaleOnlyIfSuspect
  <1>1. TransactionsInv => LockedStaleOnlyIfSuspect
    <2> SUFFICES ASSUME TransactionsInv, NEW w \in Workers
                 PROVE  session[w].locked \cap (seen[w].staleSums \cup seen[w].staleChecks) \subseteq suspect
      BY DEF LockedStaleOnlyIfSuspect
    <2>1. SessionOK(session[w], seen[w], ledger, rows, nextId, suspect, overdrawn)
      BY OfSession
    <2> QED
      BY <2>1 DEF SessionOK, Kept, Holds
  <1> QED
    BY <1>1, TransactionsInit, TransactionsStep, PTL DEF Spec

(* A request sent again, after a rejection, a conflict, a lost connection or *)
(* while the first is still running, is written once and as a whole.         *)
THEOREM WrittenOnce == Spec => []OncePerRequest
  <1>1. TransactionsInv => OncePerRequest
    BY DEF TransactionsInv, Committed
  <1> QED
    BY <1>1, TransactionsInit, TransactionsStep, PTL DEF Spec
=============================================================================
