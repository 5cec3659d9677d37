--------------------------- MODULE TaskFlowProofs ---------------------------
(***************************************************************************)
(* The invariants of TaskFlow, for every value of its constants.           *)
(*                                                                         *)
(* Sums over the ledger are sums over its rows in force: a compensation    *)
(* takes its source out of them (InForce).  What a request writes is       *)
(* followed from one database to the next; a loop of the code is followed  *)
(* by the databases between its rounds.                                    *)
(***************************************************************************)
EXTENDS TaskFlow, AmountsProofs, SequenceTheorems

----------------------------------------------------------------------------
(* Sums over sets of rows.                                                  *)

(* The rows of L at I are finitely many and have quantities. *)
Counted(L, I) == IsFiniteSet(I) /\ \A i \in I : L[i].quantity \in Nat

Units(L, I) == Tally([ i \in I |-> L[i].quantity ])

(* The units of the rows. *)
LEMMA UnitsOfRows ==
    ASSUME NEW L, NEW I
    PROVE  /\ Units(L, I) = UNION { {i} \X (1..L[i].quantity) : i \in I }
           /\ Amount(L, I) = Cardinality(Units(L, I))
  <1> DEFINE f == [ i \in I |-> L[i].quantity ]
  <1>1. Tally(f) = UNION { {b} \X (1..f[b]) : b \in DOMAIN f }
    BY DEF Tally
  <1>2. DOMAIN f = I /\ \A i \in I : f[i] = L[i].quantity
    OBVIOUS
  <1> HIDE DEF f
  <1>3. Tally(f) = UNION { {i} \X (1..L[i].quantity) : i \in I }
    BY <1>1, <1>2
  <1> QED
    BY <1>3 DEF Units, Amount, Total, f

(* A unit is a row and a number. *)
LEMMA UnitOfRow ==
    ASSUME NEW L, NEW I, NEW u
    PROVE  u \in Units(L, I) <=> u = << u[1], u[2] >> /\ u[1] \in I /\ u[2] \in 1..L[u[1]].quantity
  BY UnitsOfRows

(* A sum of quantities is a number. *)
LEMMA AmountType ==
    ASSUME NEW L, NEW I, Counted(L, I)
    PROVE  IsFiniteSet(Units(L, I)) /\ Amount(L, I) \in Nat
  <1> DEFINE columns == { {i} \X (1..L[i].quantity) : i \in I }
             f == [ i \in I |-> {i} \X (1..L[i].quantity) ]
  <1>1. f \in Surjection(I, columns)
    BY DEF Surjection
  <1>2. IsFiniteSet(columns)
    BY <1>1, FS_Surjection DEF Counted
  <1>3. \A c \in columns : IsFiniteSet(c)
    <2> SUFFICES ASSUME NEW i \in I PROVE IsFiniteSet({i} \X (1..L[i].quantity))
      OBVIOUS
    <2>1. L[i].quantity \in Nat
      BY DEF Counted
    <2> QED
      BY <2>1, ColumnSize, Zenon
  <1>4. IsFiniteSet(UNION columns)
    BY <1>2, <1>3, FS_UNION
  <1> QED
    BY <1>4, FS_CardinalityType, UnitsOfRows

(* Sums over disjoint sets of rows add up. *)
LEMMA AmountOfDisjoint ==
    ASSUME NEW L, NEW I, NEW J, Counted(L, I), Counted(L, J), I \cap J = {}
    PROVE  Amount(L, I \cup J) = Amount(L, I) + Amount(L, J)
  <1>1. Units(L, I \cup J) = Units(L, I) \cup Units(L, J)
    BY UnitsOfRows
  <1>2. Units(L, I) \cap Units(L, J) = {}
    <2> SUFFICES ASSUME NEW u \in Units(L, I), u \in Units(L, J) PROVE FALSE
      OBVIOUS
    <2>1. u[1] \in I /\ u[1] \in J
      BY UnitOfRow
    <2> QED
      BY <2>1
  <1>3. /\ IsFiniteSet(Units(L, I)) /\ IsFiniteSet(Units(L, J))
        /\ Cardinality(Units(L, I)) \in Nat /\ Cardinality(Units(L, J)) \in Nat
    BY AmountType, UnitsOfRows
  <1>4. Cardinality(Units(L, I) \cup Units(L, J))
          = Cardinality(Units(L, I)) + Cardinality(Units(L, J)) - Cardinality({})
    BY <1>2, <1>3, FS_Union
  <1>5. /\ Amount(L, I) = Cardinality(Units(L, I)) /\ Amount(L, J) = Cardinality(Units(L, J))
        /\ Amount(L, I \cup J) = Cardinality(Units(L, I \cup J))
    BY UnitsOfRows, Zenon
  <1>6. Cardinality({}) = 0
    BY FS_EmptySet
  <1>7. Amount(L, I \cup J) = Amount(L, I) + Amount(L, J) - 0
    BY <1>1, <1>4, <1>5, <1>6, Zenon
  <1>8. Amount(L, I) \in Nat /\ Amount(L, J) \in Nat
    BY <1>3, <1>5, Zenon
  <1> QED
    BY <1>7, <1>8

(* The sum over no rows, and that over one. *)
LEMMA AmountOfFew ==
    ASSUME NEW L
    PROVE  /\ Amount(L, {}) = 0
           /\ \A i : L[i].quantity \in Nat => Amount(L, {i}) = L[i].quantity
  <1>1. Amount(L, {}) = 0
    <2>1. \A u : u \notin Units(L, {})
      BY UnitOfRow
    <2>2. Units(L, {}) = {}
      BY <2>1
    <2> QED
      BY <2>2, FS_EmptySet, UnitsOfRows
  <1>2. ASSUME NEW i, L[i].quantity \in Nat PROVE Amount(L, {i}) = L[i].quantity
    <2>1. Units(L, {i}) = {i} \X (1..L[i].quantity)
      BY UnitsOfRows
    <2>2. Cardinality({i} \X (1..L[i].quantity)) = L[i].quantity
      BY <1>2, ColumnSize, Zenon
    <2> QED
      BY <2>1, <2>2, UnitsOfRows, Zenon
  <1> QED
    BY <1>1, <1>2

(* A part of the rows has a part of the sum. *)
LEMMA AmountOfPart ==
    ASSUME NEW L, NEW I, NEW J, Counted(L, I), J \subseteq I
    PROVE  /\ Counted(L, J) /\ Counted(L, I \ J)
           /\ Amount(L, J) \in Nat /\ Amount(L, I \ J) \in Nat
           /\ Amount(L, I) = Amount(L, J) + Amount(L, I \ J)
  <1>1. Counted(L, J) /\ Counted(L, I \ J)
    BY FS_Subset DEF Counted
  <1>2. I = J \cup (I \ J) /\ J \cap (I \ J) = {}
    OBVIOUS
  <1>3. Amount(L, J \cup (I \ J)) = Amount(L, J) + Amount(L, I \ J)
    BY <1>1, <1>2, AmountOfDisjoint
  <1> QED
    BY <1>1, <1>2, <1>3, AmountType

(* Rows of the same quantities, one to one, have the same sum. *)
LEMMA AmountOfMatched ==
    ASSUME NEW L, NEW K, NEW I, NEW J, Counted(L, I), NEW f \in Bijection(I, J),
           \A i \in I : K[f[i]].quantity = L[i].quantity
    PROVE  Amount(L, I) = Amount(K, J)
  <1> DEFINE g == [ u \in Units(L, I) |-> << f[u[1]], u[2] >> ]
  <1>1. f \in [I -> J] /\ (\A a, b \in I : f[a] = f[b] => a = b) /\ (\A j \in J : \E i \in I : f[i] = j)
    BY DEF Bijection, Injection, Surjection, IsInjective
  <1>2. \A u \in Units(L, I) : g[u] \in Units(K, J)
    BY <1>1, UnitOfRow
  <1>3. g \in [ Units(L, I) -> Units(K, J) ]
    BY <1>2
  <1>4. \A u, v \in Units(L, I) : g[u] = g[v] => u = v
    BY <1>1, UnitOfRow
  <1>5. \A v \in Units(K, J) : \E u \in Units(L, I) : g[u] = v
    <2> SUFFICES ASSUME NEW v \in Units(K, J) PROVE \E u \in Units(L, I) : g[u] = v
      OBVIOUS
    <2>1. v = << v[1], v[2] >> /\ v[1] \in J /\ v[2] \in 1..K[v[1]].quantity
      BY UnitOfRow
    <2>2. PICK i \in I : f[i] = v[1]
      BY <1>1, <2>1
    <2>3. << i, v[2] >> \in Units(L, I)
      BY <2>1, <2>2, UnitOfRow
    <2>4. g[<< i, v[2] >>] = v
      BY <2>1, <2>2, <2>3
    <2> QED
      BY <2>3, <2>4
  <1>6. g \in Bijection(Units(L, I), Units(K, J))
    BY <1>3, <1>4, <1>5 DEF Bijection, Injection, Surjection, IsInjective
  <1> QED
    BY <1>6, AmountType, FS_Bijection, UnitsOfRows DEF ExistsBijection

(* The same rows in two ledgers. *)
LEMMA AmountOfSame ==
    ASSUME NEW L, NEW K, NEW I, \A i \in I : K[i].quantity = L[i].quantity
    PROVE  Amount(K, I) = Amount(L, I)
  <1>1. [ i \in I |-> L[i].quantity ] = [ i \in I |-> K[i].quantity ]
    OBVIOUS
  <1> QED
    BY <1>1 DEF Amount
----------------------------------------------------------------------------
(* What a request works on.                                                 *)

Reasons ==
    { "manual_in", "transfer_send", "transfer_receive", "transform_consume",
      "complete", "scrap", "final_release", "return_to_stock" }

TaskRow ==
    [ position : Positions, stage : Stages, planned : Nat, status : WorkTaskStatus,
      skippedBy : Nullable(Nat) ]

ActionRow ==
    [ type : TaskActionFamily \cup {"transfer_send"}, task : Nullable(Nat),
      to : Nullable(Nat), quantity : Nat, transfer : Nullable(TransferStatus),
      issue : Nullable(Nat), dependsOn : SUBSET Nat, active : BOOLEAN ]

LedgerRow ==
    [ task : Nullable(Nat), reason : Reasons, quantity : Nat \ {0},
      from : Nullable(Place), to : Nullable(Place),
      action : Nullable(Nat), reverses : Nullable(Nat) ]

(* The tables, without the bounds of journal and tasks, which are asked for  *)
(* when a request commits.                                                  *)
Database ==
    [ tasks : Seq(TaskRow), journal : Seq(ActionRow), ledger : Seq(LedgerRow),
      reopened : SUBSET Nat ]

(* The foreign keys. *)
Refer(d) ==
    /\ \A t \in DOMAIN d.tasks : d.tasks[t].skippedBy \in Nullable(DOMAIN d.journal)
    /\ \A a \in DOMAIN d.journal :
         /\ d.journal[a].task \in Nullable(DOMAIN d.tasks)
         /\ d.journal[a].to \in Nullable(DOMAIN d.tasks)
         /\ d.journal[a].issue \in Nullable(DOMAIN d.journal)
         /\ d.journal[a].dependsOn \subseteq 1..(a - 1)
    /\ \A i \in DOMAIN d.ledger :
         /\ d.ledger[i].task \in Nullable(DOMAIN d.tasks)
         /\ d.ledger[i].action \in Nullable(DOMAIN d.journal)
         /\ d.ledger[i].reverses \in Nullable(1..(i - 1))
    /\ d.reopened \subseteq DOMAIN d.tasks

(* A compensation mirrors a row of an action, and no row has two. *)
Mirrored(d) ==
    /\ \A j \in Reversals(d) :
         LET i == d.ledger[j].reverses IN
         /\ d.ledger[i].reverses = NULL /\ d.ledger[i].action # NULL
         /\ d.ledger[j] = Mirror(d, i)
    /\ \A j, k \in Reversals(d) : d.ledger[j].reverses = d.ledger[k].reverses => j = k

(* The rows of one action go to different places. *)
OnePerPlace(d) ==
    \A i, j \in DOMAIN d.ledger :
        /\ d.ledger[i].action = d.ledger[j].action /\ d.ledger[i].action # NULL
        /\ d.ledger[i].to = d.ledger[j].to /\ d.ledger[i].to # NULL
        => i = j

(* Nothing is below zero. *)
NoneNegative(d) == \A place \in Place : OnHand(d, place) >= 0

(* A line has one open task, apart from those opened again. *)
OneOpen(d) ==
    \A t, u \in DOMAIN d.tasks \ d.reopened :
        /\ IsOpen(d, t) /\ IsOpen(d, u)
        /\ d.tasks[t].position = d.tasks[u].position /\ d.tasks[t].stage = d.tasks[u].stage
        => t = u

Early == { "waiting_previous", "ready" }

(* A task that has received something is in work, or was opened again. *)
ReceivedInWork(d) ==
    \A t \in DOMAIN d.tasks \ d.reopened :
        RowsOf(d, {t}, "transfer_receive") # {} => d.tasks[t].status \notin Early

Typed(d) == d \in Database /\ Refer(d) /\ Mirrored(d)

Sane(d) == Typed(d) /\ OnePerPlace(d) /\ OneOpen(d) /\ ReceivedInWork(d)

Sound(d) == Sane(d) /\ NoneNegative(d)

(* The rows that no compensation has undone. *)
InForce(d) ==
    { i \in DOMAIN d.ledger : d.ledger[i].reverses = NULL
                              /\ \A j \in DOMAIN d.ledger : d.ledger[j].reverses # i }

(* The fields of a database. *)
LEMMA DatabaseFields ==
    ASSUME NEW d, Typed(d)
    PROVE  /\ d = [ tasks |-> d.tasks, journal |-> d.journal, ledger |-> d.ledger,
                    reopened |-> d.reopened ]
           /\ d.tasks \in Seq(TaskRow) /\ d.journal \in Seq(ActionRow) /\ d.ledger \in Seq(LedgerRow)
           /\ Len(d.tasks) \in Nat /\ DOMAIN d.tasks = 1..Len(d.tasks)
           /\ Len(d.journal) \in Nat /\ DOMAIN d.journal = 1..Len(d.journal)
           /\ Len(d.ledger) \in Nat /\ DOMAIN d.ledger = 1..Len(d.ledger)
           /\ \A t \in DOMAIN d.tasks : d.tasks[t] \in TaskRow
           /\ \A a \in DOMAIN d.journal : d.journal[a] \in ActionRow
           /\ \A i \in DOMAIN d.ledger : d.ledger[i] \in LedgerRow
  <1>1. /\ d = [ tasks |-> d.tasks, journal |-> d.journal, ledger |-> d.ledger,
                 reopened |-> d.reopened ]
        /\ d.tasks \in Seq(TaskRow) /\ d.journal \in Seq(ActionRow) /\ d.ledger \in Seq(LedgerRow)
    BY DEF Typed, Database
  <1>2. ASSUME NEW S, NEW s \in Seq(S)
        PROVE  /\ Len(s) \in Nat /\ DOMAIN s = 1..Len(s)
               /\ \A i \in DOMAIN s : s[i] \in S
    BY LenProperties, ElementOfSeq
  <1>3. /\ Len(d.tasks) \in Nat /\ DOMAIN d.tasks = 1..Len(d.tasks)
        /\ \A t \in DOMAIN d.tasks : d.tasks[t] \in TaskRow
    BY <1>1, <1>2, Zenon
  <1>4. /\ Len(d.journal) \in Nat /\ DOMAIN d.journal = 1..Len(d.journal)
        /\ \A a \in DOMAIN d.journal : d.journal[a] \in ActionRow
    BY <1>1, <1>2, Zenon
  <1>5. /\ Len(d.ledger) \in Nat /\ DOMAIN d.ledger = 1..Len(d.ledger)
        /\ \A i \in DOMAIN d.ledger : d.ledger[i] \in LedgerRow
    BY <1>1, <1>2, Zenon
  <1> QED
    BY <1>1, <1>3, <1>4, <1>5, Zenon

(* Any rows of the ledger have a sum. *)
LEMMA RowsCounted ==
    ASSUME NEW d, Typed(d), NEW I \in SUBSET (DOMAIN d.ledger)
    PROVE  Counted(d.ledger, I) /\ Amount(d.ledger, I) \in Nat
  <1>1. IsFiniteSet(DOMAIN d.ledger)
    <2>1. Len(d.ledger) \in Nat /\ DOMAIN d.ledger = 1..Len(d.ledger)
      BY DatabaseFields
    <2> QED
      BY <2>1, FS_Interval
  <1>2. \A i \in I : d.ledger[i].quantity \in Nat
    BY DatabaseFields DEF LedgerRow
  <1>3. Counted(d.ledger, I)
    BY <1>1, <1>2, FS_Subset DEF Counted
  <1> QED
    BY <1>3, AmountType

(* The rows that compensations of some of the rows I reverse. *)
Undone(d, I) == { i \in I : \E j \in Reversals(d) : d.ledger[j].reverses = i }

(* Compensations sum up to what they reverse. *)
LEMMA AmountUndone ==
    ASSUME NEW d, Typed(d), NEW I \in SUBSET (DOMAIN d.ledger)
    PROVE  Amount(d.ledger, { j \in Reversals(d) : d.ledger[j].reverses \in I })
             = Amount(d.ledger, Undone(d, I))
  <1> DEFINE J == { j \in Reversals(d) : d.ledger[j].reverses \in I }
             f == [ j \in J |-> d.ledger[j].reverses ]
  <1>1. J \subseteq DOMAIN d.ledger
    BY DEF Reversals
  <1>2. Counted(d.ledger, J)
    BY <1>1, RowsCounted
  <1>3. \A j \in J : d.ledger[j].reverses \in Undone(d, I)
    BY DEF Undone
  <1>4. \A j, k \in J : d.ledger[j].reverses = d.ledger[k].reverses => j = k
    BY DEF Typed, Mirrored
  <1>5. \A i \in Undone(d, I) : \E j \in J : d.ledger[j].reverses = i
    BY DEF Undone
  <1>6. f \in Bijection(J, Undone(d, I))
    <2> HIDE DEF J
    <2> QED
      BY <1>3, <1>4, <1>5 DEF Bijection, Injection, Surjection, IsInjective
  <1>7. \A j \in J : d.ledger[f[j]].quantity = d.ledger[j].quantity
    <2> SUFFICES ASSUME NEW j \in J PROVE d.ledger[d.ledger[j].reverses].quantity = d.ledger[j].quantity
      OBVIOUS
    <2> DEFINE i == d.ledger[j].reverses
    <2>1. d.ledger[j] = Mirror(d, i) /\ i \in DOMAIN d.ledger
      BY DEF Typed, Mirrored
    <2>2. d.ledger[i] \in LedgerRow
      BY <2>1, DatabaseFields
    <2> HIDE DEF i
    <2> QED
      BY <2>1, <2>2 DEF Mirror, LedgerRow, i
  <1> HIDE DEF f, J
  <1>8. Amount(d.ledger, J) = Amount(d.ledger, Undone(d, I))
    BY <1>2, <1>6, <1>7, AmountOfMatched
  <1> QED
    BY <1>8 DEF J
(* What a compensation has of the row it reverses. *)
LEMMA MirrorFields ==
    ASSUME NEW d, Typed(d), NEW j \in Reversals(d), NEW i, i = d.ledger[j].reverses
    PROVE  /\ j \in DOMAIN d.ledger /\ i \in DOMAIN d.ledger /\ i \notin Reversals(d)
           /\ d.ledger[i].action # NULL /\ d.ledger[j].action = NULL
           /\ d.ledger[j].task = d.ledger[i].task /\ d.ledger[j].reason = d.ledger[i].reason
           /\ d.ledger[j].quantity = d.ledger[i].quantity
           /\ d.ledger[j].from = d.ledger[i].to /\ d.ledger[j].to = d.ledger[i].from
  <1>1. /\ j \in DOMAIN d.ledger /\ i # NULL
        /\ d.ledger[i].reverses = NULL /\ d.ledger[i].action # NULL
        /\ d.ledger[j] = Mirror(d, i)
    BY DEF Typed, Mirrored, Reversals
  <1>2. i \in DOMAIN d.ledger
    <2>1. i \in 1..(j - 1)
      BY <1>1 DEF Typed, Refer, Nullable
    <2>2. DOMAIN d.ledger = 1..Len(d.ledger) /\ Len(d.ledger) \in Nat
      BY DatabaseFields
    <2> QED
      BY <1>1, <2>1, <2>2
  <1>3. d.ledger[i] \in LedgerRow
    BY <1>2, DatabaseFields
  <1>4. i \notin Reversals(d)
    BY <1>1 DEF Reversals
  <1>5. /\ d.ledger[j].action = NULL
        /\ d.ledger[j].task = d.ledger[i].task /\ d.ledger[j].reason = d.ledger[i].reason
        /\ d.ledger[j].quantity = d.ledger[i].quantity
        /\ d.ledger[j].from = d.ledger[i].to /\ d.ledger[j].to = d.ledger[i].from
    BY <1>1, <1>3 DEF Mirror, LedgerRow
  <1> QED
    BY <1>1, <1>2, <1>4, <1>5

(* Of direct rows those that are in force are left. *)
LEMMA AmountInForce ==
    ASSUME NEW d, Typed(d), NEW I \in SUBSET (DOMAIN d.ledger), I \cap Reversals(d) = {}
    PROVE  /\ Amount(d.ledger, I) = Amount(d.ledger, I \cap InForce(d)) + Amount(d.ledger, Undone(d, I))
           /\ Amount(d.ledger, I \cap InForce(d)) \in Nat
           /\ Amount(d.ledger, Undone(d, I)) \in Nat
  <1>1. Undone(d, I) \subseteq I /\ Counted(d.ledger, I)
    BY RowsCounted DEF Undone
  <1>2. I \ Undone(d, I) = I \cap InForce(d)
    <2>1. ASSUME NEW i \in I PROVE i \in InForce(d) <=> i \notin Undone(d, I)
      <3>1. d.ledger[i].reverses = NULL /\ i \in DOMAIN d.ledger /\ i # NULL
        <4>1. i \in DOMAIN d.ledger /\ i \notin Reversals(d)
          BY <2>1
        <4>2. i \in Nat
          BY <4>1, DatabaseFields
        <4> QED
          BY <4>1, <4>2, NullIsNoValue DEF Reversals
      <3> QED
        BY <2>1, <3>1 DEF InForce, Undone, Reversals
    <2> QED
      BY <2>1
  <1> HIDE DEF Undone
  <1>3. /\ Amount(d.ledger, Undone(d, I)) \in Nat /\ Amount(d.ledger, I \ Undone(d, I)) \in Nat
        /\ Amount(d.ledger, I) = Amount(d.ledger, Undone(d, I)) + Amount(d.ledger, I \ Undone(d, I))
    BY <1>1, AmountOfPart
  <1>4. Amount(d.ledger, I \ Undone(d, I)) = Amount(d.ledger, I \cap InForce(d))
    BY <1>2
  <1> QED
    BY <1>3, <1>4

(* A net sum is the sum of what is in force. *)
LEMMA NetInForce ==
    ASSUME NEW d, Typed(d), NEW T, NEW reason
    PROVE  /\ Net(d, T, reason) = Amount(d.ledger, RowsOf(d, T, reason) \cap InForce(d))
           /\ Net(d, T, reason) \in Nat /\ Gross(d, T, reason) \in Nat
           /\ Net(d, T, reason) <= Gross(d, T, reason)
  <1> DEFINE R == RowsOf(d, T, reason)
             I == R \ Reversals(d)
             J == { j \in Reversals(d) : d.ledger[j].reverses \in I }
  <1>1. R \subseteq DOMAIN d.ledger
    BY DEF RowsOf
  <1>2. R \cap Reversals(d) = J
    <2>1. ASSUME NEW j \in Reversals(d) PROVE j \in R <=> d.ledger[j].reverses \in I
      BY <2>1, MirrorFields DEF RowsOf
    <2> QED
      BY <2>1
  <1>3. Amount(d.ledger, J) = Amount(d.ledger, Undone(d, I))
    BY <1>1, AmountUndone
  <1>4. /\ Amount(d.ledger, I) = Amount(d.ledger, I \cap InForce(d)) + Amount(d.ledger, Undone(d, I))
        /\ Amount(d.ledger, I \cap InForce(d)) \in Nat /\ Amount(d.ledger, Undone(d, I)) \in Nat
    BY <1>1, AmountInForce
  <1>5. I \cap InForce(d) = R \cap InForce(d)
    BY DEF InForce, Reversals
  <1>6. Counted(d.ledger, R) /\ Amount(d.ledger, R) \in Nat /\ I \subseteq R
    BY <1>1, RowsCounted
  <1>7. /\ Amount(d.ledger, R) = Amount(d.ledger, I) + Amount(d.ledger, R \ I)
        /\ Amount(d.ledger, I) \in Nat /\ Amount(d.ledger, R \ I) \in Nat
    BY <1>6, AmountOfPart
  <1>8. Net(d, T, reason) = Amount(d.ledger, I) - Amount(d.ledger, J)
    BY <1>2 DEF Net
  <1>9. Gross(d, T, reason) = Amount(d.ledger, R)
    BY DEF Gross
  <1> HIDE DEF R, I, J
  <1>10. Amount(d.ledger, R \cap InForce(d)) = Amount(d.ledger, I \cap InForce(d))
    BY <1>5
  <1>11. Net(d, T, reason) = Amount(d.ledger, R \cap InForce(d))
    BY <1>3, <1>4, <1>8, <1>10
  <1>12. Net(d, T, reason) \in Nat /\ Gross(d, T, reason) \in Nat /\ Net(d, T, reason) <= Gross(d, T, reason)
    <2>1. Net(d, T, reason) = Amount(d.ledger, I \cap InForce(d))
      BY <1>10, <1>11, Zenon
    <2> QED
      BY <1>4, <1>6, <1>7, <1>9, <2>1
  <1> QED
    BY <1>11, <1>12 DEF R

(* What lies somewhere has been brought there by rows in force and not been  *)
(* taken away by others.                                                    *)
LEMMA StockInForce ==
    ASSUME NEW d, Typed(d), NEW P, NULL \notin P
    PROVE  /\ Stock(d, P) = Amount(d.ledger, Arrivals(d, P) \cap InForce(d))
                              - Amount(d.ledger, Departures(d, P) \cap InForce(d))
           /\ Amount(d.ledger, Arrivals(d, P) \cap InForce(d)) \in Nat
           /\ Amount(d.ledger, Departures(d, P) \cap InForce(d)) \in Nat
  <1> DEFINE A == Arrivals(d, P)
             D == Departures(d, P)
             AI == A \ Reversals(d)
             DI == D \ Reversals(d)
  <1>1. A \subseteq DOMAIN d.ledger /\ D \subseteq DOMAIN d.ledger
    BY DEF Arrivals, Departures
  <1>2. /\ A \cap Reversals(d) = { j \in Reversals(d) : d.ledger[j].reverses \in DI }
        /\ D \cap Reversals(d) = { j \in Reversals(d) : d.ledger[j].reverses \in AI }
    <2>1. ASSUME NEW j \in Reversals(d)
          PROVE  (j \in A <=> d.ledger[j].reverses \in DI) /\ (j \in D <=> d.ledger[j].reverses \in AI)
      BY <2>1, MirrorFields DEF Arrivals, Departures
    <2> QED
      BY <2>1
  <1>3. /\ Amount(d.ledger, A \cap Reversals(d)) = Amount(d.ledger, Undone(d, DI))
        /\ Amount(d.ledger, D \cap Reversals(d)) = Amount(d.ledger, Undone(d, AI))
    BY <1>1, <1>2, AmountUndone
  <1>4. /\ Amount(d.ledger, AI) = Amount(d.ledger, AI \cap InForce(d)) + Amount(d.ledger, Undone(d, AI))
        /\ Amount(d.ledger, AI \cap InForce(d)) \in Nat /\ Amount(d.ledger, Undone(d, AI)) \in Nat
        /\ Amount(d.ledger, DI) = Amount(d.ledger, DI \cap InForce(d)) + Amount(d.ledger, Undone(d, DI))
        /\ Amount(d.ledger, DI \cap InForce(d)) \in Nat /\ Amount(d.ledger, Undone(d, DI)) \in Nat
    BY <1>1, AmountInForce
  <1>5. AI \cap InForce(d) = A \cap InForce(d) /\ DI \cap InForce(d) = D \cap InForce(d)
    BY DEF InForce, Reversals
  <1>6. /\ Amount(d.ledger, A) = Amount(d.ledger, A \cap Reversals(d)) + Amount(d.ledger, AI)
        /\ Amount(d.ledger, D) = Amount(d.ledger, D \cap Reversals(d)) + Amount(d.ledger, DI)
    <2>1. A \ (A \cap Reversals(d)) = AI /\ D \ (D \cap Reversals(d)) = DI
      OBVIOUS
    <2>2. Counted(d.ledger, A) /\ Counted(d.ledger, D)
      BY <1>1, RowsCounted
    <2> HIDE DEF A, D, AI, DI
    <2> QED
      BY <2>1, <2>2, AmountOfPart
  <1>7. Stock(d, P) = Amount(d.ledger, A) - Amount(d.ledger, D)
    BY DEF Stock
  <1> HIDE DEF A, D, AI, DI
  <1>8. /\ Amount(d.ledger, AI \cap InForce(d)) = Amount(d.ledger, A \cap InForce(d))
        /\ Amount(d.ledger, DI \cap InForce(d)) = Amount(d.ledger, D \cap InForce(d))
    BY <1>5
  <1>9. /\ Stock(d, P) = Amount(d.ledger, A \cap InForce(d)) - Amount(d.ledger, D \cap InForce(d))
        /\ Amount(d.ledger, A \cap InForce(d)) \in Nat /\ Amount(d.ledger, D \cap InForce(d)) \in Nat
    BY <1>3, <1>4, <1>6, <1>7, <1>8
  <1> QED
    BY <1>9 DEF A, D
(* What lies somewhere is a number. *)
LEMMA OnHandType ==
    ASSUME NEW d, Typed(d), NEW place, place # NULL
    PROVE  OnHand(d, place) \in Int
  <1> DEFINE P == {place}
             a == Amount(d.ledger, Arrivals(d, P) \cap InForce(d))
             b == Amount(d.ledger, Departures(d, P) \cap InForce(d))
  <1>1. NULL \notin P
    OBVIOUS
  <1> HIDE DEF P
  <1>2. Stock(d, P) = a - b /\ a \in Nat /\ b \in Nat
    BY <1>1, StockInForce
  <1> HIDE DEF a, b
  <1>3. Stock(d, P) \in Int
    BY <1>2
  <1> QED
    BY <1>3 DEF OnHand, P
----------------------------------------------------------------------------
(* The row r comes to the ledger at position n, and counts for its quantity. *)
WithRow(d, e, r, n) ==
    /\ DOMAIN e.ledger = DOMAIN d.ledger \cup {n} /\ n \notin DOMAIN d.ledger
    /\ \A i \in DOMAIN d.ledger : e.ledger[i] = d.ledger[i]
    /\ e.ledger[n] = r
    /\ Reversals(e) = Reversals(d)
    /\ \A I \in SUBSET (DOMAIN d.ledger) :
          /\ Amount(e.ledger, I) = Amount(d.ledger, I) /\ Amount(d.ledger, I) \in Nat
          /\ Amount(e.ledger, I \cup {n}) = Amount(d.ledger, I) + r.quantity

(* The sums over a ledger with one row more. *)
LEMMA AmountWithRow ==
    ASSUME NEW d, Typed(d), NEW e, NEW r, e.ledger = Append(d.ledger, r), r.quantity \in Nat,
           r.reverses = NULL, NEW n, n = Len(d.ledger) + 1
    PROVE  WithRow(d, e, r, n)
  <1> DEFINE L == d.ledger
             K == e.ledger
  <1>1. /\ Len(L) \in Nat /\ DOMAIN L = 1..Len(L) /\ L \in Seq(LedgerRow)
    BY DatabaseFields
  <1>2. /\ DOMAIN K = DOMAIN L \cup {n} /\ n \notin DOMAIN L
        /\ \A i \in DOMAIN L : K[i] = L[i]
        /\ K[n] = r
    BY <1>1
  <1>3. \A I \in SUBSET (DOMAIN L) :
          /\ Amount(K, I) = Amount(L, I) /\ Amount(L, I) \in Nat
          /\ Amount(K, I \cup {n}) = Amount(L, I) + r.quantity
    <2> SUFFICES ASSUME NEW I \in SUBSET (DOMAIN L)
                 PROVE  /\ Amount(K, I) = Amount(L, I) /\ Amount(L, I) \in Nat
                        /\ Amount(K, I \cup {n}) = Amount(L, I) + r.quantity
      OBVIOUS
    <2>1. Counted(L, I) /\ Amount(L, I) \in Nat
      BY RowsCounted
    <2>2. \A i \in I : K[i].quantity = L[i].quantity
      BY <1>2
    <2>3. I \cap {n} = {}
      BY <1>2
    <2>4. K[n].quantity = r.quantity /\ K[n].quantity \in Nat
      BY <1>2
    <2> HIDE DEF K, L
    <2>5. Amount(K, I) = Amount(L, I)
      BY <2>2, AmountOfSame, Zenon
    <2>6. Counted(K, I)
      BY <2>1, <2>2 DEF Counted
    <2>7. \A i : K[i].quantity \in Nat => Amount(K, {i}) = K[i].quantity
      BY AmountOfFew
    <2>8. Amount(K, {n}) = r.quantity
      BY <2>4, <2>7, Zenon
    <2>9. Counted(K, {n})
      BY <2>4, FS_Singleton DEF Counted
    <2>10. Amount(K, I \cup {n}) = Amount(K, I) + Amount(K, {n})
      BY <2>3, <2>6, <2>9, AmountOfDisjoint
    <2> QED
      BY <2>1, <2>5, <2>8, <2>10, Zenon
  <1>4. Reversals(e) = Reversals(d)
    BY <1>2 DEF Reversals
  <1> QED
    BY <1>2, <1>3, <1>4 DEF WithRow

(* What a direct row adds to the sums. *)
LEMMA NetsWithRow ==
    ASSUME NEW d, Typed(d), NEW e, NEW r, e.ledger = Append(d.ledger, r), r.quantity \in Nat,
           r.reverses = NULL, NEW T, NEW reason
    PROVE  /\ Net(e, T, reason) = Net(d, T, reason)
                + (IF r.task \in T /\ r.reason = reason THEN r.quantity ELSE 0)
           /\ Gross(e, T, reason) = Gross(d, T, reason)
                + (IF r.task \in T /\ r.reason = reason THEN r.quantity ELSE 0)
  <1> DEFINE L == d.ledger
             K == e.ledger
             n == Len(L) + 1
  <1>1. n = Len(d.ledger) + 1
    OBVIOUS
  <1> HIDE DEF n
  <1>2. /\ DOMAIN K = DOMAIN L \cup {n} /\ n \notin DOMAIN L
        /\ \A i \in DOMAIN L : K[i] = L[i]
        /\ K[n] = r
        /\ Reversals(e) = Reversals(d)
        /\ \A I \in SUBSET (DOMAIN L) :
              /\ Amount(K, I) = Amount(L, I) /\ Amount(L, I) \in Nat
              /\ Amount(K, I \cup {n}) = Amount(L, I) + r.quantity
    <2>1. WithRow(d, e, r, n)
      BY <1>1, AmountWithRow
    <2> QED
      BY <2>1 DEF WithRow
  <1> DEFINE R == RowsOf(d, T, reason)
             S == RowsOf(e, T, reason)
             V == Reversals(d)
  <1>3. R \subseteq DOMAIN L /\ V \subseteq DOMAIN L
    BY DEF RowsOf, Reversals
  <1>4. /\ Net(e, T, reason) = Amount(K, S \ V) - Amount(K, S \cap V)
        /\ Net(d, T, reason) = Amount(L, R \ V) - Amount(L, R \cap V)
        /\ Gross(e, T, reason) = Amount(K, S) /\ Gross(d, T, reason) = Amount(L, R)
    BY <1>2 DEF Net, Gross
  <1>5. S = IF r.task \in T /\ r.reason = reason THEN R \cup {n} ELSE R
    BY <1>2 DEF RowsOf
  <1> HIDE DEF R, S, V, K, L
  <1>6. /\ Amount(K, R) = Amount(L, R) /\ Amount(L, R) \in Nat
        /\ Amount(K, R \cup {n}) = Amount(L, R) + r.quantity
    BY <1>2, <1>3
  <1>7. /\ Amount(K, R \ V) = Amount(L, R \ V) /\ Amount(L, R \ V) \in Nat
        /\ Amount(K, (R \ V) \cup {n}) = Amount(L, R \ V) + r.quantity
    BY <1>2, <1>3
  <1>8. Amount(K, R \cap V) = Amount(L, R \cap V) /\ Amount(L, R \cap V) \in Nat
    BY <1>2, <1>3
  <1>9. CASE r.task \in T /\ r.reason = reason
    <2>1. S = R \cup {n} /\ S \ V = (R \ V) \cup {n} /\ S \cap V = R \cap V
      BY <1>2, <1>3, <1>5, <1>9
    <2>2. /\ Amount(K, S) = Amount(L, R) + r.quantity
          /\ Amount(K, S \ V) = Amount(L, R \ V) + r.quantity
          /\ Amount(K, S \cap V) = Amount(L, R \cap V)
      BY <1>6, <1>7, <1>8, <2>1
    <2> QED
      BY <1>4, <1>6, <1>7, <1>8, <1>9, <2>2
  <1>10. CASE ~(r.task \in T /\ r.reason = reason)
    <2>1. S = R
      BY <1>5, <1>10
    <2> QED
      BY <1>4, <1>6, <1>7, <1>8, <1>10, <2>1
  <1> QED
    BY <1>9, <1>10

(* What it moves. *)
LEMMA StockWithRow ==
    ASSUME NEW d, Typed(d), NEW e, NEW r, e.ledger = Append(d.ledger, r), r.quantity \in Nat,
           r.reverses = NULL, NEW P
    PROVE  Stock(e, P) = Stock(d, P) + (IF r.to \in P THEN r.quantity ELSE 0)
                                     - (IF r.from \in P THEN r.quantity ELSE 0)
  <1> DEFINE L == d.ledger
             K == e.ledger
             n == Len(L) + 1
  <1>1. n = Len(d.ledger) + 1
    OBVIOUS
  <1> HIDE DEF n
  <1>2. /\ DOMAIN K = DOMAIN L \cup {n} /\ n \notin DOMAIN L
        /\ \A i \in DOMAIN L : K[i] = L[i]
        /\ K[n] = r
        /\ Reversals(e) = Reversals(d)
        /\ \A I \in SUBSET (DOMAIN L) :
              /\ Amount(K, I) = Amount(L, I) /\ Amount(L, I) \in Nat
              /\ Amount(K, I \cup {n}) = Amount(L, I) + r.quantity
    <2>1. WithRow(d, e, r, n)
      BY <1>1, AmountWithRow
    <2> QED
      BY <2>1 DEF WithRow
  <1> DEFINE A == Arrivals(d, P)
             B == Arrivals(e, P)
             C == Departures(d, P)
             D == Departures(e, P)
  <1>3. A \subseteq DOMAIN L /\ C \subseteq DOMAIN L
    BY DEF Arrivals, Departures
  <1>4. /\ Stock(e, P) = Amount(K, B) - Amount(K, D)
        /\ Stock(d, P) = Amount(L, A) - Amount(L, C)
    BY DEF Stock
  <1>5. /\ B = IF r.to \in P THEN A \cup {n} ELSE A
        /\ D = IF r.from \in P THEN C \cup {n} ELSE C
    BY <1>2 DEF Arrivals, Departures
  <1> HIDE DEF A, B, C, D, K, L
  <1>6. /\ Amount(K, A) = Amount(L, A) /\ Amount(L, A) \in Nat
        /\ Amount(K, A \cup {n}) = Amount(L, A) + r.quantity
    BY <1>2, <1>3
  <1>7. /\ Amount(K, C) = Amount(L, C) /\ Amount(L, C) \in Nat
        /\ Amount(K, C \cup {n}) = Amount(L, C) + r.quantity
    BY <1>2, <1>3
  <1>8. Amount(K, B) = Amount(L, A) + (IF r.to \in P THEN r.quantity ELSE 0)
    BY <1>5, <1>6
  <1>9. Amount(K, D) = Amount(L, C) + (IF r.from \in P THEN r.quantity ELSE 0)
    BY <1>5, <1>7
  <1> QED
    BY <1>4, <1>6, <1>7, <1>8, <1>9

LEMMA OnHandWithRow ==
    ASSUME NEW d, Typed(d), NEW e, NEW r, e.ledger = Append(d.ledger, r), r.quantity \in Nat,
           r.reverses = NULL, NEW place
    PROVE  OnHand(e, place) = OnHand(d, place) + (IF r.to = place THEN r.quantity ELSE 0)
                                               - (IF r.from = place THEN r.quantity ELSE 0)
  <1> DEFINE P == {place}
  <1>1. (r.to \in P <=> r.to = place) /\ (r.from \in P <=> r.from = place)
    OBVIOUS
  <1>2. OnHand(e, place) = Stock(e, P) /\ OnHand(d, place) = Stock(d, P)
    BY DEF OnHand
  <1> HIDE DEF P
  <1>3. Stock(e, P) = Stock(d, P) + (IF r.to \in P THEN r.quantity ELSE 0)
                                  - (IF r.from \in P THEN r.quantity ELSE 0)
    BY StockWithRow
  <1> QED
    BY <1>1, <1>2, <1>3
----------------------------------------------------------------------------
(* Changing a task.                                                         *)

(* What the operators leave of the tasks: their places on the route, and    *)
(* that none is opened or goes back to waiting, a skipped one stays skipped.*)
Onward(d, e) ==
    /\ DOMAIN e.tasks = DOMAIN d.tasks /\ e.reopened = d.reopened
    /\ \A t \in DOMAIN d.tasks :
         /\ e.tasks[t].position = d.tasks[t].position /\ e.tasks[t].stage = d.tasks[t].stage
         /\ e.tasks[t].skippedBy = d.tasks[t].skippedBy
         /\ IsOpen(e, t) => IsOpen(d, t)
         /\ e.tasks[t].status \in Early => d.tasks[t].status \in Early
         /\ e.tasks[t].status = "waiting_previous" => d.tasks[t].status = "waiting_previous"
         /\ d.tasks[t].status = "skipped" => e.tasks[t].status = "skipped"

(* The tables make a database. *)
LEMMA DatabaseOf ==
    ASSUME NEW tasks \in Seq(TaskRow), NEW journal \in Seq(ActionRow),
           NEW ledger \in Seq(LedgerRow), NEW reopened \in SUBSET Nat
    PROVE  [ tasks |-> tasks, journal |-> journal, ledger |-> ledger, reopened |-> reopened ]
             \in Database
  BY DEF Database

(* One task is replaced. *)
LEMMA TaskReplaced ==
    ASSUME NEW d \in Database, NEW t \in DOMAIN d.tasks, NEW task \in TaskRow, NEW e,
           e = [ d EXCEPT !.tasks = [ d.tasks EXCEPT ![t] = task ] ]
    PROVE  /\ e \in Database
           /\ e.journal = d.journal /\ e.ledger = d.ledger /\ e.reopened = d.reopened
           /\ DOMAIN e.tasks = DOMAIN d.tasks /\ Len(e.tasks) = Len(d.tasks)
           /\ e.tasks[t] = task
           /\ \A u \in DOMAIN d.tasks : u # t => e.tasks[u] = d.tasks[u]
  <1> DEFINE f == [ d.tasks EXCEPT ![t] = task ]
  <1>1. /\ d = [ tasks |-> d.tasks, journal |-> d.journal, ledger |-> d.ledger,
                 reopened |-> d.reopened ]
        /\ d.tasks \in Seq(TaskRow) /\ d.journal \in Seq(ActionRow) /\ d.ledger \in Seq(LedgerRow)
        /\ d.reopened \in SUBSET Nat
    BY DEF Database
  <1>2. /\ f \in Seq(TaskRow) /\ DOMAIN f = DOMAIN d.tasks /\ Len(f) = Len(d.tasks)
        /\ f[t] = task /\ \A u \in DOMAIN d.tasks : u # t => f[u] = d.tasks[u]
    BY <1>1
  <1> HIDE DEF f
  <1>3. e = [ tasks |-> f, journal |-> d.journal, ledger |-> d.ledger, reopened |-> d.reopened ]
    BY <1>1 DEF f
  <1>4. e.tasks = f /\ e.journal = d.journal /\ e.ledger = d.ledger /\ e.reopened = d.reopened
    BY <1>3
  <1>5. e \in Database
    <2>1. [ tasks |-> f, journal |-> d.journal, ledger |-> d.ledger, reopened |-> d.reopened ]
            \in Database
      BY <1>1, <1>2, DatabaseOf
    <2> QED
      BY <1>3, <2>1, Zenon
  <1> QED
    BY <1>2, <1>4, <1>5, Zenon

(* How the status of a task is resolved. *)
LEMMA StatusMoves ==
    ASSUME NEW d, NEW t, d.tasks[t].status \in WorkTaskStatus
    PROVE  /\ ResolvedStatus(d, t) \in WorkTaskStatus
           /\ d.tasks[t].status \notin ActiveStatus => ResolvedStatus(d, t) = d.tasks[t].status
           /\ d.tasks[t].status \in ActiveStatus =>
                ResolvedStatus(d, t) \in ActiveStatus \cup {"completed"}
           /\ d.tasks[t].status \notin Early => ResolvedStatus(d, t) \notin Early
           /\ ResolvedStatus(d, t) = "partially_completed" =>
                d.tasks[t].status = "partially_completed" \/ Completed(d, t) + Rejected(d, t) > 0
           /\ /\ d.tasks[t].status = "ready" /\ Received(d, t) > 0
              /\ Received(d, t) \in Nat /\ Completed(d, t) \in Nat /\ Rejected(d, t) \in Nat
              => ResolvedStatus(d, t) \notin Early
  BY DEF ResolvedStatus, WorkTaskStatus, ActiveStatus, Early

(* Its status is brought up to date. *)
LEMMA SyncedKeeps ==
    ASSUME NEW d \in Database, NEW t \in Nullable(DOMAIN d.tasks), NEW e, e = Synced(d, t)
    PROVE  /\ e \in Database /\ Onward(d, e)
           /\ e.journal = d.journal /\ e.ledger = d.ledger
           /\ \A u \in DOMAIN d.tasks :
                /\ u # t => e.tasks[u] = d.tasks[u]
                /\ e.tasks[u].planned = d.tasks[u].planned
                /\ d.tasks[u].status \notin ActiveStatus => e.tasks[u].status = d.tasks[u].status
           /\ t # NULL => e.tasks[t].status = ResolvedStatus(d, t)
  <1>1. /\ d.tasks \in Seq(TaskRow) /\ \A u \in DOMAIN d.tasks : d.tasks[u] \in TaskRow
        /\ d.reopened \in SUBSET Nat
    <2>1. d.tasks \in Seq(TaskRow) /\ d.reopened \in SUBSET Nat
      BY DEF Database
    <2> QED
      BY <2>1, ElementOfSeq
  <1>2. CASE t = NULL
    <2>1. e = d
      BY <1>2 DEF Synced
    <2> QED
      BY <1>2, <2>1 DEF Onward
  <1>3. CASE t # NULL
    <2> DEFINE s == ResolvedStatus(d, t)
               task == [ d.tasks[t] EXCEPT !.status = s ]
    <2>1. t \in DOMAIN d.tasks /\ d.tasks[t] \in TaskRow
      BY <1>1, <1>3 DEF Nullable
    <2>2. d.tasks[t].status \in WorkTaskStatus
      BY <2>1 DEF TaskRow
    <2>3. /\ s \in WorkTaskStatus
          /\ d.tasks[t].status \notin ActiveStatus => s = d.tasks[t].status
          /\ d.tasks[t].status \in ActiveStatus => s \in ActiveStatus \cup {"completed"}
          /\ d.tasks[t].status \notin Early => s \notin Early
      BY <2>2, StatusMoves
    <2>4. e = [ d EXCEPT !.tasks = [ d.tasks EXCEPT ![t] = task ] ]
      BY <1>3 DEF Synced
    <2> HIDE DEF s
    <2>5. /\ task \in TaskRow /\ task.status = s
          /\ task.position = d.tasks[t].position /\ task.stage = d.tasks[t].stage
          /\ task.skippedBy = d.tasks[t].skippedBy /\ task.planned = d.tasks[t].planned
      BY <2>1, <2>3 DEF TaskRow
    <2> HIDE DEF task
    <2>6. /\ e \in Database
          /\ e.journal = d.journal /\ e.ledger = d.ledger /\ e.reopened = d.reopened
          /\ DOMAIN e.tasks = DOMAIN d.tasks /\ e.tasks[t] = task
          /\ \A u \in DOMAIN d.tasks : u # t => e.tasks[u] = d.tasks[u]
      BY <2>1, <2>4, <2>5, TaskReplaced
    <2>7. ASSUME NEW u \in DOMAIN d.tasks
          PROVE  /\ e.tasks[u].position = d.tasks[u].position /\ e.tasks[u].stage = d.tasks[u].stage
                 /\ e.tasks[u].skippedBy = d.tasks[u].skippedBy
                 /\ IsOpen(e, u) => IsOpen(d, u)
                 /\ e.tasks[u].status \in Early => d.tasks[u].status \in Early
                 /\ e.tasks[u].status = "waiting_previous" => d.tasks[u].status = "waiting_previous"
                 /\ d.tasks[u].status = "skipped" => e.tasks[u].status = "skipped"
                 /\ e.tasks[u].planned = d.tasks[u].planned
                 /\ d.tasks[u].status \notin ActiveStatus => e.tasks[u].status = d.tasks[u].status
      <3>1. CASE u = t
        BY <2>3, <2>5, <2>6, <3>1 DEF IsOpen, ActiveStatus, ClosedStatus
      <3>2. CASE u # t
        BY <2>6, <3>2 DEF IsOpen
      <3> QED
        BY <3>1, <3>2
    <2>8. e.tasks[t].status = s
      BY <2>5, <2>6
    <2> QED
      BY <2>6, <2>7, <2>8 DEF Onward, s
  <1> QED
    BY <1>2, <1>3
----------------------------------------------------------------------------
(* Writing a row.                                                           *)

(* A row of the database at hand: of one of its tasks and actions, and the  *)
(* mirror of a row in force if it is a compensation.                        *)
Fits(d, r) ==
    /\ r \in LedgerRow
    /\ r.task \in Nullable(DOMAIN d.tasks) /\ r.action \in Nullable(DOMAIN d.journal)
    /\ r.reverses # NULL =>
         /\ r.reverses \in InForce(d) /\ d.ledger[r.reverses].action # NULL
         /\ r = Mirror(d, r.reverses)

(* The ledger with a row more. *)
LEMMA RowAppended ==
    ASSUME NEW d, Typed(d), NEW r \in LedgerRow, NEW e, e = [ d EXCEPT !.ledger = Append(@, r) ],
           NEW n, n = Len(d.ledger) + 1
    PROVE  /\ e \in Database
           /\ e.tasks = d.tasks /\ e.journal = d.journal /\ e.reopened = d.reopened
           /\ e.ledger = Append(d.ledger, r)
           /\ DOMAIN e.ledger = DOMAIN d.ledger \cup {n} /\ n \notin DOMAIN d.ledger /\ n \in Nat
           /\ \A i \in DOMAIN d.ledger : e.ledger[i] = d.ledger[i] /\ i \in 1..(n - 1)
           /\ e.ledger[n] = r
  <1> DEFINE K == Append(d.ledger, r)
  <1>1. /\ d = [ tasks |-> d.tasks, journal |-> d.journal, ledger |-> d.ledger,
                 reopened |-> d.reopened ]
        /\ d.tasks \in Seq(TaskRow) /\ d.journal \in Seq(ActionRow) /\ d.ledger \in Seq(LedgerRow)
        /\ Len(d.ledger) \in Nat /\ DOMAIN d.ledger = 1..Len(d.ledger)
    BY DatabaseFields
  <1>2. d.reopened \in SUBSET Nat
    BY DEF Typed, Database
  <1>3. /\ K \in Seq(LedgerRow)
        /\ DOMAIN K = DOMAIN d.ledger \cup {n} /\ n \notin DOMAIN d.ledger /\ n \in Nat
        /\ \A i \in DOMAIN d.ledger : K[i] = d.ledger[i] /\ i \in 1..(n - 1)
        /\ K[n] = r
    BY <1>1
  <1> HIDE DEF K
  <1>4. e = [ tasks |-> d.tasks, journal |-> d.journal, ledger |-> K, reopened |-> d.reopened ]
    BY <1>1 DEF K
  <1>5. e.tasks = d.tasks /\ e.journal = d.journal /\ e.ledger = K /\ e.reopened = d.reopened
    BY <1>4
  <1>6. [ tasks |-> d.tasks, journal |-> d.journal, ledger |-> K, reopened |-> d.reopened ]
          \in Database
    BY <1>1, <1>2, <1>3, DatabaseOf
  <1>7. e \in Database
    BY <1>4, <1>6, Zenon
  <1>8. e.ledger = Append(d.ledger, r)
    BY <1>5 DEF K
  <1> QED
    BY <1>3, <1>5, <1>7, <1>8, Zenon

(* A row that fits leaves the tables sound, and a compensation takes what it *)
(* reverses out of force.                                                   *)
LEMMA RowTyped ==
    ASSUME NEW d, Typed(d), NEW r, Fits(d, r), NEW e, e = [ d EXCEPT !.ledger = Append(@, r) ]
    PROVE  /\ Typed(e)
           /\ r.reverses = NULL => InForce(e) = InForce(d) \cup {Len(d.ledger) + 1}
           /\ r.reverses # NULL => InForce(e) = InForce(d) \ {r.reverses}
  <1> DEFINE n == Len(d.ledger) + 1
  <1>0. r \in LedgerRow
    BY DEF Fits
  <1>1. /\ e \in Database
        /\ e.tasks = d.tasks /\ e.journal = d.journal /\ e.reopened = d.reopened
        /\ DOMAIN e.ledger = DOMAIN d.ledger \cup {n} /\ n \notin DOMAIN d.ledger /\ n \in Nat
        /\ \A i \in DOMAIN d.ledger : e.ledger[i] = d.ledger[i] /\ i \in 1..(n - 1)
        /\ e.ledger[n] = r
    BY <1>0, RowAppended
  <1> HIDE DEF n
  <1>2. Refer(d) /\ Mirrored(d)
    BY DEF Typed
  <1>3. InForce(d) \subseteq DOMAIN d.ledger
    BY DEF InForce
  <1>4. \A i \in DOMAIN e.ledger :
          /\ e.ledger[i].task \in Nullable(DOMAIN e.tasks)
          /\ e.ledger[i].action \in Nullable(DOMAIN e.journal)
          /\ e.ledger[i].reverses \in Nullable(1..(i - 1))
    <2>1. ASSUME NEW i \in DOMAIN d.ledger
          PROVE  /\ e.ledger[i].task \in Nullable(DOMAIN e.tasks)
                 /\ e.ledger[i].action \in Nullable(DOMAIN e.journal)
                 /\ e.ledger[i].reverses \in Nullable(1..(i - 1))
      BY <1>1, <1>2 DEF Refer
    <2>2. /\ e.ledger[n].task \in Nullable(DOMAIN e.tasks)
          /\ e.ledger[n].action \in Nullable(DOMAIN e.journal)
          /\ e.ledger[n].reverses \in Nullable(1..(n - 1))
      BY <1>1, <1>3 DEF Fits, Nullable
    <2> QED
      BY <1>1, <2>1, <2>2
  <1>5. Refer(e)
    BY <1>1, <1>2, <1>4 DEF Refer
  <1>6. \A i \in DOMAIN d.ledger : Mirror(e, i) = Mirror(d, i)
    BY <1>1 DEF Mirror
  <1>7. \A j \in Reversals(d) : d.ledger[j].reverses \in DOMAIN d.ledger
    BY MirrorFields
  <1>8. Reversals(e) = IF r.reverses = NULL THEN Reversals(d) ELSE Reversals(d) \cup {n}
    BY <1>1 DEF Reversals
  <1>9. \A j \in Reversals(d) : j \in DOMAIN d.ledger
    BY DEF Reversals
  <1>10. Mirrored(e)
    <2>1. ASSUME NEW j \in Reversals(d), NEW i, i = d.ledger[j].reverses
          PROVE  /\ e.ledger[j].reverses = i
                 /\ e.ledger[i].reverses = NULL /\ e.ledger[i].action # NULL
                 /\ e.ledger[j] = Mirror(e, i)
      <3>1. i \in DOMAIN d.ledger /\ j \in DOMAIN d.ledger
        BY <1>7, <1>9, <2>1, Zenon
      <3>2. /\ d.ledger[i].reverses = NULL /\ d.ledger[i].action # NULL
            /\ d.ledger[j] = Mirror(d, i)
        BY <1>2, <2>1 DEF Mirrored
      <3>3. e.ledger[i] = d.ledger[i] /\ e.ledger[j] = d.ledger[j] /\ Mirror(e, i) = Mirror(d, i)
        BY <1>1, <1>6, <3>1
      <3> QED
        BY <2>1, <3>2, <3>3, Zenon
    <2>2. ASSUME r.reverses # NULL, NEW i, i = r.reverses
          PROVE  /\ e.ledger[n].reverses = i /\ i \in DOMAIN d.ledger
                 /\ e.ledger[i].reverses = NULL /\ e.ledger[i].action # NULL
                 /\ e.ledger[n] = Mirror(e, i)
                 /\ \A j \in Reversals(d) : d.ledger[j].reverses # i
      <3>1. i \in InForce(d) /\ d.ledger[i].action # NULL /\ r = Mirror(d, i)
        BY <2>2 DEF Fits
      <3>2. d.ledger[i].reverses = NULL /\ \A j \in DOMAIN d.ledger : d.ledger[j].reverses # i
        BY <3>1 DEF InForce
      <3> QED
        BY <1>1, <1>3, <1>6, <1>9, <2>2, <3>1, <3>2
    <2>3. ASSUME NEW j \in Reversals(e), NEW k \in Reversals(e), e.ledger[j].reverses = e.ledger[k].reverses
          PROVE  j = k
      <3>1. CASE j \in Reversals(d) /\ k \in Reversals(d)
        BY <1>1, <1>2, <1>9, <2>3, <3>1 DEF Mirrored
      <3>2. CASE j = n /\ k = n
        BY <3>2
      <3>3. CASE r.reverses # NULL /\ j \in Reversals(d) /\ k = n
        BY <1>1, <1>9, <2>2, <2>3, <3>3, SMTT(30)
      <3>4. CASE r.reverses # NULL /\ j = n /\ k \in Reversals(d)
        BY <1>1, <1>9, <2>2, <2>3, <3>4
      <3> QED
        BY <1>8, <3>1, <3>2, <3>3, <3>4
    <2>4. ASSUME NEW j \in Reversals(e)
          PROVE  LET i == e.ledger[j].reverses IN
                 /\ e.ledger[i].reverses = NULL /\ e.ledger[i].action # NULL
                 /\ e.ledger[j] = Mirror(e, i)
      <3>1. CASE j \in Reversals(d)
        BY <2>1, <3>1, Zenon
      <3>2. CASE r.reverses # NULL /\ j = n
        BY <2>2, <3>2, Zenon
      <3> QED
        BY <1>8, <2>4, <3>1, <3>2
    <2> QED
      BY <2>3, <2>4 DEF Mirrored
  <1>11. Typed(e)
    BY <1>1, <1>5, <1>10 DEF Typed
  <1>12. \A j \in DOMAIN d.ledger : d.ledger[j].reverses # n
    <2> SUFFICES ASSUME NEW j \in DOMAIN d.ledger, d.ledger[j].reverses = n PROVE FALSE
      OBVIOUS
    <2>1. d.ledger[j].reverses \in Nullable(1..(j - 1)) /\ j \in 1..(n - 1)
      BY <1>1, <1>2 DEF Refer
    <2>2. n # NULL
      BY <1>1, NullIsNoValue
    <2> QED
      BY <1>1, <2>1, <2>2 DEF Nullable
  <1>13. ASSUME r.reverses = NULL PROVE InForce(e) = InForce(d) \cup {n}
    <2>1. \A i \in DOMAIN d.ledger : i # NULL
      BY <1>1, NullIsNoValue
    <2>2. n # NULL
      BY <1>1, NullIsNoValue
    <2>3. ASSUME NEW i \in DOMAIN d.ledger PROVE i \in InForce(e) <=> i \in InForce(d)
      BY <1>1, <1>13, <2>1, <2>3 DEF InForce
    <2>4. n \in InForce(e)
      BY <1>1, <1>12, <1>13, <2>2 DEF InForce
    <2>5. InForce(e) \subseteq DOMAIN d.ledger \cup {n}
      BY <1>1 DEF InForce
    <2> QED
      BY <1>3, <2>3, <2>4, <2>5
  <1>14. ASSUME r.reverses # NULL PROVE InForce(e) = InForce(d) \ {r.reverses}
    <2>1. ASSUME NEW i \in DOMAIN d.ledger
          PROVE  i \in InForce(e) <=> i \in InForce(d) /\ i # r.reverses
      BY <1>1, <2>1 DEF InForce
    <2>2. n \notin InForce(e)
      BY <1>1, <1>14 DEF InForce
    <2>3. InForce(e) \subseteq DOMAIN d.ledger \cup {n}
      BY <1>1 DEF InForce
    <2> QED
      BY <1>3, <2>1, <2>2, <2>3
  <1> QED
    BY <1>11, <1>13, <1>14 DEF n
(* What is read from the ledger alone. *)
LEMMA SameLedger ==
    ASSUME NEW d, NEW e, e.ledger = d.ledger
    PROVE  /\ Reversals(e) = Reversals(d) /\ InForce(e) = InForce(d)
           /\ Mirrored(e) <=> Mirrored(d)
           /\ OnePerPlace(e) <=> OnePerPlace(d)
           /\ NoneNegative(e) <=> NoneNegative(d)
           /\ \A T, reason : RowsOf(e, T, reason) = RowsOf(d, T, reason)
           /\ \A T, reason : Net(e, T, reason) = Net(d, T, reason)
           /\ \A T, reason : Gross(e, T, reason) = Gross(d, T, reason)
           /\ \A P : Stock(e, P) = Stock(d, P)
           /\ \A place : OnHand(e, place) = OnHand(d, place)
           /\ \A t : Received(e, t) = Received(d, t) /\ Completed(e, t) = Completed(d, t)
                     /\ Rejected(e, t) = Rejected(d, t) /\ Transferred(e, t) = Transferred(d, t)
                     /\ InWork(e, t) = InWork(d, t)
  <1>1. Reversals(e) = Reversals(d) /\ InForce(e) = InForce(d)
    BY DEF Reversals, InForce
  <1>2. \A i : Mirror(e, i) = Mirror(d, i)
    BY DEF Mirror
  <1>3. Mirrored(e) <=> Mirrored(d)
    BY <1>1, <1>2 DEF Mirrored
  <1>4. OnePerPlace(e) <=> OnePerPlace(d)
    BY DEF OnePerPlace
  <1>5. \A T, reason : RowsOf(e, T, reason) = RowsOf(d, T, reason)
    BY DEF RowsOf
  <1>6. ASSUME NEW T, NEW reason PROVE Net(e, T, reason) = Net(d, T, reason)
    <2>1. RowsOf(e, T, reason) = RowsOf(d, T, reason)
      BY <1>5
    <2> QED
      BY <1>1, <2>1 DEF Net
  <1>7. ASSUME NEW T, NEW reason PROVE Gross(e, T, reason) = Gross(d, T, reason)
    <2>1. RowsOf(e, T, reason) = RowsOf(d, T, reason)
      BY <1>5
    <2> QED
      BY <2>1 DEF Gross
  <1>8. ASSUME NEW P PROVE Stock(e, P) = Stock(d, P)
    BY DEF Stock, Arrivals, Departures
  <1>9. \A place : OnHand(e, place) = OnHand(d, place)
    BY <1>8 DEF OnHand
  <1>10. NoneNegative(e) <=> NoneNegative(d)
    BY <1>9 DEF NoneNegative
  <1>11. ASSUME NEW t
         PROVE  /\ Received(e, t) = Received(d, t) /\ Completed(e, t) = Completed(d, t)
                /\ Rejected(e, t) = Rejected(d, t) /\ Transferred(e, t) = Transferred(d, t)
                /\ InWork(e, t) = InWork(d, t)
    BY <1>6, <1>7 DEF Received, Completed, Rejected, Transferred, InWork
  <1> QED
    BY <1>1, <1>3, <1>4, <1>5, <1>6, <1>7, <1>8, <1>9, <1>10, <1>11

(* The keys and the types survive what moves tasks onward. *)
LEMMA OnwardTyped ==
    ASSUME NEW d, Typed(d), NEW e \in Database, Onward(d, e),
           e.journal = d.journal, e.ledger = d.ledger
    PROVE  Typed(e)
  <1>1. Mirrored(e)
    BY SameLedger DEF Typed
  <1>2. Refer(e)
    BY DEF Typed, Refer, Onward
  <1> QED
    BY <1>1, <1>2 DEF Typed

(* An action writes one row to a place at most. *)
FreePlace(d, r) ==
    r.action # NULL /\ r.to # NULL =>
        \A i \in DOMAIN d.ledger : ~(d.ledger[i].action = r.action /\ d.ledger[i].to = r.to)

(* The task that a row says receives is in work, or the bridge has made it   *)
(* ready.                                                                   *)
MayReceive(d, r) ==
    r.reason = "transfer_receive" /\ r.task # NULL =>
        \/ RowsOf(d, {r.task}, "transfer_receive") # {}
        \/ d.tasks[r.task].status # "waiting_previous" /\ r.reverses = NULL

(* A task is not skipped by what is written, and partly worked only when     *)
(* something was made or scrapped.                                          *)
Settles(d, e, t) ==
    /\ e.tasks[t].status = "skipped" => d.tasks[t].status = "skipped"
    /\ e.tasks[t].status = "partially_completed" =>
         d.tasks[t].status = "partially_completed" \/ Completed(e, t) + Rejected(e, t) > 0

(* A row inserted. *)
LEMMA RowInserted ==
    ASSUME NEW d, Sane(d), NEW r, Fits(d, r), FreePlace(d, r), MayReceive(d, r),
           NEW e, e = Inserted(d, r)
    PROVE  /\ Sane(e) /\ Onward(d, e)
           /\ e.journal = d.journal /\ e.ledger = Append(d.ledger, r)
           /\ r.reverses = NULL => InForce(e) = InForce(d) \cup {Len(d.ledger) + 1}
           /\ r.reverses # NULL => InForce(e) = InForce(d) \ {r.reverses}
           /\ \A t \in DOMAIN d.tasks :
                /\ t # r.task => e.tasks[t] = d.tasks[t]
                /\ e.tasks[t].planned = d.tasks[t].planned
                /\ d.tasks[t].status \notin ActiveStatus => e.tasks[t].status = d.tasks[t].status
                /\ Settles(d, e, t)
  <1> DEFINE x == [ d EXCEPT !.ledger = Append(@, r) ]
             n == Len(d.ledger) + 1
  <1>1. /\ Typed(d) /\ OnePerPlace(d) /\ OneOpen(d) /\ ReceivedInWork(d)
        /\ r \in LedgerRow /\ r.task \in Nullable(DOMAIN d.tasks)
    BY DEF Sane, Fits
  <1>2. /\ Typed(x)
        /\ r.reverses = NULL => InForce(x) = InForce(d) \cup {n}
        /\ r.reverses # NULL => InForce(x) = InForce(d) \ {r.reverses}
    BY <1>1, RowTyped
  <1>3. /\ x \in Database
        /\ x.tasks = d.tasks /\ x.journal = d.journal /\ x.reopened = d.reopened
        /\ x.ledger = Append(d.ledger, r)
        /\ DOMAIN x.ledger = DOMAIN d.ledger \cup {n} /\ n \notin DOMAIN d.ledger
        /\ \A i \in DOMAIN d.ledger : x.ledger[i] = d.ledger[i]
        /\ x.ledger[n] = r
    BY <1>1, RowAppended
  <1>4. e = Synced(x, r.task)
    BY DEF Inserted
  <1> HIDE DEF x, n
  <1>5. /\ e \in Database /\ Onward(x, e) /\ e.journal = x.journal /\ e.ledger = x.ledger
        /\ \A u \in DOMAIN x.tasks :
             /\ u # r.task => e.tasks[u] = x.tasks[u]
             /\ e.tasks[u].planned = x.tasks[u].planned
             /\ x.tasks[u].status \notin ActiveStatus => e.tasks[u].status = x.tasks[u].status
        /\ r.task # NULL => e.tasks[r.task].status = ResolvedStatus(x, r.task)
    BY <1>1, <1>3, <1>4, SyncedKeeps
  <1>6. Typed(e)
    BY <1>2, <1>5, OnwardTyped
  <1>7. Onward(d, e)
    BY <1>3, <1>5 DEF Onward, IsOpen
  <1>8. OnePerPlace(e)
    <2> SUFFICES ASSUME NEW i \in DOMAIN e.ledger, NEW j \in DOMAIN e.ledger,
                        e.ledger[i].action = e.ledger[j].action, e.ledger[i].action # NULL,
                        e.ledger[i].to = e.ledger[j].to, e.ledger[i].to # NULL
                 PROVE  i = j
      BY DEF OnePerPlace
    <2>1. CASE i \in DOMAIN d.ledger /\ j \in DOMAIN d.ledger
      BY <1>1, <1>3, <1>5, <2>1 DEF OnePerPlace
    <2>2. CASE i = n /\ j \in DOMAIN d.ledger
      BY <1>3, <1>5, <2>2 DEF FreePlace
    <2>3. CASE i \in DOMAIN d.ledger /\ j = n
      BY <1>3, <1>5, <2>3 DEF FreePlace
    <2> QED
      BY <1>3, <1>5, <2>1, <2>2, <2>3
  <1>9. OneOpen(e)
    BY <1>1, <1>7 DEF OneOpen, Onward
  <1>10. ReceivedInWork(e)
    <2> SUFFICES ASSUME NEW t \in DOMAIN e.tasks \ e.reopened,
                        RowsOf(e, {t}, "transfer_receive") # {}, e.tasks[t].status \in Early
                 PROVE  FALSE
      BY DEF ReceivedInWork
    <2>1. t \in DOMAIN d.tasks \ d.reopened /\ d.tasks[t].status \in Early
      BY <1>7 DEF Onward
    <2>2. RowsOf(d, {t}, "transfer_receive") = {}
      BY <1>1, <2>1 DEF ReceivedInWork
    <2>3. PICK i \in DOMAIN e.ledger : e.ledger[i].task \in {t} /\ e.ledger[i].reason = "transfer_receive"
      BY DEF RowsOf
    <2>4. i = n
      BY <1>3, <1>5, <2>2, <2>3 DEF RowsOf
    <2>5. r.task = t /\ r.reason = "transfer_receive" /\ t # NULL
      <3>1. t \in Nat
        BY <1>1, <2>1, DatabaseFields
      <3> QED
        BY <1>3, <1>5, <2>3, <2>4, <3>1, NullIsNoValue
    <2>6. d.tasks[t].status = "ready" /\ r.reverses = NULL
      BY <2>1, <2>2, <2>5 DEF MayReceive, Early
    <2>7. Received(x, t) = Received(d, t) + r.quantity
      <3>1. r.quantity \in Nat
        BY <1>1 DEF LedgerRow
      <3>3. Net(x, {t}, "transfer_receive") = Net(d, {t}, "transfer_receive")
              + (IF r.task \in {t} /\ r.reason = "transfer_receive" THEN r.quantity ELSE 0)
        BY <1>1, <1>3, <2>6, <3>1, NetsWithRow, SMTT(30)
      <3> QED
        BY <2>5, <3>3 DEF Received
    <2>8. Received(d, t) \in Nat /\ r.quantity \in Nat \ {0}
      BY <1>1, NetInForce DEF Received, LedgerRow
    <2>9. /\ Received(x, t) > 0 /\ Received(x, t) \in Nat
          /\ Completed(x, t) \in Nat /\ Rejected(x, t) \in Nat
      <3>1. Completed(x, t) \in Nat /\ Rejected(x, t) \in Nat
        BY <1>2, NetInForce DEF Completed, Rejected
      <3> QED
        BY <2>7, <2>8, <3>1
    <2>10. x.tasks[t].status = "ready" /\ x.tasks[t].status \in WorkTaskStatus
      BY <1>3, <2>6 DEF WorkTaskStatus
    <2>11. ResolvedStatus(x, t) \notin Early
      BY <2>9, <2>10, StatusMoves
    <2> QED
      BY <1>5, <2>5, <2>11
  <1>11. Sane(e)
    BY <1>6, <1>8, <1>9, <1>10 DEF Sane
  <1>12. InForce(e) = InForce(x)
    BY <1>5, SameLedger
  <1>13. ASSUME NEW t \in DOMAIN d.tasks PROVE Settles(d, e, t)
    <2>1. CASE t = r.task
      <3>1. r.task # NULL /\ d.tasks[t].status \in WorkTaskStatus
        <4>1. t \in Nat /\ d.tasks[t] \in TaskRow
          BY <1>1, DatabaseFields
        <4> QED
          BY <2>1, <4>1, NullIsNoValue DEF TaskRow
      <3>2. e.tasks[t].status = ResolvedStatus(x, t) /\ x.tasks[t].status = d.tasks[t].status
        BY <1>3, <1>5, <2>1, <3>1
      <3>3. /\ x.tasks[t].status \notin ActiveStatus => e.tasks[t].status = x.tasks[t].status
            /\ x.tasks[t].status \in ActiveStatus => e.tasks[t].status \in ActiveStatus \cup {"completed"}
            /\ e.tasks[t].status = "partially_completed" =>
                 x.tasks[t].status = "partially_completed" \/ Completed(x, t) + Rejected(x, t) > 0
        BY <3>1, <3>2, StatusMoves
      <3>4. Completed(e, t) = Completed(x, t) /\ Rejected(e, t) = Rejected(x, t)
        BY <1>5, SameLedger
      <3> QED
        BY <3>2, <3>3, <3>4 DEF Settles, ActiveStatus
    <2>2. CASE t # r.task
      <3>1. e.tasks[t] = d.tasks[t]
        BY <1>3, <1>5, <2>2
      <3> QED
        BY <3>1 DEF Settles
    <2> QED
      BY <2>1, <2>2
  <1> QED
    BY <1>2, <1>3, <1>5, <1>7, <1>11, <1>12, <1>13 DEF n
(* The places that action a has taken material to. *)
Reached(d, a) == { d.ledger[i].to : i \in { j \in DOMAIN d.ledger : d.ledger[j].action = a } }

(* What a request does to the ledger by a row of its own. *)
Wrote(d, e, r) ==
    /\ Sound(e) /\ Onward(d, e)
    /\ e.journal = d.journal /\ e.ledger = Append(d.ledger, r)
    /\ InForce(e) = InForce(d) \cup {Len(d.ledger) + 1}
    /\ Reached(e, r.action) = Reached(d, r.action) \cup {r.to}
    /\ \A t \in DOMAIN d.tasks :
         /\ t # r.task => e.tasks[t] = d.tasks[t]
         /\ e.tasks[t].planned = d.tasks[t].planned
         /\ d.tasks[t].status \notin ActiveStatus => e.tasks[t].status = d.tasks[t].status
         /\ Settles(d, e, t)
    /\ r.from # NULL => OnHand(d, r.from) >= r.quantity

(* A row recorded. *)
LEMMA RowRecorded ==
    ASSUME NEW d, Sound(d), NEW task \in Nullable(DOMAIN d.tasks), NEW reason \in Reasons,
           NEW q \in Nat \ {0}, NEW from \in Nullable(Place), NEW to \in Nullable(Place),
           NEW a \in DOMAIN d.journal, to = NULL \/ to \notin Reached(d, a),
           reason = "transfer_receive" /\ task # NULL => d.tasks[task].status # "waiting_previous",
           NEW e, e = Recorded(d, Row(task, reason, q, from, to), a), e # Failed
    PROVE  Wrote(d, e, [ Row(task, reason, q, from, to) EXCEPT !.action = a ])
  <1> DEFINE r == [ Row(task, reason, q, from, to) EXCEPT !.action = a ]
  <1>1. /\ r = [ task |-> task, reason |-> reason, quantity |-> q, from |-> from, to |-> to,
                 action |-> a, reverses |-> NULL ]
        /\ r.task = task /\ r.reason = reason /\ r.quantity = q /\ r.from = from /\ r.to = to
        /\ r.action = a /\ r.reverses = NULL
    BY DEF Row
  <1>2. e = Inserted(d, r) /\ ~(from # NULL /\ OnHand(d, from) < q)
    BY DEF Recorded, Row
  <1>3. Sane(d) /\ NoneNegative(d) /\ Typed(d)
    BY DEF Sound, Sane
  <1>4. /\ DOMAIN d.tasks = 1..Len(d.tasks) /\ Len(d.tasks) \in Nat
        /\ DOMAIN d.journal = 1..Len(d.journal) /\ Len(d.journal) \in Nat
        /\ DOMAIN d.ledger = 1..Len(d.ledger) /\ Len(d.ledger) \in Nat
        /\ d.ledger \in Seq(LedgerRow)
    BY <1>3, DatabaseFields
  <1> HIDE DEF r
  <1>5. Fits(d, r)
    <2>1. task \in Nullable(Nat) /\ a \in Nullable(Nat) /\ NULL \in Nullable(Nat)
      BY <1>4 DEF Nullable
    <2>2. r \in LedgerRow
      BY <1>1, <2>1 DEF LedgerRow
    <2> QED
      BY <1>1, <2>2 DEF Fits, Nullable
  <1>6. FreePlace(d, r)
    BY <1>1 DEF FreePlace, Reached
  <1>7. MayReceive(d, r)
    BY <1>1 DEF MayReceive
  <1>8. /\ Sane(e) /\ Onward(d, e)
        /\ e.journal = d.journal /\ e.ledger = Append(d.ledger, r)
        /\ InForce(e) = InForce(d) \cup {Len(d.ledger) + 1}
        /\ \A t \in DOMAIN d.tasks :
             /\ t # r.task => e.tasks[t] = d.tasks[t]
             /\ e.tasks[t].planned = d.tasks[t].planned
             /\ d.tasks[t].status \notin ActiveStatus => e.tasks[t].status = d.tasks[t].status
             /\ Settles(d, e, t)
    BY <1>1, <1>2, <1>3, <1>5, <1>6, <1>7, RowInserted
  <1>9. Reached(e, a) = Reached(d, a) \cup {to}
    <2> DEFINE n == Len(d.ledger) + 1
    <2>1. /\ DOMAIN e.ledger = DOMAIN d.ledger \cup {n}
          /\ \A i \in DOMAIN d.ledger : e.ledger[i] = d.ledger[i]
          /\ e.ledger[n] = r
      BY <1>4, <1>8
    <2> HIDE DEF n
    <2> QED
      BY <1>1, <2>1 DEF Reached
  <1>10. NoneNegative(e)
    <2> SUFFICES ASSUME NEW place \in Place PROVE OnHand(e, place) >= 0
      BY DEF NoneNegative
    <2>1. OnHand(d, place) >= 0
      BY <1>3 DEF NoneNegative
    <2>2. r.quantity \in Nat /\ r.reverses = NULL /\ e.ledger = Append(d.ledger, r)
      BY <1>1, <1>8
    <2>3. OnHand(e, place) = OnHand(d, place) + (IF to = place THEN q ELSE 0)
                                              - (IF from = place THEN q ELSE 0)
      <3>1. OnHand(e, place) = OnHand(d, place) + (IF r.to = place THEN r.quantity ELSE 0)
                                                - (IF r.from = place THEN r.quantity ELSE 0)
        BY <1>3, <2>2, OnHandWithRow
      <3> QED
        BY <1>1, <3>1
    <2>4. OnHand(d, place) \in Int
      <3>1. place # NULL
        BY NullIsNoValue
      <3> QED
        BY <1>3, <3>1, OnHandType
    <2>5. from = place => OnHand(d, place) >= q
      <3>1. place # NULL
        BY NullIsNoValue
      <3> QED
        BY <1>2, <2>4, <3>1
    <2> QED
      BY <2>1, <2>3, <2>4, <2>5
  <1>11. r.from # NULL => OnHand(d, r.from) >= r.quantity
    <2> SUFFICES ASSUME from # NULL PROVE OnHand(d, from) >= q
      BY <1>1
    <2>1. from \in Place
      BY DEF Nullable
    <2>2. OnHand(d, from) \in Int
      BY <1>3, OnHandType
    <2> QED
      BY <1>2, <2>2
  <1>12. Sound(e)
    BY <1>8, <1>10 DEF Sound
  <1>13. Reached(e, r.action) = Reached(d, r.action) \cup {r.to}
    BY <1>1, <1>9
  <1>14. Wrote(d, e, r)
    BY <1>8, <1>11, <1>12, <1>13 DEF Wrote
  <1> QED
    BY <1>14 DEF r
----------------------------------------------------------------------------
(* The journal.                                                             *)

(* An entry of the database at hand. *)
MayLog(d, entry) ==
    /\ entry \in ActionRow
    /\ entry.task \in Nullable(DOMAIN d.tasks) /\ entry.to \in Nullable(DOMAIN d.tasks)
    /\ entry.issue \in Nullable(1..(Len(d.journal) + 1)) /\ entry.dependsOn \subseteq DOMAIN d.journal

(* What is logged leaves the tables sound, and has no rows yet. *)
LEMMA Logged ==
    ASSUME NEW d, Sound(d), NEW entry, MayLog(d, entry),
           NEW e, e = [ d EXCEPT !.journal = Append(@, entry) ]
    PROVE  /\ Sound(e) /\ e.tasks = d.tasks /\ e.ledger = d.ledger /\ e.reopened = d.reopened
           /\ e.journal = Append(d.journal, entry)
           /\ Len(e.journal) = Len(d.journal) + 1
           /\ NextAction(d) \in DOMAIN e.journal /\ e.journal[NextAction(d)] = entry
           /\ \A b \in DOMAIN d.journal : b \in DOMAIN e.journal /\ e.journal[b] = d.journal[b]
           /\ DOMAIN e.journal = DOMAIN d.journal \cup {NextAction(d)}
           /\ Reached(e, NextAction(d)) = {}
  <1> DEFINE K == Append(d.journal, entry)
             n == Len(d.journal) + 1
  <1>1. Typed(d) /\ Refer(d) /\ entry \in ActionRow
    BY DEF Sound, Sane, Typed, MayLog
  <1>2. /\ d = [ tasks |-> d.tasks, journal |-> d.journal, ledger |-> d.ledger,
                 reopened |-> d.reopened ]
        /\ d.tasks \in Seq(TaskRow) /\ d.journal \in Seq(ActionRow) /\ d.ledger \in Seq(LedgerRow)
        /\ Len(d.journal) \in Nat /\ DOMAIN d.journal = 1..Len(d.journal)
    BY <1>1, DatabaseFields
  <1>3. d.reopened \in SUBSET Nat
    BY <1>1 DEF Typed, Database
  <1>4. /\ K \in Seq(ActionRow) /\ Len(K) = n
        /\ DOMAIN K = DOMAIN d.journal \cup {n} /\ n \notin DOMAIN d.journal /\ n \in Nat
        /\ DOMAIN d.journal = 1..(n - 1)
        /\ \A b \in DOMAIN d.journal : K[b] = d.journal[b]
        /\ K[n] = entry
    BY <1>1, <1>2
  <1>5. e = [ tasks |-> d.tasks, journal |-> K, ledger |-> d.ledger, reopened |-> d.reopened ]
    BY <1>2
  <1>6. NextAction(d) = n
    BY DEF NextAction
  <1>7. MayLog(d, entry) /\ 1..(Len(d.journal) + 1) = DOMAIN d.journal \cup {n}
    BY <1>2
  <1> HIDE DEF K, n
  <1>8. e.tasks = d.tasks /\ e.journal = K /\ e.ledger = d.ledger /\ e.reopened = d.reopened
    BY <1>5
  <1>9. e \in Database
    <2>1. [ tasks |-> d.tasks, journal |-> K, ledger |-> d.ledger, reopened |-> d.reopened ]
            \in Database
      BY <1>2, <1>3, <1>4, DatabaseOf
    <2> QED
      BY <1>5, <2>1, Zenon
  <1>10. Refer(e)
    <2>1. ASSUME NEW t \in DOMAIN e.tasks PROVE e.tasks[t].skippedBy \in Nullable(DOMAIN e.journal)
      BY <1>1, <1>4, <1>8 DEF Refer, Nullable
    <2>2. ASSUME NEW b \in DOMAIN e.journal
          PROVE  /\ e.journal[b].task \in Nullable(DOMAIN e.tasks)
                 /\ e.journal[b].to \in Nullable(DOMAIN e.tasks)
                 /\ e.journal[b].issue \in Nullable(DOMAIN e.journal)
                 /\ e.journal[b].dependsOn \subseteq 1..(b - 1)
      <3>1. CASE b \in DOMAIN d.journal
        BY <1>1, <1>4, <1>8, <3>1 DEF Refer, Nullable
      <3>2. CASE b = n
        BY <1>4, <1>7, <1>8, <3>2 DEF MayLog, Nullable
      <3> QED
        BY <1>4, <1>8, <3>1, <3>2
    <2>3. ASSUME NEW i \in DOMAIN e.ledger
          PROVE  /\ e.ledger[i].task \in Nullable(DOMAIN e.tasks)
                 /\ e.ledger[i].action \in Nullable(DOMAIN e.journal)
                 /\ e.ledger[i].reverses \in Nullable(1..(i - 1))
      BY <1>1, <1>4, <1>8 DEF Refer, Nullable
    <2>4. e.reopened \subseteq DOMAIN e.tasks
      BY <1>1, <1>8 DEF Refer
    <2> QED
      BY <2>1, <2>2, <2>3, <2>4 DEF Refer
  <1>11. Typed(e)
    BY <1>1, <1>8, <1>9, <1>10, SameLedger DEF Typed
  <1>12. Sound(e)
    <2>1. OnePerPlace(e) /\ NoneNegative(e)
      BY <1>8, SameLedger DEF Sound, Sane
    <2>2. OneOpen(e)
      BY <1>8 DEF Sound, Sane, OneOpen, IsOpen
    <2>3. ReceivedInWork(e)
      BY <1>8 DEF Sound, Sane, ReceivedInWork, RowsOf
    <2> QED
      BY <1>11, <2>1, <2>2, <2>3 DEF Sound, Sane
  <1>13. Reached(e, n) = {}
    <2>1. ASSUME NEW i \in DOMAIN e.ledger PROVE e.ledger[i].action # n
      <3>1. d.ledger[i].action \in Nullable(DOMAIN d.journal)
        BY <1>1, <1>8 DEF Refer
      <3> QED
        BY <1>4, <1>8, <3>1, NullIsNoValue DEF Nullable
    <2> QED
      BY <2>1 DEF Reached
  <1> QED
    BY <1>4, <1>6, <1>8, <1>12, <1>13 DEF K, n
----------------------------------------------------------------------------
(* Changing the tasks.                                                      *)

(* The tasks of e for those of d: their lines stay, a task that is opened or *)
(* put back was reopened, and a new one finds its line without an open task. *)
MayBecome(d, e) ==
    /\ DOMAIN d.tasks \subseteq DOMAIN e.tasks
    /\ d.reopened \subseteq e.reopened /\ e.reopened \subseteq DOMAIN e.tasks
    /\ \A t \in DOMAIN e.tasks : e.tasks[t].skippedBy \in Nullable(DOMAIN d.journal)
    /\ \A t \in DOMAIN d.tasks :
         /\ e.tasks[t].position = d.tasks[t].position /\ e.tasks[t].stage = d.tasks[t].stage
         /\ \/ t \in e.reopened
            \/ /\ IsOpen(e, t) => IsOpen(d, t)
               /\ e.tasks[t].status \in Early => d.tasks[t].status \in Early
    /\ \A t \in DOMAIN e.tasks \ DOMAIN d.tasks : \A u \in DOMAIN e.tasks :
         /\ IsOpen(e, u) /\ e.tasks[u].position = e.tasks[t].position
         /\ e.tasks[u].stage = e.tasks[t].stage
         => u = t

LEMMA TasksChanged ==
    ASSUME NEW d, Sound(d), NEW e \in Database, e.ledger = d.ledger, e.journal = d.journal,
           MayBecome(d, e)
    PROVE  Sound(e)
  <1>1. Typed(d) /\ Refer(d)
    BY DEF Sound, Sane, Typed
  <1>2. Refer(e)
    <2>1. DOMAIN d.tasks \subseteq DOMAIN e.tasks
      BY DEF MayBecome
    <2>2. \A a \in DOMAIN e.journal :
            /\ e.journal[a].task \in Nullable(DOMAIN e.tasks)
            /\ e.journal[a].to \in Nullable(DOMAIN e.tasks)
            /\ e.journal[a].issue \in Nullable(DOMAIN e.journal)
            /\ e.journal[a].dependsOn \subseteq 1..(a - 1)
      BY <1>1, <2>1 DEF Refer, Nullable
    <2>3. \A i \in DOMAIN e.ledger :
            /\ e.ledger[i].task \in Nullable(DOMAIN e.tasks)
            /\ e.ledger[i].action \in Nullable(DOMAIN e.journal)
            /\ e.ledger[i].reverses \in Nullable(1..(i - 1))
      BY <1>1, <2>1 DEF Refer, Nullable
    <2> QED
      BY <2>2, <2>3 DEF Refer, MayBecome
  <1>3. Typed(e)
    BY <1>1, <1>2, SameLedger DEF Typed
  <1>4. OnePerPlace(e) /\ NoneNegative(e)
    BY SameLedger DEF Sound, Sane
  <1>5. OneOpen(e)
    <2> SUFFICES ASSUME NEW t \in DOMAIN e.tasks \ e.reopened, NEW u \in DOMAIN e.tasks \ e.reopened,
                        IsOpen(e, t), IsOpen(e, u),
                        e.tasks[t].position = e.tasks[u].position, e.tasks[t].stage = e.tasks[u].stage
                 PROVE  t = u
      BY DEF OneOpen
    <2>1. CASE t \in DOMAIN d.tasks /\ u \in DOMAIN d.tasks
      <3>1. IsOpen(d, t) /\ IsOpen(d, u) /\ t \notin d.reopened /\ u \notin d.reopened
        BY <2>1 DEF MayBecome
      <3>2. d.tasks[t].position = d.tasks[u].position /\ d.tasks[t].stage = d.tasks[u].stage
        BY <2>1 DEF MayBecome
      <3> QED
        BY <2>1, <3>1, <3>2 DEF Sound, Sane, OneOpen
    <2>2. CASE t \notin DOMAIN d.tasks
      BY <2>2 DEF MayBecome
    <2>3. CASE u \notin DOMAIN d.tasks
      BY <2>3 DEF MayBecome
    <2> QED
      BY <2>1, <2>2, <2>3
  <1>6. ReceivedInWork(e)
    <2> SUFFICES ASSUME NEW t \in DOMAIN e.tasks \ e.reopened,
                        RowsOf(e, {t}, "transfer_receive") # {}, e.tasks[t].status \in Early
                 PROVE  FALSE
      BY DEF ReceivedInWork
    <2>1. RowsOf(d, {t}, "transfer_receive") # {}
      BY DEF RowsOf
    <2>2. t \in DOMAIN d.tasks
      <3>1. PICK i \in DOMAIN d.ledger : d.ledger[i].task = t
        BY <2>1 DEF RowsOf
      <3>2. t \in Nat
        <4>1. t \in DOMAIN e.tasks
          OBVIOUS
        <4> QED
          BY <1>3, <4>1, DatabaseFields
      <3> QED
        BY <1>1, <3>1, <3>2, NullIsNoValue DEF Refer, Nullable
    <2>3. t \notin d.reopened /\ d.tasks[t].status \in Early
      BY <2>2 DEF MayBecome
    <2> QED
      BY <2>1, <2>2, <2>3 DEF Sound, Sane, ReceivedInWork
  <1> QED
    BY <1>3, <1>4, <1>5, <1>6 DEF Sound, Sane

(* What moves tasks onward may be. *)
LEMMA OnwardMay ==
    ASSUME NEW d, Sound(d), NEW e, Onward(d, e)
    PROVE  MayBecome(d, e)
  <1>1. Refer(d)
    BY DEF Sound, Sane, Typed
  <1> QED
    BY <1>1 DEF MayBecome, Onward, Refer

(* One thing after another. *)
LEMMA OnwardTwice ==
    ASSUME NEW d, NEW e, NEW f, Onward(d, e), Onward(e, f)
    PROVE  Onward(d, f)
  BY DEF Onward

LEMMA OnwardSame ==
    ASSUME NEW d, NEW e, e.tasks = d.tasks, e.reopened = d.reopened
    PROVE  Onward(d, e)
  BY DEF Onward, IsOpen
----------------------------------------------------------------------------
(* What becomes of the quantities of the tasks.                             *)

(* No portion is sent on to another storage group, which sets the plan of   *)
(* the receiving task to the portion.                                       *)
Unsent == AutoTransfer \subseteq {FALSE} \/ CrossSpg \subseteq {LastStage}

(* Nothing is skipped on the way from d to e, what is partly worked had      *)
(* something made or scrapped, and what is received is planned for.  The     *)
(* quantities made and scrapped never fall.                                  *)
Later(d, e) ==
    /\ DOMAIN d.tasks \subseteq DOMAIN e.tasks
    /\ \A t \in DOMAIN d.tasks :
         /\ Settles(d, e, t)
         /\ Completed(d, t) <= Completed(e, t) /\ Rejected(d, t) <= Rejected(e, t)
         /\ Unsent => /\ d.tasks[t].planned <= e.tasks[t].planned
                      /\ Received(e, t) <= Received(d, t) \/ Received(e, t) <= e.tasks[t].planned
    /\ \A t \in DOMAIN e.tasks \ DOMAIN d.tasks :
         /\ e.tasks[t].status = "partially_completed" => Completed(e, t) + Rejected(e, t) > 0
         /\ Unsent => Received(e, t) <= e.tasks[t].planned

(* The quantities of a task are numbers. *)
LEMMA FiguresType ==
    ASSUME NEW d, Typed(d), NEW t
    PROVE  /\ Received(d, t) \in Nat /\ Transferred(d, t) \in Nat
           /\ Completed(d, t) \in Nat /\ Rejected(d, t) \in Nat
           /\ t \in DOMAIN d.tasks => d.tasks[t].planned \in Nat
  <1>1. t \in DOMAIN d.tasks => d.tasks[t].planned \in Nat
    BY DatabaseFields DEF TaskRow
  <1> QED
    BY <1>1, NetInForce DEF Received, Transferred, Completed, Rejected

(* A task that is not there has no rows. *)
LEMMA NoRowsYet ==
    ASSUME NEW d, Typed(d), NEW t, t \notin DOMAIN d.tasks, t # NULL
    PROVE  \A reason : /\ RowsOf(d, {t}, reason) = {}
                       /\ Net(d, {t}, reason) = 0 /\ Gross(d, {t}, reason) = 0
  <1> SUFFICES ASSUME NEW reason
               PROVE  /\ RowsOf(d, {t}, reason) = {}
                      /\ Net(d, {t}, reason) = 0 /\ Gross(d, {t}, reason) = 0
    OBVIOUS
  <1>1. RowsOf(d, {t}, reason) = {}
    BY DEF RowsOf, Typed, Refer, Nullable
  <1>2. Amount(d.ledger, {}) = 0
    BY AmountOfFew
  <1>3. Gross(d, {t}, reason) = 0
    BY <1>1, <1>2 DEF Gross
  <1>4. Net(d, {t}, reason) = 0
    <2>1. Net(d, {t}, reason) \in Nat /\ Net(d, {t}, reason) <= Gross(d, {t}, reason)
      BY NetInForce
    <2> QED
      BY <1>3, <2>1
  <1> QED
    BY <1>1, <1>3, <1>4

(* The rows of d are those of e, which may have more of them. *)
LEMMA GrossGrows ==
    ASSUME NEW d, Typed(d), NEW e, Typed(e), DOMAIN d.ledger \subseteq DOMAIN e.ledger,
           \A i \in DOMAIN d.ledger : e.ledger[i] = d.ledger[i]
    PROVE  \A T, reason : /\ Gross(d, T, reason) <= Gross(e, T, reason)
                          /\ Gross(d, T, reason) \in Nat /\ Gross(e, T, reason) \in Nat
  <1> SUFFICES ASSUME NEW T, NEW reason
               PROVE  /\ Gross(d, T, reason) <= Gross(e, T, reason)
                      /\ Gross(d, T, reason) \in Nat /\ Gross(e, T, reason) \in Nat
    OBVIOUS
  <1> DEFINE I == RowsOf(d, T, reason)
             J == RowsOf(e, T, reason)
  <1>1. I \subseteq J /\ J \subseteq DOMAIN e.ledger /\ \A i \in I : e.ledger[i].quantity = d.ledger[i].quantity
    BY DEF RowsOf
  <1>2. Gross(d, T, reason) = Amount(d.ledger, I) /\ Gross(e, T, reason) = Amount(e.ledger, J)
    BY DEF Gross
  <1> HIDE DEF I, J
  <1>3. Amount(e.ledger, I) = Amount(d.ledger, I)
    BY <1>1, AmountOfSame
  <1>4. Counted(e.ledger, J)
    BY <1>1, RowsCounted
  <1>5. /\ Amount(e.ledger, J) = Amount(e.ledger, I) + Amount(e.ledger, J \ I)
        /\ Amount(e.ledger, I) \in Nat /\ Amount(e.ledger, J \ I) \in Nat
    BY <1>1, <1>4, AmountOfPart
  <1> QED
    BY <1>2, <1>3, <1>5

(* The tasks and the quantities are the same. *)
LEMMA LaterSame ==
    ASSUME NEW d, Typed(d), NEW e, e.tasks = d.tasks, e.ledger = d.ledger
    PROVE  Later(d, e)
  <1>1. \A t : /\ Received(e, t) = Received(d, t)
               /\ Completed(e, t) = Completed(d, t) /\ Rejected(e, t) = Rejected(d, t)
    BY SameLedger
  <1>2. \A t : /\ Received(d, t) \in Nat /\ Completed(d, t) \in Nat /\ Rejected(d, t) \in Nat
               /\ t \in DOMAIN d.tasks => d.tasks[t].planned \in Nat
    BY FiguresType
  <1> QED
    BY <1>1, <1>2 DEF Later, Settles

(* Tasks are changed, and the ledger is the same. *)
LEMMA LaterMoved ==
    ASSUME NEW d, Typed(d), NEW e, DOMAIN e.tasks = DOMAIN d.tasks, e.ledger = d.ledger,
           \A t \in DOMAIN d.tasks : Settles(d, e, t) /\ (Unsent => d.tasks[t].planned <= e.tasks[t].planned)
    PROVE  Later(d, e)
  <1>1. \A t : /\ Received(e, t) = Received(d, t)
               /\ Completed(e, t) = Completed(d, t) /\ Rejected(e, t) = Rejected(d, t)
    BY SameLedger
  <1>2. \A t : /\ Received(d, t) \in Nat /\ Completed(d, t) \in Nat /\ Rejected(d, t) \in Nat
    BY FiguresType
  <1> QED
    BY <1>1, <1>2 DEF Later

(* One thing after another. *)
LEMMA LaterTwice ==
    ASSUME NEW d, Typed(d), NEW e, Typed(e), NEW f, Typed(f), Later(d, e), Later(e, f)
    PROVE  Later(d, f)
  <1>1. ASSUME NEW v, Typed(v), NEW t
        PROVE  /\ Received(v, t) \in Nat /\ Completed(v, t) \in Nat /\ Rejected(v, t) \in Nat
               /\ t \in DOMAIN v.tasks => v.tasks[t].planned \in Nat
    BY <1>1, FiguresType
  <1>2. ASSUME NEW t \in DOMAIN d.tasks
        PROVE  /\ Settles(d, f, t)
               /\ Completed(d, t) <= Completed(f, t) /\ Rejected(d, t) <= Rejected(f, t)
               /\ Unsent => /\ d.tasks[t].planned <= f.tasks[t].planned
                            /\ Received(f, t) <= Received(d, t) \/ Received(f, t) <= f.tasks[t].planned
    <2>1. t \in DOMAIN e.tasks /\ t \in DOMAIN f.tasks
      BY DEF Later
    <2>2. /\ Settles(d, e, t)
          /\ Completed(d, t) <= Completed(e, t) /\ Rejected(d, t) <= Rejected(e, t)
          /\ Unsent => /\ d.tasks[t].planned <= e.tasks[t].planned
                       /\ Received(e, t) <= Received(d, t) \/ Received(e, t) <= e.tasks[t].planned
      BY DEF Later
    <2>3. /\ Settles(e, f, t)
          /\ Completed(e, t) <= Completed(f, t) /\ Rejected(e, t) <= Rejected(f, t)
          /\ Unsent => /\ e.tasks[t].planned <= f.tasks[t].planned
                       /\ Received(f, t) <= Received(e, t) \/ Received(f, t) <= f.tasks[t].planned
      BY <2>1 DEF Later
    <2>4. Settles(d, f, t)
      BY <1>1, <2>2, <2>3 DEF Settles
    <2> QED
      BY <1>1, <2>1, <2>2, <2>3, <2>4
  <1>3. ASSUME NEW t \in DOMAIN f.tasks \ DOMAIN d.tasks
        PROVE  /\ f.tasks[t].status = "partially_completed" => Completed(f, t) + Rejected(f, t) > 0
               /\ Unsent => Received(f, t) <= f.tasks[t].planned
    <2>1. CASE t \in DOMAIN e.tasks
      <3>1. /\ e.tasks[t].status = "partially_completed" => Completed(e, t) + Rejected(e, t) > 0
            /\ Unsent => Received(e, t) <= e.tasks[t].planned
        BY <2>1 DEF Later
      <3>2. /\ f.tasks[t].status = "partially_completed" =>
                 e.tasks[t].status = "partially_completed" \/ Completed(f, t) + Rejected(f, t) > 0
            /\ Completed(e, t) <= Completed(f, t) /\ Rejected(e, t) <= Rejected(f, t)
            /\ Unsent => /\ e.tasks[t].planned <= f.tasks[t].planned
                         /\ Received(f, t) <= Received(e, t) \/ Received(f, t) <= f.tasks[t].planned
        BY <2>1 DEF Later, Settles
      <3> QED
        BY <1>1, <2>1, <3>1, <3>2
    <2>2. CASE t \notin DOMAIN e.tasks
      BY <2>2 DEF Later
    <2> QED
      BY <2>1, <2>2
  <1>4. DOMAIN d.tasks \subseteq DOMAIN f.tasks
    BY DEF Later
  <1> QED
    BY <1>2, <1>3, <1>4 DEF Later

(* A row of its own, unless a task receives by it. *)
LEMMA WroteLater ==
    ASSUME NEW d, Sound(d), NEW r, r.quantity \in Nat, r.reverses = NULL, NEW e, Wrote(d, e, r)
    PROVE  /\ \A t \in DOMAIN d.tasks :
                /\ Settles(d, e, t) /\ e.tasks[t].planned = d.tasks[t].planned
                /\ Completed(d, t) <= Completed(e, t) /\ Rejected(d, t) <= Rejected(e, t)
                /\ r.reason # "transfer_receive" \/ r.task # t => Received(e, t) = Received(d, t)
           /\ DOMAIN e.tasks = DOMAIN d.tasks
           /\ r.reason # "transfer_receive" \/ r.task \notin DOMAIN d.tasks => Later(d, e)
  <1>1. /\ Typed(d) /\ Typed(e) /\ Onward(d, e) /\ e.ledger = Append(d.ledger, r)
        /\ \A t \in DOMAIN d.tasks : Settles(d, e, t) /\ e.tasks[t].planned = d.tasks[t].planned
    BY DEF Wrote, Sound, Sane
  <1>2. ASSUME NEW t \in DOMAIN d.tasks
        PROVE  /\ Completed(d, t) <= Completed(e, t) /\ Rejected(d, t) <= Rejected(e, t)
               /\ r.reason # "transfer_receive" \/ r.task # t => Received(e, t) = Received(d, t)
               /\ Received(d, t) \in Nat /\ d.tasks[t].planned \in Nat
    <2>1. ASSUME NEW reason
          PROVE  /\ Net(e, {t}, reason) = Net(d, {t}, reason)
                      + (IF r.task \in {t} /\ r.reason = reason THEN r.quantity ELSE 0)
                 /\ Gross(e, {t}, reason) = Gross(d, {t}, reason)
                      + (IF r.task \in {t} /\ r.reason = reason THEN r.quantity ELSE 0)
      <3>1. Typed(d) /\ e.ledger = Append(d.ledger, r)
        BY <1>1
      <3>2. PICK T : T = {t}
        OBVIOUS
      <3>3. Net(e, T, reason) = Net(d, T, reason)
                 + (IF r.task \in T /\ r.reason = reason THEN r.quantity ELSE 0)
        BY <3>1, NetsWithRow
      <3>4. Gross(e, T, reason) = Gross(d, T, reason)
                 + (IF r.task \in T /\ r.reason = reason THEN r.quantity ELSE 0)
        BY <3>1, NetsWithRow
      <3> QED
        BY <3>2, <3>3, <3>4
    <2>2. /\ Received(d, t) \in Nat /\ Completed(d, t) \in Nat /\ Rejected(d, t) \in Nat
          /\ d.tasks[t].planned \in Nat
      BY <1>1, FiguresType
    <2>3. Completed(d, t) <= Completed(e, t)
      <3>1. Completed(e, t) = Completed(d, t)
              + (IF r.task \in {t} /\ r.reason = "complete" THEN r.quantity ELSE 0)
        BY <2>1 DEF Completed
      <3> QED
        BY <2>2, <3>1
    <2>4. Rejected(d, t) <= Rejected(e, t)
      <3>1. Rejected(e, t) = Rejected(d, t)
              + (IF r.task \in {t} /\ r.reason = "scrap" THEN r.quantity ELSE 0)
        BY <2>1 DEF Rejected
      <3> QED
        BY <2>2, <3>1
    <2>5. r.reason # "transfer_receive" \/ r.task # t => Received(e, t) = Received(d, t)
      BY <2>1, <2>2 DEF Received
    <2> QED
      BY <2>2, <2>3, <2>4, <2>5
  <1>3. DOMAIN e.tasks = DOMAIN d.tasks
    BY <1>1 DEF Onward
  <1>4. r.reason # "transfer_receive" \/ r.task \notin DOMAIN d.tasks => Later(d, e)
    BY <1>1, <1>2, <1>3 DEF Later
  <1> QED
    BY <1>1, <1>2, <1>3, <1>4

----------------------------------------------------------------------------
(* What the tasks use up.                                                   *)

(* What a task has completed and scrapped, reversals taken off. *)
Used(d, t) == Net(d, {t}, "complete") + Net(d, {t}, "scrap")

(* From d to e no task comes to live on what others received, and none that *)
(* does lives more on it.                                                   *)
Lives(d, e) ==
    \A t : \/ Used(e, t) <= Received(e, t)
           \/ Used(e, t) - Received(e, t) <= Used(d, t) - Received(d, t)

LEMMA UsedType ==
    ASSUME NEW d, Typed(d), NEW t
    PROVE  /\ Used(d, t) \in Nat /\ Used(d, t) <= Completed(d, t) + Rejected(d, t)
           /\ Received(d, t) \in Nat /\ Completed(d, t) \in Nat /\ Rejected(d, t) \in Nat
  <1>1. /\ Net(d, {t}, "complete") \in Nat /\ Completed(d, t) \in Nat
        /\ Net(d, {t}, "complete") <= Completed(d, t)
    BY NetInForce DEF Completed
  <1>2. /\ Net(d, {t}, "scrap") \in Nat /\ Rejected(d, t) \in Nat
        /\ Net(d, {t}, "scrap") <= Rejected(d, t)
    BY NetInForce DEF Rejected
  <1>3. Received(d, t) \in Nat
    BY NetInForce DEF Received
  <1> QED
    BY <1>1, <1>2, <1>3 DEF Used

LEMMA LivesTwice ==
    ASSUME NEW d, Typed(d), NEW e, Typed(e), NEW f, Typed(f), Lives(d, e), Lives(e, f)
    PROVE  Lives(d, f)
  <1> SUFFICES ASSUME NEW t
               PROVE  \/ Used(f, t) <= Received(f, t)
                      \/ Used(f, t) - Received(f, t) <= Used(d, t) - Received(d, t)
    BY DEF Lives
  <1>1. /\ Used(d, t) \in Nat /\ Received(d, t) \in Nat
        /\ Used(e, t) \in Nat /\ Received(e, t) \in Nat
        /\ Used(f, t) \in Nat /\ Received(f, t) \in Nat
    BY UsedType
  <1>2. \/ Used(e, t) <= Received(e, t)
        \/ Used(e, t) - Received(e, t) <= Used(d, t) - Received(d, t)
    BY DEF Lives
  <1>3. \/ Used(f, t) <= Received(f, t)
        \/ Used(f, t) - Received(f, t) <= Used(e, t) - Received(e, t)
    BY DEF Lives
  <1> QED
    BY <1>1, <1>2, <1>3

(* Nothing less is received, and nothing more used. *)
LEMMA LivesOnMore ==
    ASSUME NEW d, Typed(d), NEW e, Typed(e),
           \A t : Used(e, t) <= Used(d, t) /\ Received(d, t) <= Received(e, t)
    PROVE  Lives(d, e)
  <1> SUFFICES ASSUME NEW t PROVE Used(e, t) - Received(e, t) <= Used(d, t) - Received(d, t)
    BY DEF Lives
  <1>1. /\ Used(d, t) \in Nat /\ Received(d, t) \in Nat
        /\ Used(e, t) \in Nat /\ Received(e, t) \in Nat
    BY UsedType
  <1> QED
    BY <1>1

LEMMA LivesSame ==
    ASSUME NEW d, Typed(d), NEW e, Typed(e), e.ledger = d.ledger
    PROVE  Lives(d, e)
  <1>1. ASSUME NEW t PROVE Used(e, t) <= Used(d, t) /\ Received(d, t) <= Received(e, t)
    <2>1. Used(e, t) = Used(d, t) /\ Received(e, t) = Received(d, t)
      BY SameLedger DEF Used
    <2>2. Used(d, t) \in Nat /\ Received(d, t) \in Nat
      BY UsedType
    <2> QED
      BY <2>1, <2>2
  <1> QED
    BY <1>1, LivesOnMore

(* What direct rows add to the sums. *)
LEMMA NetsWithRows ==
    ASSUME NEW d, Typed(d), NEW e, Typed(e), DOMAIN d.ledger \subseteq DOMAIN e.ledger,
           \A i \in DOMAIN d.ledger : e.ledger[i] = d.ledger[i],
           \A i \in DOMAIN e.ledger \ DOMAIN d.ledger : e.ledger[i].reverses = NULL,
           NEW T, NEW reason
    PROVE  /\ Net(e, T, reason) = Net(d, T, reason)
                + Amount(e.ledger, RowsOf(e, T, reason) \ DOMAIN d.ledger)
           /\ Amount(e.ledger, RowsOf(e, T, reason) \ DOMAIN d.ledger) \in Nat
  <1> DEFINE A == RowsOf(d, T, reason) \ Reversals(d)
             B == RowsOf(d, T, reason) \cap Reversals(d)
             X == RowsOf(e, T, reason) \ Reversals(e)
             Y == RowsOf(e, T, reason) \cap Reversals(e)
             N == RowsOf(e, T, reason) \ DOMAIN d.ledger
  <1>1. Y = B
    BY DEF RowsOf, Reversals
  <1>2. A \subseteq X /\ X \ A = N
    BY DEF RowsOf, Reversals
  <1>3. /\ A \subseteq DOMAIN d.ledger /\ B \subseteq DOMAIN d.ledger
        /\ X \subseteq DOMAIN e.ledger
    BY DEF RowsOf
  <1>4. /\ Net(d, T, reason) = Amount(d.ledger, A) - Amount(d.ledger, B)
        /\ Net(e, T, reason) = Amount(e.ledger, X) - Amount(e.ledger, Y)
    BY DEF Net
  <1> HIDE DEF A, B, X, Y, N
  <1>5. Counted(e.ledger, X)
    BY <1>3, RowsCounted
  <1>6. /\ Amount(e.ledger, X) = Amount(e.ledger, A) + Amount(e.ledger, N)
        /\ Amount(e.ledger, A) \in Nat /\ Amount(e.ledger, N) \in Nat
    BY <1>2, <1>5, AmountOfPart
  <1>7. Amount(e.ledger, A) = Amount(d.ledger, A) /\ Amount(e.ledger, B) = Amount(d.ledger, B)
    <2>1. /\ \A i \in A : e.ledger[i].quantity = d.ledger[i].quantity
          /\ \A i \in B : e.ledger[i].quantity = d.ledger[i].quantity
      BY <1>3
    <2> QED
      BY <2>1, AmountOfSame
  <1>8. Amount(d.ledger, B) \in Nat
    BY <1>3, RowsCounted
  <1>9. Net(e, T, reason) = Net(d, T, reason) + Amount(e.ledger, N)
    BY <1>1, <1>4, <1>6, <1>7, <1>8
  <1> QED
    BY <1>6, <1>9 DEF N

(* e goes on from d without a new action. *)
Continues(d, e) == Sound(e) /\ Onward(d, e) /\ e.journal = d.journal

(* The status or the plan of one task. *)
LEMMA TaskMoved ==
    ASSUME NEW d, Sound(d), NEW t \in DOMAIN d.tasks, NEW task \in TaskRow,
           task.position = d.tasks[t].position, task.stage = d.tasks[t].stage,
           task.skippedBy = d.tasks[t].skippedBy,
           task.status # d.tasks[t].status =>
             task.status = "ready" /\ d.tasks[t].status = "waiting_previous",
           NEW e, e = [ d EXCEPT !.tasks = [ d.tasks EXCEPT ![t] = task ] ]
    PROVE  /\ Continues(d, e) /\ e.ledger = d.ledger /\ e.tasks[t] = task
           /\ \A u \in DOMAIN d.tasks : u # t => e.tasks[u] = d.tasks[u]
  <1>1. d \in Database
    BY DEF Sound, Sane, Typed
  <1>2. /\ e \in Database
        /\ e.journal = d.journal /\ e.ledger = d.ledger /\ e.reopened = d.reopened
        /\ DOMAIN e.tasks = DOMAIN d.tasks /\ e.tasks[t] = task
        /\ \A u \in DOMAIN d.tasks : u # t => e.tasks[u] = d.tasks[u]
    BY <1>1, TaskReplaced
  <1>3. ASSUME NEW u \in DOMAIN d.tasks
        PROVE  /\ e.tasks[u].position = d.tasks[u].position /\ e.tasks[u].stage = d.tasks[u].stage
               /\ e.tasks[u].skippedBy = d.tasks[u].skippedBy
               /\ IsOpen(e, u) => IsOpen(d, u)
               /\ e.tasks[u].status \in Early => d.tasks[u].status \in Early
               /\ e.tasks[u].status = "waiting_previous" => d.tasks[u].status = "waiting_previous"
               /\ d.tasks[u].status = "skipped" => e.tasks[u].status = "skipped"
    <2>1. CASE u = t
      BY <1>2, <2>1 DEF IsOpen, Early, ClosedStatus
    <2>2. CASE u # t
      BY <1>2, <2>2 DEF IsOpen
    <2> QED
      BY <2>1, <2>2
  <1>4. Onward(d, e)
    BY <1>2, <1>3 DEF Onward
  <1>5. Sound(e)
    BY <1>2, <1>4, OnwardMay, TasksChanged
  <1> QED
    BY <1>2, <1>4, <1>5 DEF Continues
----------------------------------------------------------------------------
(* What a request does to the tables, one thing at a time.                  *)

(* The tasks of d are tasks of e, on the same line, and skipped if they were.*)
SameLines(d, e) ==
    /\ DOMAIN d.tasks \subseteq DOMAIN e.tasks /\ e.reopened = d.reopened
    /\ \A u \in DOMAIN d.tasks :
         /\ e.tasks[u].position = d.tasks[u].position /\ e.tasks[u].stage = d.tasks[u].stage
         /\ d.tasks[u].status = "skipped" => e.tasks[u].status = "skipped"

(* From d to e the rows G, and they alone, are compensated. *)
TookBack(d, e, G) ==
    /\ Sane(e) /\ Onward(d, e) /\ e.journal = d.journal
    /\ DOMAIN d.ledger \subseteq DOMAIN e.ledger
    /\ \A i \in DOMAIN d.ledger : e.ledger[i] = d.ledger[i]
    /\ \A i \in DOMAIN e.ledger \ DOMAIN d.ledger : e.ledger[i].reverses \in G
    /\ InForce(e) = InForce(d) \ G
    /\ \A t \in DOMAIN d.tasks : e.tasks[t].planned = d.tasks[t].planned /\ Settles(d, e, t)

(* The entry of an action is replaced by one with the same keys. *)
EntryChanged(d, e, a, entry) ==
    /\ Sound(e) /\ e.tasks = d.tasks /\ e.ledger = d.ledger /\ e.reopened = d.reopened
    /\ DOMAIN e.journal = DOMAIN d.journal /\ e.journal[a] = entry
    /\ \A b \in DOMAIN d.journal : b # a => e.journal[b] = d.journal[b]

(* The entry of a reversed action. *)
ReversedEntry(d, a) ==
    [ d.journal[a] EXCEPT !.active = FALSE, !.transfer = CancelledIfAccepted(d.journal[a].transfer) ]

(* Action a, and nothing else, is reversed. *)
TakenBack(d, e, a) ==
    /\ Uncompensated(d, a) # {}
    /\ \E x : /\ Sound(x) /\ TookBack(d, x, Uncompensated(d, a))
              /\ EntryChanged(x, e, a, ReversedEntry(d, a))

(* The stage of the task of row i. *)
StageOf(d, i) == d.tasks[d.ledger[i].task].stage

(* Rows i and i + 1 are two sides of one thing that an action did. *)
Paired(d, i, first, second) ==
    /\ i \in DOMAIN d.ledger /\ i + 1 \in DOMAIN d.ledger
    /\ d.ledger[i].reason = first /\ d.ledger[i + 1].reason = second
    /\ d.ledger[i].quantity = d.ledger[i + 1].quantity
    /\ d.ledger[i].action = d.ledger[i + 1].action /\ d.ledger[i].action # NULL

(* A transfer: sent from the store or from what the sender completed, and    *)
(* received by a task of the section it went to, which is a later one.       *)
Handed(d, i) ==
    /\ Paired(d, i, "transfer_send", "transfer_receive")
    /\ d.ledger[i + 1].task \in DOMAIN d.tasks
    /\ d.ledger[i + 1].from = NULL /\ d.ledger[i + 1].to = NULL
    /\ \E done \in 0..(StageOf(d, i + 1) - 1) : d.ledger[i].to = At(StageOf(d, i + 1), done)
    /\ \/ d.ledger[i].task = NULL /\ \E s \in Stages : d.ledger[i].from = StoreFor(s)
       \/ d.ledger[i].task \in DOMAIN d.tasks /\ d.ledger[i].from = Output(StageOf(d, i))

(* A good portion: what it consumed and what came of it. *)
Made(d, i) ==
    /\ Paired(d, i, "transform_consume", "complete")
    /\ d.ledger[i].task \in DOMAIN d.tasks /\ d.ledger[i + 1].task = d.ledger[i].task
    /\ d.ledger[i].from = Input(StageOf(d, i)) /\ d.ledger[i].to = NULL
    /\ d.ledger[i + 1].from = NULL /\ d.ledger[i + 1].to = Output(StageOf(d, i))

(* Scrap, a release or a return. *)
Scrapped(d, i) ==
    /\ d.ledger[i].reason = "scrap" /\ d.ledger[i].task \in DOMAIN d.tasks
    /\ d.ledger[i].from = Input(StageOf(d, i)) /\ d.ledger[i].to = ScrapStore(StageOf(d, i))

Released(d, i) ==
    /\ d.ledger[i].reason = "final_release" /\ d.ledger[i].task \in DOMAIN d.tasks
    /\ StageOf(d, i) = LastStage
    /\ d.ledger[i].from = Output(LastStage) /\ d.ledger[i].to = FinishedGoods

Returned(d, i) ==
    /\ d.ledger[i].reason = "return_to_stock" /\ d.ledger[i].task \in DOMAIN d.tasks
    /\ d.ledger[i].from = Input(StageOf(d, i)) /\ d.ledger[i].to = NULL

(* What the store held at first. *)
Stocked(d, i) ==
    /\ d.ledger[i].reason = "manual_in" /\ d.ledger[i].task = NULL
    /\ d.ledger[i].from = NULL /\ \E s \in Stages : d.ledger[i].to = StoreFor(s)

Proper(d, i) ==
    \/ Stocked(d, i) \/ Scrapped(d, i) \/ Released(d, i) \/ Returned(d, i)
    \/ Handed(d, i) \/ Handed(d, i - 1) \/ Made(d, i) \/ Made(d, i - 1)

Handing == { "transfer_send", "transfer_receive" }

(* A transfer of the journal is in the ledger, once, and depends on nothing;*)
(* no other action hands anything over.                                     *)
Entered(d, a) ==
    IF d.journal[a].type = "transfer_send"
    THEN /\ d.journal[a].transfer = "accepted" <=> d.journal[a].active
         /\ d.journal[a].dependsOn = {} /\ d.journal[a].to \in DOMAIN d.tasks
         /\ \E i \in DOMAIN d.ledger :
              /\ Paired(d, i, "transfer_send", "transfer_receive")
              /\ d.ledger[i].action = a /\ d.ledger[i].quantity = d.journal[a].quantity
              /\ d.ledger[i].task = d.journal[a].task /\ d.ledger[i + 1].task = d.journal[a].to
              /\ \A j \in DOMAIN d.ledger : d.ledger[j].action = a => j \in { i, i + 1 }
    ELSE /\ d.journal[a].transfer # "accepted"
         /\ \A j \in DOMAIN d.ledger : d.ledger[j].action = a => d.ledger[j].reason \notin Handing

(* Tasks, actions and rows of d are those of e. *)
Outlives(d, e) ==
    /\ DOMAIN d.tasks \subseteq DOMAIN e.tasks
    /\ \A t \in DOMAIN d.tasks : e.tasks[t].stage = d.tasks[t].stage
    /\ DOMAIN d.ledger \subseteq DOMAIN e.ledger
    /\ \A i \in DOMAIN d.ledger : e.ledger[i] = d.ledger[i]

(* The rows that come to the ledger are proper, direct, and of action a. *)
Grows(d, e, a) ==
    /\ Outlives(d, e)
    /\ \A i \in DOMAIN e.ledger \ DOMAIN d.ledger :
         e.ledger[i].action = a /\ e.ledger[i].reverses = NULL /\ Proper(e, i)

(* An action is logged and posts its rows. *)
Posted(d, e, entry) ==
    /\ e.journal = Append(d.journal, entry) /\ entry.active = TRUE
    /\ Grows(d, e, NextAction(d)) /\ Entered(e, NextAction(d))

(* A transfer whose rows are taken back is superseded. *)
Superseded(d, e, a) ==
    /\ d.journal[a].transfer # "accepted"
    /\ EntryChanged(d, e, a, [ d.journal[a] EXCEPT !.transfer = "amended" ])

(* One such thing, with what it does to tasks and quantities. *)
Moves(d, e) ==
    /\ Sound(e) /\ SameLines(d, e) /\ Later(d, e)
    /\ \/ e.journal = d.journal /\ e.ledger = d.ledger
       \/ \E entry : Posted(d, e, entry)
       \/ \E a \in DOMAIN d.journal : TakenBack(d, e, a) \/ Superseded(d, e, a)

(* What rows and actions say of each other. *)
Shaped(d) ==
    /\ \A i \in DOMAIN d.ledger : d.ledger[i].reverses = NULL => Proper(d, i)
    /\ \A i \in DOMAIN d.ledger :
         d.ledger[i].reverses = NULL /\ d.ledger[i].action # NULL
           => (i \in InForce(d) <=> d.journal[d.ledger[i].action].active = TRUE)
    /\ \A a \in DOMAIN d.journal : Entered(d, a)

(* Transfers are cancelled and corrected, and not reversed from the journal,*)
(* which does not look at what the receiving task has in work.              *)
KeptOutOfJournal == "transfer_send" \notin FromJournal

(* A change after which no task uses up what others received. *)
Change(d, e) == Moves(d, e) /\ (Shaped(d) /\ KeptOutOfJournal => Lives(d, e))

(* Sound databases that a request does not leave by such changes. *)
Closed(S) == \A d \in S : Sound(d) /\ \A e : Change(d, e) => e \in S

(* Nor by any, such as the reversal that a correction makes first. *)
ClosedUnderMoves(S) == \A d \in S : Sound(d) /\ \A e : Moves(d, e) => e \in S
----------------------------------------------------------------------------
(* Transfers.                                                               *)

LEMMA BridgedSound ==
    ASSUME NEW d, Sound(d), NEW t \in DOMAIN d.tasks, NEW e, e = Bridged(d, t)
    PROVE  /\ Continues(d, e) /\ e.ledger = d.ledger /\ e.tasks[t].status # "waiting_previous"
           /\ Later(d, e)
  <1>0. Typed(d)
    BY DEF Sound, Sane
  <1>1. CASE d.tasks[t].status = "waiting_previous"
    <2> DEFINE task == [ d.tasks[t] EXCEPT !.status = "ready" ]
    <2>1. e = [ d EXCEPT !.tasks = [ d.tasks EXCEPT ![t] = task ] ]
      BY <1>1 DEF Bridged
    <2>2. d.tasks[t] \in TaskRow
      BY DatabaseFields DEF Sound, Sane
    <2>3. /\ task \in TaskRow /\ task.status = "ready"
          /\ task.position = d.tasks[t].position /\ task.stage = d.tasks[t].stage
          /\ task.skippedBy = d.tasks[t].skippedBy /\ task.planned = d.tasks[t].planned
      BY <2>2 DEF TaskRow, WorkTaskStatus
    <2> HIDE DEF task
    <2>4. /\ Continues(d, e) /\ e.ledger = d.ledger /\ e.tasks[t] = task
          /\ \A u \in DOMAIN d.tasks : u # t => e.tasks[u] = d.tasks[u]
      BY <1>1, <2>1, <2>3, TaskMoved
    <2>5. \A u \in DOMAIN d.tasks : Settles(d, e, u) /\ d.tasks[u].planned <= e.tasks[u].planned
      <3> SUFFICES ASSUME NEW u \in DOMAIN d.tasks
                   PROVE  Settles(d, e, u) /\ d.tasks[u].planned <= e.tasks[u].planned
        OBVIOUS
      <3>1. d.tasks[u].planned \in Nat
        BY <1>0, FiguresType
      <3> QED
        BY <2>3, <2>4, <3>1 DEF Settles
    <2>6. Later(d, e)
      BY <1>0, <2>4, <2>5, LaterMoved DEF Continues, Onward
    <2> QED
      BY <2>3, <2>4, <2>6
  <1>2. CASE d.tasks[t].status # "waiting_previous"
    <2>1. e = d
      BY <1>2 DEF Bridged
    <2> QED
      BY <1>0, <1>2, <2>1, OnwardSame, LaterSame DEF Continues
  <1> QED
    BY <1>1, <1>2

LEMMA PlanExpandedSound ==
    ASSUME NEW d, Sound(d), NEW t \in DOMAIN d.tasks, NEW e, e = PlanExpanded(d, t)
    PROVE  /\ Continues(d, e) /\ e.ledger = d.ledger
           /\ \A u \in DOMAIN d.tasks : Settles(d, e, u) /\ d.tasks[u].planned <= e.tasks[u].planned
           /\ d # Failed => Received(e, t) <= e.tasks[t].planned
  <1>0. Typed(d)
    BY DEF Sound, Sane
  <1>1. CASE d # Failed /\ Received(d, t) > d.tasks[t].planned
    <2> DEFINE q == Received(d, t)
               task == [ d.tasks[t] EXCEPT !.planned = q ]
    <2>1. e = [ d EXCEPT !.tasks = [ d.tasks EXCEPT ![t] = task ] ]
      BY <1>1 DEF PlanExpanded
    <2>2. d.tasks[t] \in TaskRow
      BY <1>0, DatabaseFields
    <2>3. q \in Nat
      BY <1>0, NetInForce DEF Received
    <2>8. q > d.tasks[t].planned /\ d.tasks[t].planned \in Nat
      BY <1>0, <1>1, FiguresType
    <2>9. Received(e, t) = q \/ e.ledger # d.ledger
      BY SameLedger
    <2> HIDE DEF q
    <2>4. /\ task \in TaskRow /\ task.status = d.tasks[t].status /\ task.planned = q
          /\ task.position = d.tasks[t].position /\ task.stage = d.tasks[t].stage
          /\ task.skippedBy = d.tasks[t].skippedBy
      BY <2>2, <2>3 DEF TaskRow
    <2> HIDE DEF task
    <2>5. task.status # d.tasks[t].status =>
            task.status = "ready" /\ d.tasks[t].status = "waiting_previous"
      BY <2>4
    <2>6. /\ task.position = d.tasks[t].position /\ task.stage = d.tasks[t].stage
          /\ task.skippedBy = d.tasks[t].skippedBy /\ task \in TaskRow
      BY <2>4
    <2>7. /\ Continues(d, e) /\ e.ledger = d.ledger /\ e.tasks[t] = task
          /\ \A u \in DOMAIN d.tasks : u # t => e.tasks[u] = d.tasks[u]
      BY <2>1, <2>5, <2>6, TaskMoved
    <2>10. ASSUME NEW u \in DOMAIN d.tasks
           PROVE  Settles(d, e, u) /\ d.tasks[u].planned <= e.tasks[u].planned
      <3>1. d.tasks[u].planned \in Nat
        BY <1>0, FiguresType
      <3> QED
        BY <2>3, <2>4, <2>7, <2>8, <3>1 DEF Settles
    <2>11. Received(e, t) <= e.tasks[t].planned
      BY <2>3, <2>4, <2>7, <2>9
    <2> QED
      BY <2>7, <2>10, <2>11
  <1>2. CASE ~(d # Failed /\ Received(d, t) > d.tasks[t].planned)
    <2>1. e = d
      BY <1>2 DEF PlanExpanded
    <2>3. /\ Received(d, t) \in Nat /\ \A u \in DOMAIN d.tasks : d.tasks[u].planned \in Nat
      BY <1>0, FiguresType
    <2>4. d # Failed => Received(e, t) <= e.tasks[t].planned
      BY <1>2, <2>1, <2>3
    <2> QED
      BY <2>1, <2>3, <2>4, OnwardSame DEF Continues, Settles
  <1> QED
    BY <1>1, <1>2

(* The two rows of a transfer. *)
SendRow(d, from, place, t, q, a) ==
    [ Row(from, "transfer_send", q, place, At(d.tasks[t].stage, place[2])) EXCEPT !.action = a ]
ReceiveRow(t, q, a) == [ Row(t, "transfer_receive", q, NULL, NULL) EXCEPT !.action = a ]

(* The transfer is recorded. *)
HandedOver(d, e, from, place, t, q, a) ==
    /\ Continues(d, e)
    /\ e.ledger = Append(Append(d.ledger, SendRow(d, from, place, t, q, a)), ReceiveRow(t, q, a))

LEMMA DeliveredSound ==
    ASSUME NEW d, Sound(d), NEW from \in Nullable(DOMAIN d.tasks), NEW place \in Place,
           NEW t \in DOMAIN d.tasks, NEW q \in Nat \ {0}, NEW a \in DOMAIN d.journal,
           Reached(d, a) = {}, NEW e, e = Delivered(d, from, place, t, q, a), e # Failed
    PROVE  HandedOver(d, e, from, place, t, q, a) /\ Later(d, e)
  <1> DEFINE b == Bridged(d, t)
             to == At(d.tasks[t].stage, place[2])
             s == Recorded(b, Row(from, "transfer_send", q, place, to), a)
             r == Recorded(s, Row(t, "transfer_receive", q, NULL, NULL), a)
  <1>1. e = PlanExpanded(r, t)
    BY DEF Delivered
  <1>2. /\ Continues(d, b) /\ b.ledger = d.ledger /\ b.tasks[t].status # "waiting_previous"
        /\ Later(d, b)
    BY BridgedSound
  <1>3. r # Failed
    BY <1>1 DEF PlanExpanded
  <1>4. s # Failed
    BY <1>3 DEF Recorded
  <1>5. to \in Place
    <2>1. d.tasks[t] \in TaskRow
      BY DatabaseFields DEF Sound, Sane
    <2>2. d.tasks[t].stage \in 1..LastStage /\ LastStage \in Nat /\ place[2] \in 0..LastStage
      BY <2>1, TaskFlowConstants DEF TaskRow, Stages, Place
    <2> QED
      BY <2>2 DEF At, Place
  <1>6. NULL \notin Place /\ place \in Nullable(Place) /\ to \in Nullable(Place)
        /\ NULL \in Nullable(Place)
    BY <1>5, NullIsNoValue DEF Nullable
  <1>7. Reached(b, a) = {}
    BY <1>2 DEF Reached
  <1>8. DOMAIN b.tasks = DOMAIN d.tasks /\ b.journal = d.journal /\ Sound(b)
    BY <1>2 DEF Continues, Onward
  <1>9. "transfer_send" \in Reasons /\ "transfer_receive" \in Reasons
    BY DEF Reasons
  <1> HIDE DEF b, to
  <1>10. Wrote(b, s, [ Row(from, "transfer_send", q, place, to) EXCEPT !.action = a ])
    <2> HIDE DEF r
    <2> QED
      BY <1>4, <1>6, <1>7, <1>8, <1>9, RowRecorded
  <1> HIDE DEF s
  <1>11. /\ Sound(s) /\ Onward(b, s) /\ s.journal = b.journal
         /\ s.ledger = Append(b.ledger, [ Row(from, "transfer_send", q, place, to) EXCEPT !.action = a ])
    BY <1>10 DEF Wrote
  <1>12. s.tasks[t].status # "waiting_previous" /\ DOMAIN s.tasks = DOMAIN d.tasks
    BY <1>2, <1>8, <1>11 DEF Onward
  <1>13. t \in Nullable(DOMAIN s.tasks) /\ a \in DOMAIN s.journal
    BY <1>8, <1>11, <1>12 DEF Nullable
  <1>14. Wrote(s, r, ReceiveRow(t, q, a))
    BY <1>3, <1>6, <1>9, <1>11, <1>12, <1>13, RowRecorded DEF ReceiveRow
  <1> HIDE DEF r
  <1>15. /\ Sound(r) /\ Onward(s, r) /\ r.journal = s.journal
         /\ r.ledger = Append(s.ledger, ReceiveRow(t, q, a))
    BY <1>14 DEF Wrote
  <1>16. t \in DOMAIN r.tasks
    BY <1>12, <1>15 DEF Onward
  <1>17. /\ Continues(r, e) /\ e.ledger = r.ledger
         /\ \A u \in DOMAIN r.tasks : Settles(r, e, u) /\ r.tasks[u].planned <= e.tasks[u].planned
         /\ Received(e, t) <= e.tasks[t].planned
    BY <1>1, <1>3, <1>15, <1>16, PlanExpandedSound
  <1>18. Onward(d, b) /\ Onward(r, e) /\ Sound(e) /\ e.journal = r.journal
    BY <1>2, <1>17 DEF Continues
  <1>19. Onward(d, s)
    BY <1>11, <1>18, OnwardTwice
  <1>20. Onward(d, r)
    BY <1>15, <1>19, OnwardTwice
  <1>21. Onward(d, e)
    BY <1>18, <1>20, OnwardTwice
  <1>22. Continues(d, e)
    BY <1>8, <1>11, <1>15, <1>18, <1>21 DEF Continues
  <1>23. Later(b, s)
    <2> DEFINE x == [ Row(from, "transfer_send", q, place, to) EXCEPT !.action = a ]
    <2>1. x.quantity = q /\ x.reverses = NULL /\ x.reason = "transfer_send"
      BY DEF Row
    <2>2. Wrote(b, s, x)
      BY <1>10
    <2> HIDE DEF x
    <2> QED
      BY <1>8, <2>1, <2>2, WroteLater
  <1>24. Later(s, e)
    <2> DEFINE x == ReceiveRow(t, q, a)
    <2>1. x.quantity = q /\ x.reverses = NULL /\ x.reason = "transfer_receive" /\ x.task = t
      BY DEF ReceiveRow, Row
    <2>2. Wrote(s, r, x)
      BY <1>14
    <2> HIDE DEF x
    <2>3. /\ \A u \in DOMAIN s.tasks :
               /\ Settles(s, r, u) /\ r.tasks[u].planned = s.tasks[u].planned
               /\ Completed(s, u) <= Completed(r, u) /\ Rejected(s, u) <= Rejected(r, u)
               /\ x.reason # "transfer_receive" \/ x.task # u => Received(r, u) = Received(s, u)
          /\ DOMAIN r.tasks = DOMAIN s.tasks
      BY <1>11, <2>1, <2>2, WroteLater
    <2>4. DOMAIN e.tasks = DOMAIN s.tasks
      BY <1>18, <2>3 DEF Onward
    <2>5. ASSUME NEW u
          PROVE  /\ Received(e, u) = Received(r, u)
                 /\ Completed(e, u) = Completed(r, u) /\ Rejected(e, u) = Rejected(r, u)
      BY <1>17, SameLedger
    <2>6. ASSUME NEW u \in DOMAIN s.tasks
          PROVE  /\ Settles(s, e, u)
                 /\ Completed(s, u) <= Completed(e, u) /\ Rejected(s, u) <= Rejected(e, u)
                 /\ s.tasks[u].planned <= e.tasks[u].planned
                 /\ Received(e, u) <= Received(s, u) \/ Received(e, u) <= e.tasks[u].planned
      <3>1. Settles(s, r, u) /\ Settles(r, e, u) /\ r.tasks[u].planned <= e.tasks[u].planned
        BY <1>17, <2>3
      <3>2. Settles(s, e, u)
        BY <2>5, <3>1 DEF Settles
      <3>3. Received(e, u) \in Nat
        BY <1>18, FiguresType DEF Sound, Sane
      <3>4. Received(e, u) <= Received(s, u) \/ Received(e, u) <= e.tasks[u].planned
        <4>1. CASE u = t
          BY <1>17, <4>1
        <4>2. CASE u # t
          <5>1. Received(e, u) = Received(s, u)
            BY <2>1, <2>3, <2>5, <4>2
          <5> QED
            BY <3>3, <5>1
        <4> QED
          BY <4>1, <4>2
      <3> QED
        BY <2>3, <2>5, <3>1, <3>2, <3>4
    <2> QED
      BY <2>4, <2>6 DEF Later
  <1>25. Typed(d) /\ Typed(b) /\ Typed(s) /\ Typed(e)
    BY <1>8, <1>11, <1>18 DEF Sound, Sane
  <1>26. Later(d, s)
    BY <1>2, <1>23, <1>25, LaterTwice
  <1>27. Later(d, e)
    BY <1>24, <1>25, <1>26, LaterTwice
  <1> QED
    BY <1>2, <1>11, <1>15, <1>17, <1>22, <1>27 DEF HandedOver, SendRow, to
(* The first of a set of positions. *)
LEMMA FirstOf ==
    ASSUME NEW S \in SUBSET Nat, S # {}
    PROVE  First(S) \in S /\ \A m \in S : First(S) <= m
  <1>1. \E n \in S : \A m \in S : n <= m
    BY Least
  <1> QED
    BY <1>1 DEF First

(* The tasks, one row more. *)
LEMMA TaskAppended ==
    ASSUME NEW d, Sound(d), NEW p \in Positions, NEW s \in Stages, NEW q \in Nat,
           NEW status \in WorkTaskStatus, OpenTasks(d, p, s) = {},
           NEW e, e = [ d EXCEPT !.tasks = Append(d.tasks, NewTask(p, s, q, status)) ]
    PROVE  /\ Sound(e) /\ e.journal = d.journal /\ e.ledger = d.ledger /\ e.reopened = d.reopened
           /\ DOMAIN e.tasks = DOMAIN d.tasks \cup {Len(d.tasks) + 1}
           /\ \A t \in DOMAIN d.tasks : e.tasks[t] = d.tasks[t]
           /\ e.tasks[Len(d.tasks) + 1] = NewTask(p, s, q, status)
  <1> DEFINE task == NewTask(p, s, q, status)
             K == Append(d.tasks, task)
             n == Len(d.tasks) + 1
  <1>1. Typed(d) /\ Refer(d)
    BY DEF Sound, Sane, Typed
  <1>2. /\ d = [ tasks |-> d.tasks, journal |-> d.journal, ledger |-> d.ledger,
                 reopened |-> d.reopened ]
        /\ d.tasks \in Seq(TaskRow) /\ d.journal \in Seq(ActionRow) /\ d.ledger \in Seq(LedgerRow)
        /\ Len(d.tasks) \in Nat /\ DOMAIN d.tasks = 1..Len(d.tasks)
    BY <1>1, DatabaseFields
  <1>3. d.reopened \in SUBSET Nat
    BY <1>1 DEF Typed, Database
  <1>4. /\ task \in TaskRow
        /\ task.position = p /\ task.stage = s /\ task.skippedBy = NULL /\ task.status = status
    BY DEF NewTask, TaskRow, Nullable
  <1> HIDE DEF task
  <1>5. /\ K \in Seq(TaskRow)
        /\ DOMAIN K = DOMAIN d.tasks \cup {n} /\ n \notin DOMAIN d.tasks
        /\ \A t \in DOMAIN d.tasks : K[t] = d.tasks[t]
        /\ K[n] = task
    BY <1>2, <1>4
  <1>6. e = [ tasks |-> K, journal |-> d.journal, ledger |-> d.ledger, reopened |-> d.reopened ]
    BY <1>2 DEF task
  <1> HIDE DEF K, n
  <1>7. e.tasks = K /\ e.journal = d.journal /\ e.ledger = d.ledger /\ e.reopened = d.reopened
    BY <1>6
  <1>8. e \in Database
    <2>1. [ tasks |-> K, journal |-> d.journal, ledger |-> d.ledger, reopened |-> d.reopened ]
            \in Database
      BY <1>2, <1>3, <1>5, DatabaseOf
    <2> QED
      BY <1>6, <2>1, Zenon
  <1>9. MayBecome(d, e)
    <2>1. DOMAIN d.tasks \subseteq DOMAIN e.tasks
      BY <1>5, <1>7
    <2>2. d.reopened \subseteq e.reopened /\ e.reopened \subseteq DOMAIN e.tasks
      BY <1>1, <1>7, <2>1 DEF Refer
    <2>3. \A t \in DOMAIN e.tasks : e.tasks[t].skippedBy \in Nullable(DOMAIN d.journal)
      BY <1>1, <1>4, <1>5, <1>7 DEF Refer, Nullable
    <2>4. \A t \in DOMAIN d.tasks : e.tasks[t] = d.tasks[t]
      BY <1>5, <1>7
    <2>5. \A t \in DOMAIN d.tasks : IsOpen(e, t) => IsOpen(d, t)
      BY <2>4 DEF IsOpen
    <2>6. ASSUME NEW u \in DOMAIN d.tasks, IsOpen(e, u) PROVE ~(d.tasks[u].position = p /\ d.tasks[u].stage = s)
      BY <2>5, <2>6 DEF OpenTasks, TasksOnLine
    <2>7. ASSUME NEW t \in DOMAIN e.tasks \ DOMAIN d.tasks, NEW u \in DOMAIN e.tasks,
                 IsOpen(e, u), e.tasks[u].position = e.tasks[t].position,
                 e.tasks[u].stage = e.tasks[t].stage
          PROVE  u = t
      <3>1. t = n /\ e.tasks[t] = task
        BY <1>5, <1>7
      <3>2. u \notin DOMAIN d.tasks
        BY <1>4, <2>4, <2>6, <2>7, <3>1
      <3> QED
        BY <1>5, <1>7, <3>1, <3>2
    <2> QED
      BY <2>1, <2>2, <2>3, <2>4, <2>5, <2>7 DEF MayBecome
  <1>10. Sound(e)
    BY <1>7, <1>8, <1>9, TasksChanged
  <1> QED
    BY <1>5, <1>7, <1>10 DEF task, n

LEMMA LaterAppended ==
    ASSUME NEW d, Sound(d), NEW e, Sound(e), e.ledger = d.ledger, NEW n, n = Len(d.tasks) + 1,
           DOMAIN e.tasks = DOMAIN d.tasks \cup {n},
           \A t \in DOMAIN d.tasks : e.tasks[t] = d.tasks[t],
           e.tasks[n].status # "partially_completed"
    PROVE  Later(d, e)
  <1>1. /\ Typed(d) /\ Typed(e) /\ n \notin DOMAIN d.tasks /\ n \in Nat
    BY DatabaseFields DEF Sound, Sane
  <1>2. \A t : /\ Received(e, t) = Received(d, t)
               /\ Completed(e, t) = Completed(d, t) /\ Rejected(e, t) = Rejected(d, t)
    BY SameLedger
  <1>3. \A t : /\ Received(d, t) \in Nat /\ Completed(d, t) \in Nat /\ Rejected(d, t) \in Nat
               /\ t \in DOMAIN d.tasks => d.tasks[t].planned \in Nat
    BY <1>1, FiguresType
  <1>4. e.tasks[n].planned \in Nat
    BY <1>1, FiguresType
  <1>5. Received(d, n) = 0
    <2>1. n # NULL
      BY <1>1, NullIsNoValue
    <2> QED
      BY <1>1, <2>1, NoRowsYet DEF Received
  <1> QED
    BY <1>2, <1>3, <1>4, <1>5 DEF Later, Settles

(* The tasks with a target for the transfer. *)
LEMMA TargetSound ==
    ASSUME NEW d, Sound(d), NEW p \in Positions, NEW s \in Stages, NEW q \in Nat,
           NEW e, e = WithTarget(d, p, s, q)
    PROVE  /\ Sound(e) /\ e.journal = d.journal /\ e.ledger = d.ledger /\ e.reopened = d.reopened
           /\ DOMAIN d.tasks \subseteq DOMAIN e.tasks
           /\ \A t \in DOMAIN d.tasks : e.tasks[t] = d.tasks[t]
           /\ TargetTask(e, p, s) \in OpenTasks(e, p, s)
           /\ Later(d, e)
  <1>0. Typed(d)
    BY DEF Sound, Sane
  <1>1. CASE OpenTasks(d, p, s) # {}
    <2>1. e = d
      <3>1. d = [ tasks |-> d.tasks, journal |-> d.journal, ledger |-> d.ledger,
                  reopened |-> d.reopened ]
        BY <1>0, DatabaseFields
      <3> QED
        BY <1>1, <3>1 DEF WithTarget, TasksFor
    <2>2. OpenTasks(d, p, s) \subseteq DOMAIN d.tasks
      BY DEF OpenTasks, TasksOnLine
    <2>3. DOMAIN d.tasks = 1..Len(d.tasks) /\ Len(d.tasks) \in Nat
      BY <1>0, DatabaseFields
    <2>4. OpenTasks(d, p, s) \in SUBSET Nat
      BY <2>2, <2>3
    <2>5. TargetTask(e, p, s) \in OpenTasks(e, p, s)
      BY <1>1, <2>1, <2>4, FirstOf DEF TargetTask
    <2> QED
      BY <1>0, <2>1, <2>5, LaterSame
  <1>2. CASE OpenTasks(d, p, s) = {}
    <2>1. e = [ d EXCEPT !.tasks = Append(d.tasks, NewTask(p, s, q, "waiting_previous")) ]
      BY <1>2 DEF WithTarget, TasksFor
    <2>2. "waiting_previous" \in WorkTaskStatus
      BY DEF WorkTaskStatus
    <2>3. /\ Sound(e) /\ e.journal = d.journal /\ e.ledger = d.ledger /\ e.reopened = d.reopened
          /\ DOMAIN e.tasks = DOMAIN d.tasks \cup {Len(d.tasks) + 1}
          /\ \A t \in DOMAIN d.tasks : e.tasks[t] = d.tasks[t]
          /\ e.tasks[Len(d.tasks) + 1] = NewTask(p, s, q, "waiting_previous")
      BY <1>2, <2>1, <2>2, TaskAppended
    <2>4. Len(d.tasks) + 1 \in OpenTasks(e, p, s)
      BY <2>3 DEF OpenTasks, TasksOnLine, IsOpen, NewTask, ClosedStatus
    <2>5. OpenTasks(e, p, s) \in SUBSET Nat
      <3>1. DOMAIN e.tasks = 1..Len(e.tasks) /\ Len(e.tasks) \in Nat
        BY <2>3, DatabaseFields DEF Sound, Sane
      <3> QED
        BY <3>1 DEF OpenTasks, TasksOnLine
    <2>6. TargetTask(e, p, s) \in OpenTasks(e, p, s)
      BY <2>4, <2>5, FirstOf DEF TargetTask
    <2>7. NewTask(p, s, q, "waiting_previous").status # "partially_completed"
      BY DEF NewTask
    <2> QED
      BY <2>3, <2>6, <2>7, LaterAppended
  <1> QED
    BY <1>1, <1>2
TransferEntry(from, t, q, issue) ==
    [ type |-> "transfer_send", task |-> from, to |-> t, quantity |-> q,
      transfer |-> "accepted", issue |-> issue, dependsOn |-> {}, active |-> TRUE ]

(* A transfer to task t comes to journal and ledger. *)
Passed(d, e, from, place, t, q, issue) ==
    /\ Sound(e) /\ SameLines(d, e) /\ Later(d, e) /\ t \in DOMAIN e.tasks
    /\ e.journal = Append(d.journal, TransferEntry(from, t, q, issue))
    /\ e.ledger = Append(Append(d.ledger, SendRow(e, from, place, t, q, NextAction(d))),
                         ReceiveRow(t, q, NextAction(d)))

(* Where a transfer comes from: the store of its stage or an earlier task. *)
Supplied(d, e, from, place, t) ==
    \/ from = NULL /\ \E s \in Stages : place = StoreFor(s) /\ e.tasks[t].stage = s
    \/ /\ from \in DOMAIN d.tasks /\ place = Output(d.tasks[from].stage)
       /\ d.tasks[from].stage < e.tasks[t].stage

(* It is logged and delivered. *)
LEMMA DeliveredPasses ==
    ASSUME NEW d, Sound(d), NEW from \in Nullable(DOMAIN d.tasks), NEW place \in Place,
           NEW t \in DOMAIN d.tasks, NEW q \in Nat \ {0},
           NEW issue \in Nullable(1..(Len(d.journal) + 1)),
           NEW e, e = Delivered(LoggedTransfer(d, from, t, q, issue), from, place, t, q, NextAction(d)),
           e # Failed
    PROVE  Passed(d, e, from, place, t, q, issue)
  <1> DEFINE entry == TransferEntry(from, t, q, issue)
             l == LoggedTransfer(d, from, t, q, issue)
             a == NextAction(d)
  <1>1. l = [ d EXCEPT !.journal = Append(@, entry) ]
    BY DEF LoggedTransfer, TransferEntry
  <1>2. /\ DOMAIN d.tasks = 1..Len(d.tasks) /\ Len(d.tasks) \in Nat
        /\ DOMAIN d.journal = 1..Len(d.journal) /\ Len(d.journal) \in Nat
    BY DatabaseFields DEF Sound, Sane
  <1>3. MayLog(d, entry)
    <2>1. from \in Nullable(Nat) /\ t \in Nullable(Nat) /\ issue \in Nullable(Nat)
      BY <1>2 DEF Nullable
    <2>2. entry \in ActionRow
      BY <2>1 DEF TransferEntry, ActionRow, Nullable, TransferStatus
    <2> QED
      BY <2>2 DEF MayLog, TransferEntry, Nullable
  <1> HIDE DEF entry, l
  <1>4. /\ Sound(l) /\ l.tasks = d.tasks /\ l.ledger = d.ledger /\ l.reopened = d.reopened
        /\ l.journal = Append(d.journal, entry)
        /\ a \in DOMAIN l.journal /\ Reached(l, a) = {}
    BY <1>1, <1>3, Logged
  <1>5. e = Delivered(l, from, place, t, q, a)
    BY DEF l
  <1> HIDE DEF a
  <1>6. /\ Continues(l, e)
        /\ e.ledger = Append(Append(l.ledger, SendRow(l, from, place, t, q, a)), ReceiveRow(t, q, a))
        /\ Later(l, e)
    <2>1. /\ from \in Nullable(DOMAIN l.tasks) /\ t \in DOMAIN l.tasks
          /\ a \in DOMAIN l.journal /\ Reached(l, a) = {} /\ Sound(l)
      BY <1>4
    <2>2. HandedOver(l, e, from, place, t, q, a) /\ Later(l, e)
      BY <1>5, <2>1, DeliveredSound
    <2> QED
      BY <2>2 DEF HandedOver
  <1>7. Sound(e) /\ Onward(l, e) /\ e.journal = l.journal
    BY <1>6 DEF Continues
  <1>8. SameLines(d, e) /\ t \in DOMAIN e.tasks
    BY <1>4, <1>7 DEF Onward, SameLines
  <1>9. SendRow(l, from, place, t, q, a) = SendRow(e, from, place, t, q, a)
    <2>1. l.tasks[t].stage = e.tasks[t].stage
      BY <1>4, <1>7 DEF Onward
    <2> QED
      BY <2>1 DEF SendRow
  <1>10. Later(d, e)
    <2>1. Typed(d) /\ Typed(l) /\ Typed(e)
      BY <1>4, <1>7 DEF Sound, Sane
    <2>2. Later(d, l)
      BY <1>4, <2>1, LaterSame
    <2> QED
      BY <1>6, <2>1, <2>2, LaterTwice
  <1> QED
    BY <1>4, <1>6, <1>7, <1>8, <1>9, <1>10 DEF Passed, entry, a

(* transfer_send. *)
LEMMA SentPasses ==
    ASSUME NEW d, Sound(d), NEW from \in DOMAIN d.tasks, NEW to \in Nullable(DOMAIN d.tasks),
           NEW q \in Nat \ {0}, NEW overPlan, NEW e, e = Sent(d, from, to, q, overPlan), e # Failed
    PROVE  /\ \E t \in DOMAIN e.tasks :
                /\ Passed(d, e, from, Output(d.tasks[from].stage), t, q, NULL)
                /\ Supplied(d, e, from, Output(d.tasks[from].stage), t)
                /\ to # NULL => t = to
           /\ ~overPlan => q <= Transferable(d, from)
  <1> DEFINE task == d.tasks[from]
             b == IF to # NULL THEN d ELSE WithTarget(d, task.position, task.stage + 1, q)
             t == IF to # NULL THEN to ELSE TargetTask(b, task.position, task.stage + 1)
             place == Output(task.stage)
  <1>1. /\ e = Delivered(LoggedTransfer(b, from, t, q, NULL), from, place, t, q, NextAction(d))
        /\ task.stage # LastStage
        /\ to # NULL => d.tasks[to].stage > task.stage
        /\ ~(~overPlan /\ q > Transferable(d, from))
    BY DEF Sent
  <1>2. task \in TaskRow
    BY DatabaseFields DEF Sound, Sane
  <1>3. /\ task.position \in Positions /\ task.stage \in Stages /\ task.stage + 1 \in Stages
        /\ place \in Place
    <2>1. task.stage \in 1..LastStage /\ LastStage \in Nat /\ task.position \in Positions
      BY <1>2, TaskFlowConstants DEF TaskRow, Stages
    <2> QED
      BY <1>1, <2>1 DEF Stages, Output, At, Place
  <1>4. Transferable(d, from) \in Int
    <2>1. Completed(d, from) \in Nat /\ Transferred(d, from) \in Nat
      BY NetInForce DEF Completed, Transferred, Sound, Sane
    <2> QED
      BY <2>1 DEF Transferable, AtLeastZero
  <1>5. /\ Sound(b) /\ b.journal = d.journal /\ b.ledger = d.ledger /\ b.reopened = d.reopened
        /\ DOMAIN d.tasks \subseteq DOMAIN b.tasks
        /\ \A u \in DOMAIN d.tasks : b.tasks[u] = d.tasks[u]
        /\ t \in DOMAIN b.tasks /\ task.stage < b.tasks[t].stage
        /\ Later(d, b)
    <2>1. CASE to # NULL
      <3>1. to \in DOMAIN d.tasks /\ b = d /\ t = to
        BY <2>1 DEF Nullable
      <3>2. d.tasks[to].stage \in Nat /\ task.stage \in Nat
        BY <1>2, <3>1, DatabaseFields DEF Sound, Sane, TaskRow, Stages
      <3>3. Later(d, d)
        BY LaterSame DEF Sound, Sane
      <3> HIDE DEF b, t, task
      <3> QED
        BY <1>1, <2>1, <3>1, <3>2, <3>3
    <2>2. CASE to = NULL
      <3> DEFINE p == task.position
                 s == task.stage + 1
                 c == WithTarget(d, p, s, q)
      <3>1. b = c /\ t = TargetTask(c, p, s)
        BY <2>2
      <3>2. p \in Positions /\ s \in Stages
        BY <1>3
      <3> HIDE DEF b, t, p, s, task
      <3>3. /\ Sound(c) /\ c.journal = d.journal /\ c.ledger = d.ledger /\ c.reopened = d.reopened
            /\ DOMAIN d.tasks \subseteq DOMAIN c.tasks
            /\ \A u \in DOMAIN d.tasks : c.tasks[u] = d.tasks[u]
            /\ TargetTask(c, p, s) \in OpenTasks(c, p, s)
            /\ Later(d, c)
        BY <3>2, TargetSound
      <3> HIDE DEF c
      <3>4. \A u \in OpenTasks(c, p, s) : u \in DOMAIN c.tasks /\ c.tasks[u].stage = s
        BY DEF OpenTasks, TasksOnLine
      <3>5. task.stage \in Nat /\ s = task.stage + 1
        BY <1>3 DEF Stages, s
      <3>6. task.stage < s
        BY <3>5
      <3> QED
        BY <3>1, <3>3, <3>4, <3>6
    <2> QED
      BY <2>1, <2>2
  <1>6. NextAction(d) = NextAction(b)
    BY <1>5 DEF NextAction
  <1>7. NULL \in Nullable(1..(Len(b.journal) + 1)) /\ from \in Nullable(DOMAIN b.tasks)
    BY <1>5 DEF Nullable
  <1> HIDE DEF b, t, place, task
  <1>8. e = Delivered(LoggedTransfer(b, from, t, q, NULL), from, place, t, q, NextAction(b))
    BY <1>1, <1>6
  <1>9. Passed(b, e, from, place, t, q, NULL)
    BY <1>3, <1>5, <1>7, <1>8, DeliveredPasses
  <1>10. SameLines(d, e)
    BY <1>5, <1>9 DEF Passed, SameLines
  <1>16. Later(d, e)
    <2>1. Later(b, e) /\ Typed(d) /\ Typed(b) /\ Typed(e)
      BY <1>5, <1>9 DEF Passed, Sound, Sane
    <2> QED
      BY <1>5, <2>1, LaterTwice
  <1>11. Passed(d, e, from, place, t, q, NULL) /\ t \in DOMAIN e.tasks
    BY <1>5, <1>6, <1>9, <1>10, <1>16 DEF Passed
  <1>12. Passed(d, e, from, Output(d.tasks[from].stage), t, q, NULL)
    BY <1>11 DEF place, task
  <1>14. Supplied(d, e, from, Output(d.tasks[from].stage), t)
    <2>1. e.tasks[t].stage = b.tasks[t].stage
      BY <1>5, <1>9 DEF Passed, SameLines
    <2> QED
      BY <1>5, <2>1 DEF Supplied, task
  <1>15. to # NULL => t = to
    BY DEF t
  <1>13. ~overPlan => q <= Transferable(d, from)
    BY <1>1, <1>4
  <1> QED
    BY <1>11, <1>12, <1>13, <1>14, <1>15

(* _record_issue_transfer. *)
LEMMA IssuedPasses ==
    ASSUME NEW d, Sound(d), NEW p \in Positions, NEW s \in Stages, NEW q \in Nat \ {0},
           NEW issue \in 1..(Len(d.journal) + 1), NEW e, e = Issued(d, p, s, q, issue), e # Failed
    PROVE  \E t \in DOMAIN e.tasks :
             Passed(d, e, NULL, StoreFor(s), t, q, issue) /\ Supplied(d, e, NULL, StoreFor(s), t)
  <1> DEFINE t == TargetTask(d, p, s)
             place == StoreFor(s)
  <1>1. /\ OpenTasks(d, p, s) # {}
        /\ e = Delivered(LoggedTransfer(d, NULL, t, q, issue), NULL, place, t, q, NextAction(d))
    BY DEF Issued
  <1>2. t \in DOMAIN d.tasks /\ d.tasks[t].stage = s
    <2>1. DOMAIN d.tasks = 1..Len(d.tasks) /\ Len(d.tasks) \in Nat
      BY DatabaseFields DEF Sound, Sane
    <2>2. OpenTasks(d, p, s) \in SUBSET Nat
      BY <2>1 DEF OpenTasks, TasksOnLine
    <2>3. t \in OpenTasks(d, p, s)
      BY <1>1, <2>2, FirstOf DEF TargetTask
    <2> QED
      BY <2>3 DEF OpenTasks, TasksOnLine
  <1>3. place \in Place
    <2>1. s \in 1..LastStage /\ LastStage \in Nat
      BY TaskFlowConstants DEF Stages
    <2> QED
      BY <2>1 DEF StoreFor, At, Place
  <1>4. NULL \in Nullable(DOMAIN d.tasks) /\ issue \in Nullable(1..(Len(d.journal) + 1))
    BY DEF Nullable
  <1> HIDE DEF t, place
  <1>5. Passed(d, e, NULL, place, t, q, issue)
    BY <1>1, <1>2, <1>3, <1>4, DeliveredPasses
  <1>6. Supplied(d, e, NULL, place, t)
    <2>1. e.tasks[t].stage = s
      BY <1>2, <1>5 DEF Passed, SameLines
    <2> QED
      BY <2>1 DEF Supplied, place
  <1> QED
    BY <1>5, <1>6 DEF Passed, place

(* Two rows more. *)
LEMMA TwoAppended ==
    ASSUME NEW L \in Seq(LedgerRow), NEW x, NEW y, NEW K, K = Append(Append(L, x), y), NEW n, n = Len(L) + 1
    PROVE  /\ DOMAIN K = DOMAIN L \cup { n, n + 1 } /\ n \in Nat
           /\ n \notin DOMAIN L /\ n + 1 \notin DOMAIN L
           /\ \A i \in DOMAIN L : K[i] = L[i]
           /\ K[n] = x /\ K[n + 1] = y
  OBVIOUS

(* What tasks have received and sent on. *)
Handover(d, e, from, t, q) ==
    \A u : /\ Used(e, u) = Used(d, u)
           /\ Received(e, u) = Received(d, u) + (IF u = t THEN q ELSE 0)
           /\ Transferred(e, u) = Transferred(d, u) + (IF u = from THEN q ELSE 0)

(* A transfer is such a change. *)
LEMMA PassedChanges ==
    ASSUME NEW d, Sound(d), NEW e, NEW from, NEW place, NEW t, NEW q, NEW issue,
           Passed(d, e, from, place, t, q, issue), Supplied(d, e, from, place, t)
    PROVE  Change(d, e) /\ Handover(d, e, from, t, q)
  <1> DEFINE a == NextAction(d)
             n == Len(d.ledger) + 1
             x == SendRow(e, from, place, t, q, a)
             y == ReceiveRow(t, q, a)
             entry == TransferEntry(from, t, q, issue)
             stage == e.tasks[t].stage
  <1>1. /\ Sound(e) /\ SameLines(d, e) /\ Later(d, e) /\ t \in DOMAIN e.tasks
        /\ e.journal = Append(d.journal, entry) /\ e.ledger = Append(Append(d.ledger, x), y)
    BY DEF Passed
  <1>2. /\ d.ledger \in Seq(LedgerRow) /\ d.journal \in Seq(ActionRow)
        /\ Len(d.journal) \in Nat /\ DOMAIN d.journal = 1..Len(d.journal)
    BY DatabaseFields DEF Sound, Sane
  <1>3. /\ x.task = from /\ x.reason = "transfer_send" /\ x.quantity = q /\ x.from = place
        /\ x.to = At(stage, place[2]) /\ x.action = a /\ x.reverses = NULL
        /\ y.task = t /\ y.reason = "transfer_receive" /\ y.quantity = q /\ y.from = NULL
        /\ y.to = NULL /\ y.action = a /\ y.reverses = NULL
    BY DEF SendRow, ReceiveRow, Row
  <1>4. /\ entry.type = "transfer_send" /\ entry.quantity = q /\ entry.active = TRUE
        /\ entry.transfer = "accepted" /\ entry.task = from /\ entry.to = t /\ entry.dependsOn = {}
    BY DEF TransferEntry
  <1>5. a = Len(d.journal) + 1
    BY DEF NextAction
  <1> HIDE DEF x, y, entry, a
  <1>6. /\ DOMAIN e.ledger = DOMAIN d.ledger \cup { n, n + 1 } /\ n \in Nat
        /\ n \notin DOMAIN d.ledger /\ n + 1 \notin DOMAIN d.ledger
        /\ \A i \in DOMAIN d.ledger : e.ledger[i] = d.ledger[i]
        /\ e.ledger[n] = x /\ e.ledger[n + 1] = y
    <2>1. d.ledger \in Seq(LedgerRow) /\ e.ledger = Append(Append(d.ledger, x), y)
      BY <1>1, <1>2
    <2> QED
      BY ONLY <2>1, TwoAppended
  <1>7. e.journal[a] = entry /\ a # NULL /\ a \notin DOMAIN d.journal
    BY <1>1, <1>2, <1>5, NullIsNoValue
  <1> HIDE DEF n
  <1>8. Outlives(d, e)
    BY <1>1, <1>6 DEF Outlives, SameLines
  <1>9. /\ \E done \in 0..(stage - 1) : x.to = At(stage, done)
        /\ \/ from = NULL /\ \E s \in Stages : place = StoreFor(s)
           \/ from \in DOMAIN e.tasks /\ place = Output(e.tasks[from].stage)
    <2>1. CASE from = NULL /\ \E s \in Stages : place = StoreFor(s) /\ stage = s
      <3>1. PICK s \in Stages : place = StoreFor(s) /\ stage = s
        BY <2>1
      <3>2. place[2] = stage - 1 /\ stage \in Nat \ {0}
        BY <3>1, TaskFlowConstants DEF StoreFor, At, Stages
      <3> HIDE DEF stage
      <3>3. place[2] \in 0..(stage - 1)
        BY <3>2
      <3> QED
        BY <1>3, <2>1, <3>3
    <2>2. CASE /\ from \in DOMAIN d.tasks /\ place = Output(d.tasks[from].stage)
               /\ d.tasks[from].stage < stage
      <3> DEFINE k == d.tasks[from].stage
      <3>1. k \in Nat /\ stage \in Nat
        <4>1. k \in Stages
          BY <2>2, DatabaseFields DEF Sound, Sane, TaskRow
        <4>2. stage \in Stages
          BY <1>1, DatabaseFields DEF Sound, Sane, TaskRow
        <4> HIDE DEF k, stage
        <4> QED
          BY <4>1, <4>2 DEF Stages
      <3>2. place[2] = k
        BY <2>2 DEF Output, At
      <3>3. from \in DOMAIN e.tasks /\ e.tasks[from].stage = k
        BY <1>1, <2>2 DEF SameLines
      <3>5. place = Output(k) /\ k < stage
        BY <2>2
      <3> HIDE DEF stage, k
      <3>4. place[2] \in 0..(stage - 1)
        BY <3>1, <3>2, <3>5
      <3> QED
        BY <1>3, <3>3, <3>4, <3>5
    <2> QED
      BY <2>1, <2>2 DEF Supplied
  <1>10. Paired(e, n, "transfer_send", "transfer_receive")
    BY <1>3, <1>6, <1>7 DEF Paired
  <1>11. Handed(e, n)
    <2>1. StageOf(e, n + 1) = stage
      BY <1>3, <1>6 DEF StageOf
    <2>2. from \in DOMAIN e.tasks => StageOf(e, n) = e.tasks[from].stage
      BY <1>3, <1>6 DEF StageOf
    <2> HIDE DEF stage
    <2> QED
      BY <1>1, <1>3, <1>6, <1>9, <1>10, <2>1, <2>2 DEF Handed
  <1>12. Proper(e, n) /\ Proper(e, n + 1)
    <2>1. (n + 1) - 1 = n
      BY <1>6
    <2>2. Handed(e, (n + 1) - 1)
      BY <1>11, <2>1, Zenon
    <2> QED
      BY <1>11, <2>2, Zenon DEF Proper
  <1>13. Grows(d, e, a)
    BY <1>3, <1>6, <1>8, <1>12 DEF Grows
  <1>14. Entered(e, a)
    <2>1. \A j \in DOMAIN e.ledger : e.ledger[j].action = a => j \in { n, n + 1 }
      <3> SUFFICES ASSUME NEW j \in DOMAIN d.ledger PROVE d.ledger[j].action # a
        BY <1>6
      <3>1. d.ledger[j].action \in Nullable(DOMAIN d.journal)
        BY DEF Sound, Sane, Typed, Refer
      <3> QED
        BY <1>7, <3>1 DEF Nullable
    <2>2. /\ Paired(e, n, "transfer_send", "transfer_receive") /\ n \in DOMAIN e.ledger
          /\ e.ledger[n].action = a /\ e.ledger[n].quantity = e.journal[a].quantity
          /\ e.ledger[n].task = e.journal[a].task /\ e.ledger[n + 1].task = e.journal[a].to
      BY <1>3, <1>4, <1>6, <1>7, <1>10
    <2>3. /\ e.journal[a].type = "transfer_send"
          /\ e.journal[a].transfer = "accepted" /\ e.journal[a].active = TRUE
          /\ e.journal[a].dependsOn = {} /\ e.journal[a].to \in DOMAIN e.tasks
      BY <1>1, <1>4, <1>7
    <2> QED
      BY <2>1, <2>2, <2>3 DEF Entered
  <1>15. Posted(d, e, entry)
    BY <1>1, <1>4, <1>13, <1>14 DEF Posted, a
  <1>16. Moves(d, e)
    BY <1>1, <1>15 DEF Moves
  <1>17. Typed(d) /\ Typed(e)
    BY <1>1 DEF Sound, Sane
  <1>18. ASSUME NEW T, NEW reason
         PROVE  Net(e, T, reason) = Net(d, T, reason)
                  + Amount(e.ledger, RowsOf(e, T, reason) \ DOMAIN d.ledger)
    <2>1. DOMAIN d.ledger \subseteq DOMAIN e.ledger
      BY <1>6
    <2>2. \A i \in DOMAIN e.ledger \ DOMAIN d.ledger : e.ledger[i].reverses = NULL
      BY <1>3, <1>6
    <2> QED
      BY <1>6, <1>17, <2>1, <2>2, NetsWithRows
  <1>19. \A T, reason : RowsOf(e, T, reason) \ DOMAIN d.ledger
            = { i \in { n, n + 1 } : e.ledger[i].task \in T /\ e.ledger[i].reason = reason }
    BY <1>6 DEF RowsOf
  <1>20. /\ Amount(e.ledger, {}) = 0
         /\ q \in Nat => Amount(e.ledger, {n}) = q /\ Amount(e.ledger, { n + 1 }) = q
    BY <1>3, <1>6, AmountOfFew
  <1>21. q \in Nat
    <2>1. e.ledger[n] \in LedgerRow
      BY <1>6, <1>17, DatabaseFields
    <2> QED
      BY <1>3, <1>6, <2>1 DEF LedgerRow
  <1>22. Handover(d, e, from, t, q)
    <2> SUFFICES ASSUME NEW u
                 PROVE  /\ Used(e, u) = Used(d, u)
                        /\ Received(e, u) = Received(d, u) + (IF u = t THEN q ELSE 0)
                        /\ Transferred(e, u) = Transferred(d, u) + (IF u = from THEN q ELSE 0)
      BY DEF Handover
    <2>1. /\ RowsOf(e, {u}, "complete") \ DOMAIN d.ledger = {}
          /\ RowsOf(e, {u}, "scrap") \ DOMAIN d.ledger = {}
      BY <1>3, <1>6, <1>19
    <2>2. RowsOf(e, {u}, "transfer_receive") \ DOMAIN d.ledger = (IF u = t THEN { n + 1 } ELSE {})
      BY <1>3, <1>6, <1>19
    <2>3. RowsOf(e, {u}, "transfer_send") \ DOMAIN d.ledger = (IF u = from THEN {n} ELSE {})
      BY <1>3, <1>6, <1>19
    <2>4. Used(e, u) = Used(d, u)
      <3>1. /\ Net(e, {u}, "complete") = Net(d, {u}, "complete") + 0
            /\ Net(e, {u}, "scrap") = Net(d, {u}, "scrap") + 0
        BY <1>18, <1>20, <2>1
      <3>2. Net(d, {u}, "complete") \in Nat /\ Net(d, {u}, "scrap") \in Nat
        BY <1>17, NetInForce
      <3> QED
        BY <3>1, <3>2 DEF Used
    <2>5. Received(e, u) = Received(d, u) + (IF u = t THEN q ELSE 0)
      BY <1>18, <1>20, <1>21, <2>2 DEF Received
    <2>6. Transferred(e, u) = Transferred(d, u) + (IF u = from THEN q ELSE 0)
      BY <1>18, <1>20, <1>21, <2>3 DEF Transferred
    <2> QED
      BY <2>4, <2>5, <2>6
  <1>23. Lives(d, e)
    <2>1. ASSUME NEW u PROVE Used(e, u) <= Used(d, u) /\ Received(d, u) <= Received(e, u)
      <3>1. /\ Used(e, u) = Used(d, u)
            /\ Received(e, u) = Received(d, u) + (IF u = t THEN q ELSE 0)
        BY <1>22 DEF Handover
      <3>2. Used(d, u) \in Nat /\ Received(d, u) \in Nat
        BY <1>17, UsedType
      <3> QED
        BY <1>21, <3>1, <3>2
    <2> QED
      BY <1>17, <2>1, LivesOnMore
  <1> QED
    BY <1>16, <1>22, <1>23 DEF Change
----------------------------------------------------------------------------
(* Operations of a task.                                                    *)

(* The journal has the action of a task. *)
TaskEntry(d, type, t, q) ==
    [ type |-> type, task |-> t, to |-> NULL, quantity |-> q, transfer |-> NULL,
      issue |-> NULL, dependsOn |-> LastActive(d, t), active |-> TRUE ]

LoggedBy(d, e, entry) ==
    /\ Sound(e) /\ e.tasks = d.tasks /\ e.ledger = d.ledger /\ e.reopened = d.reopened
    /\ e.journal = Append(d.journal, entry)
    /\ NextAction(d) \in DOMAIN e.journal
    /\ Reached(e, NextAction(d)) = {}

LEMMA TaskActionLogged ==
    ASSUME NEW d, Sound(d), NEW type \in TaskActionFamily, NEW t \in DOMAIN d.tasks, NEW q \in Nat,
           NEW e, e = LoggedTaskAction(d, type, t, q)
    PROVE  LoggedBy(d, e, TaskEntry(d, type, t, q))
  <1> DEFINE entry == TaskEntry(d, type, t, q)
  <1>1. e = [ d EXCEPT !.journal = Append(@, entry) ]
    BY DEF LoggedTaskAction, TaskEntry
  <1>2. /\ DOMAIN d.tasks = 1..Len(d.tasks) /\ Len(d.tasks) \in Nat
        /\ DOMAIN d.journal = 1..Len(d.journal) /\ Len(d.journal) \in Nat
    BY DatabaseFields DEF Sound, Sane
  <1>3. LastActive(d, t) \subseteq DOMAIN d.journal
    BY DEF LastActive
  <1>4. MayLog(d, entry)
    <2>1. t \in Nullable(Nat) /\ LastActive(d, t) \in SUBSET Nat
      BY <1>2, <1>3 DEF Nullable
    <2>2. entry \in ActionRow
      BY <2>1 DEF TaskEntry, ActionRow, Nullable
    <2> QED
      BY <1>3, <2>2 DEF MayLog, TaskEntry, Nullable
  <1> HIDE DEF entry
  <1>5. /\ Sound(e) /\ e.tasks = d.tasks /\ e.ledger = d.ledger /\ e.reopened = d.reopened
        /\ e.journal = Append(d.journal, entry)
        /\ NextAction(d) \in DOMAIN e.journal /\ Reached(e, NextAction(d)) = {}
    BY <1>1, <1>4, Logged
  <1> QED
    BY <1>5 DEF LoggedBy, entry

(* The places of a stage. *)
LEMMA StagePlaces ==
    ASSUME NEW s \in Stages
    PROVE  /\ Input(s) \in Nullable(Place) /\ Output(s) \in Nullable(Place)
           /\ ScrapStore(s) \in Nullable(Place) /\ FinishedGoods \in Nullable(Place)
           /\ NULL \in Nullable(Place)
           /\ Output(s) # NULL /\ ScrapStore(s) # NULL /\ FinishedGoods # NULL
           /\ ScrapStore(s) # Output(s)
  <1>1. s \in 1..LastStage /\ LastStage \in Nat
    BY TaskFlowConstants DEF Stages
  <1>2. /\ Input(s) \in Place /\ Output(s) \in Place
        /\ ScrapStore(s) \in Place /\ FinishedGoods \in Place
    BY <1>1 DEF Input, Output, ScrapStore, FinishedGoods, At, Place
  <1>3. ScrapStore(s) # Output(s)
    BY <1>1 DEF Output, ScrapStore, At
  <1> QED
    BY <1>2, <1>3, NullIsNoValue DEF Nullable

(* e goes on from x, itself a continuation of d, by a row of the action a. *)
Stepped(d, x, e, t, reason, q, from, to, a) ==
    /\ Continues(d, e) /\ Onward(x, e) /\ Later(x, e) /\ Reached(e, a) = Reached(x, a) \cup {to}
    /\ e.ledger = Append(x.ledger, [ Row(t, reason, q, from, to) EXCEPT !.action = a ])
    /\ from # NULL => OnHand(x, from) >= q

(* A row of the task and action, where its action has not brought anything. *)
LEMMA StepRecorded ==
    ASSUME NEW d, NEW x, Continues(d, x), NEW t \in DOMAIN d.tasks, NEW reason \in Reasons,
           reason # "transfer_receive", NEW q \in Nat \ {0},
           NEW from \in Nullable(Place), NEW to \in Nullable(Place),
           NEW a \in DOMAIN d.journal, to = NULL \/ to \notin Reached(x, a),
           NEW e, e = Recorded(x, Row(t, reason, q, from, to), a), e # Failed
    PROVE  Stepped(d, x, e, t, reason, q, from, to, a)
  <1> DEFINE r == [ Row(t, reason, q, from, to) EXCEPT !.action = a ]
  <1>1. Sound(x) /\ Onward(d, x) /\ x.journal = d.journal
    BY DEF Continues
  <1>2. t \in Nullable(DOMAIN x.tasks) /\ a \in DOMAIN x.journal
    BY <1>1 DEF Onward, Nullable
  <1>3. Wrote(x, e, r)
    BY <1>1, <1>2, RowRecorded
  <1>4. /\ r.action = a /\ r.to = to /\ r.from = from /\ r.quantity = q
        /\ r.reason = reason /\ r.reverses = NULL
    BY DEF Row
  <1> HIDE DEF r
  <1>5. /\ Sound(e) /\ Onward(x, e) /\ e.journal = x.journal /\ e.ledger = Append(x.ledger, r)
        /\ Reached(e, a) = Reached(x, a) \cup {to}
        /\ from # NULL => OnHand(x, from) >= q
    BY <1>3, <1>4 DEF Wrote
  <1>6. Onward(d, e)
    BY <1>1, <1>5, OnwardTwice
  <1>7. Later(x, e)
    BY <1>1, <1>3, <1>4, WroteLater
  <1> QED
    BY <1>1, <1>5, <1>6, <1>7 DEF Continues, Stepped, r

(* What a database has it keeps. *)
LEMMA PairedOutlives ==
    ASSUME NEW d, NEW e, Outlives(d, e), NEW i, NEW first, NEW second, Paired(d, i, first, second)
    PROVE  Paired(e, i, first, second)
  BY DEF Outlives, Paired

LEMMA ProperOutlives ==
    ASSUME NEW d, NEW e, Outlives(d, e), NEW i \in DOMAIN d.ledger, Proper(d, i)
    PROVE  Proper(e, i)
  <1>1. /\ DOMAIN d.tasks \subseteq DOMAIN e.tasks
        /\ \A t \in DOMAIN d.tasks : e.tasks[t].stage = d.tasks[t].stage
        /\ DOMAIN d.ledger \subseteq DOMAIN e.ledger
        /\ \A j \in DOMAIN d.ledger : e.ledger[j] = d.ledger[j]
    BY DEF Outlives
  <1>2. ASSUME NEW j \in DOMAIN d.ledger, d.ledger[j].task \in DOMAIN d.tasks
        PROVE  StageOf(e, j) = StageOf(d, j)
    BY <1>1, <1>2 DEF StageOf
  <1>3. ASSUME NEW j, Handed(d, j) PROVE Handed(e, j)
    <2>1. Paired(d, j, "transfer_send", "transfer_receive") /\ j \in DOMAIN d.ledger /\ j + 1 \in DOMAIN d.ledger
      BY <1>3 DEF Handed, Paired
    <2>2. Paired(e, j, "transfer_send", "transfer_receive")
      BY <2>1, PairedOutlives
    <2>3. /\ d.ledger[j + 1].task \in DOMAIN d.tasks
          /\ d.ledger[j].task \in DOMAIN d.tasks => StageOf(e, j) = StageOf(d, j)
          /\ StageOf(e, j + 1) = StageOf(d, j + 1)
          /\ e.ledger[j] = d.ledger[j] /\ e.ledger[j + 1] = d.ledger[j + 1]
      BY <1>1, <1>2, <1>3, <2>1 DEF Handed
    <2> QED
      BY <1>1, <1>3, <2>2, <2>3 DEF Handed
  <1>4. ASSUME NEW j, Made(d, j) PROVE Made(e, j)
    <2>1. Paired(d, j, "transform_consume", "complete") /\ j \in DOMAIN d.ledger /\ j + 1 \in DOMAIN d.ledger
      BY <1>4 DEF Made, Paired
    <2>2. Paired(e, j, "transform_consume", "complete")
      BY <2>1, PairedOutlives
    <2>3. StageOf(e, j) = StageOf(d, j) /\ e.ledger[j] = d.ledger[j] /\ e.ledger[j + 1] = d.ledger[j + 1]
      BY <1>1, <1>2, <1>4, <2>1 DEF Made
    <2> QED
      BY <1>1, <1>4, <2>2, <2>3 DEF Made
  <1>5. e.ledger[i] = d.ledger[i]
    BY <1>1
  <1>6. Stocked(d, i) => Stocked(e, i)
    BY <1>5 DEF Stocked
  <1>7. Scrapped(d, i) => Scrapped(e, i)
    BY <1>1, <1>2, <1>5 DEF Scrapped
  <1>8. Released(d, i) => Released(e, i)
    BY <1>1, <1>2, <1>5 DEF Released
  <1>9. Returned(d, i) => Returned(e, i)
    BY <1>1, <1>2, <1>5 DEF Returned
  <1>10. (Handed(d, i - 1) => Handed(e, i - 1)) /\ (Made(d, i - 1) => Made(e, i - 1))
    BY <1>3, <1>4
  <1> QED
    BY <1>3, <1>4, <1>6, <1>7, <1>8, <1>9, <1>10, Zenon DEF Proper

(* Rows after rows, and one row. *)
LEMMA GrowsTwice ==
    ASSUME NEW d, NEW e, NEW f, NEW a, Grows(d, e, a), Grows(e, f, a)
    PROVE  Grows(d, f, a)
  <1>1. Outlives(d, f)
    BY DEF Grows, Outlives
  <1>2. ASSUME NEW i \in DOMAIN f.ledger \ DOMAIN d.ledger
        PROVE  f.ledger[i].action = a /\ f.ledger[i].reverses = NULL /\ Proper(f, i)
    <2>1. CASE i \in DOMAIN e.ledger
      <3>1. e.ledger[i].action = a /\ e.ledger[i].reverses = NULL /\ Proper(e, i)
        BY <2>1 DEF Grows
      <3>2. Outlives(e, f) /\ f.ledger[i] = e.ledger[i]
        BY <2>1 DEF Grows, Outlives
      <3>3. Proper(f, i)
        BY <2>1, <3>1, <3>2, ProperOutlives
      <3> QED
        BY <3>1, <3>2, <3>3
    <2>2. CASE i \notin DOMAIN e.ledger
      BY <2>2 DEF Grows
    <2> QED
      BY <2>1, <2>2
  <1> QED
    BY <1>1, <1>2 DEF Grows

LEMMA RowGrows ==
    ASSUME NEW d, Sound(d), NEW e, Onward(d, e), NEW r, e.ledger = Append(d.ledger, r),
           NEW a, r.action = a, r.reverses = NULL,
           (r = e.ledger[Len(d.ledger) + 1] /\ Len(d.ledger) + 1 \in DOMAIN e.ledger) =>
             Proper(e, Len(d.ledger) + 1)
    PROVE  Grows(d, e, a)
  <1> DEFINE n == Len(d.ledger) + 1
  <1>1. d.ledger \in Seq(LedgerRow)
    BY DatabaseFields DEF Sound, Sane
  <1>2. /\ DOMAIN e.ledger = DOMAIN d.ledger \cup {n}
        /\ \A i \in DOMAIN d.ledger : e.ledger[i] = d.ledger[i]
        /\ e.ledger[n] = r
    BY <1>1
  <1> HIDE DEF n
  <1>3. Outlives(d, e)
    BY <1>2 DEF Outlives, Onward
  <1>4. Proper(e, n)
    BY <1>2 DEF n
  <1> QED
    BY <1>2, <1>3, <1>4 DEF Grows

(* Rows by which task t alone makes or scraps something, n at most. *)
Portioned(d, e, t, n) ==
    /\ DOMAIN d.ledger \subseteq DOMAIN e.ledger
    /\ \A i \in DOMAIN d.ledger : e.ledger[i] = d.ledger[i]
    /\ \A i \in DOMAIN e.ledger \ DOMAIN d.ledger : e.ledger[i].reason \notin Handing
    /\ \A u : Received(e, u) = Received(d, u) /\ (u # t \/ n = 0 => Used(e, u) = Used(d, u))
    /\ Completed(e, t) + Rejected(e, t) <= Completed(d, t) + Rejected(d, t) + n

LEMMA PortionNone ==
    ASSUME NEW d, Typed(d), NEW t
    PROVE  Portioned(d, d, t, 0)
  <1>1. Completed(d, t) \in Nat /\ Rejected(d, t) \in Nat
    BY UsedType
  <1> QED
    BY <1>1 DEF Portioned

LEMMA PortionTwice ==
    ASSUME NEW d, Typed(d), NEW e, Typed(e), NEW f, Typed(f), NEW t, NEW m \in Nat, NEW n \in Nat,
           Portioned(d, e, t, m), Portioned(e, f, t, n)
    PROVE  Portioned(d, f, t, m + n)
  <1>1. /\ Completed(d, t) \in Nat /\ Rejected(d, t) \in Nat
        /\ Completed(e, t) \in Nat /\ Rejected(e, t) \in Nat
        /\ Completed(f, t) \in Nat /\ Rejected(f, t) \in Nat
    BY UsedType
  <1>2. Completed(f, t) + Rejected(f, t) <= Completed(d, t) + Rejected(d, t) + (m + n)
    BY <1>1 DEF Portioned
  <1>3. m + n = 0 => m = 0 /\ n = 0
    OBVIOUS
  <1>4. /\ DOMAIN d.ledger \subseteq DOMAIN f.ledger
        /\ \A i \in DOMAIN d.ledger : f.ledger[i] = d.ledger[i]
    BY DEF Portioned
  <1>5. ASSUME NEW i \in DOMAIN f.ledger \ DOMAIN d.ledger PROVE f.ledger[i].reason \notin Handing
    <2>1. CASE i \in DOMAIN e.ledger
      BY <2>1 DEF Portioned
    <2>2. CASE i \notin DOMAIN e.ledger
      BY <2>2 DEF Portioned
    <2> QED
      BY <2>1, <2>2
  <1>6. ASSUME NEW u
        PROVE  Received(f, u) = Received(d, u) /\ (u # t \/ m + n = 0 => Used(f, u) = Used(d, u))
    BY <1>3 DEF Portioned
  <1> QED
    BY <1>2, <1>4, <1>5, <1>6 DEF Portioned

LEMMA PortionRow ==
    ASSUME NEW d, Typed(d), NEW e, NEW r, r.quantity \in Nat, r.reverses = NULL, r.reason \notin Handing,
           e.ledger = Append(d.ledger, r)
    PROVE  Portioned(d, e, r.task, IF r.reason \in { "complete", "scrap" } THEN r.quantity ELSE 0)
  <1> DEFINE t == r.task
             n == IF r.reason \in { "complete", "scrap" } THEN r.quantity ELSE 0
             more(T, reason) == IF r.task \in T /\ r.reason = reason THEN r.quantity ELSE 0
  <1>1. ASSUME NEW u, NEW reason
        PROVE  /\ Net(e, {u}, reason) = Net(d, {u}, reason) + more({u}, reason)
               /\ Gross(e, {u}, reason) = Gross(d, {u}, reason) + more({u}, reason)
    <2>1. PICK T : T = {u}
      OBVIOUS
    <2>2. Net(e, T, reason) = Net(d, T, reason) + more(T, reason)
      BY NetsWithRow
    <2>3. Gross(e, T, reason) = Gross(d, T, reason) + more(T, reason)
      BY NetsWithRow
    <2> HIDE DEF more
    <2>4. Net(e, {u}, reason) = Net(d, {u}, reason) + more({u}, reason)
      BY <2>1, <2>2
    <2>5. Gross(e, {u}, reason) = Gross(d, {u}, reason) + more({u}, reason)
      BY <2>1, <2>3
    <2> QED
      BY <2>4, <2>5
  <1>2. ASSUME NEW u, NEW reason, u # t \/ r.reason # reason
        PROVE  more({u}, reason) = 0
    BY <1>2
  <1> HIDE DEF more
  <1>3. ASSUME NEW u, NEW reason
        PROVE  Net(d, {u}, reason) \in Nat /\ Gross(d, {u}, reason) \in Nat
    BY NetInForce
  <1>4. d.ledger \in Seq(LedgerRow)
    BY DatabaseFields
  <1>5. /\ DOMAIN d.ledger \subseteq DOMAIN e.ledger
        /\ \A i \in DOMAIN d.ledger : e.ledger[i] = d.ledger[i]
        /\ \A i \in DOMAIN e.ledger \ DOMAIN d.ledger : e.ledger[i] = r
    BY <1>4
  <1>6. ASSUME NEW u PROVE Received(e, u) = Received(d, u)
    <2>1. more({u}, "transfer_receive") = 0
      BY <1>2 DEF Handing
    <2>2. Net(e, {u}, "transfer_receive") = Net(d, {u}, "transfer_receive") + more({u}, "transfer_receive")
      BY <1>1
    <2>3. Net(d, {u}, "transfer_receive") \in Nat
      BY <1>3
    <2> QED
      BY <2>1, <2>2, <2>3 DEF Received
  <1>7. ASSUME NEW u, u # t \/ n = 0 PROVE Used(e, u) = Used(d, u)
    <2>1. more({u}, "complete") = 0 /\ more({u}, "scrap") = 0
      <3>1. CASE u # t
        BY <1>2, <3>1
      <3>2. CASE n = 0
        <4>1. r.quantity = 0 \/ (r.reason # "complete" /\ r.reason # "scrap")
          BY <3>2
        <4> QED
          BY <4>1 DEF more
      <3> QED
        BY <1>7, <3>1, <3>2
    <2>2. Net(e, {u}, "complete") = Net(d, {u}, "complete") + 0
      BY <1>1, <2>1
    <2>3. Net(e, {u}, "scrap") = Net(d, {u}, "scrap") + 0
      BY <1>1, <2>1
    <2>4. Net(d, {u}, "complete") \in Nat /\ Net(d, {u}, "scrap") \in Nat
      BY <1>3
    <2> QED
      BY <2>2, <2>3, <2>4 DEF Used
  <1>8. Completed(e, t) + Rejected(e, t) <= Completed(d, t) + Rejected(d, t) + n
    <2>1. Gross(e, {t}, "complete") = Gross(d, {t}, "complete") + more({t}, "complete")
      BY <1>1
    <2>2. Gross(e, {t}, "scrap") = Gross(d, {t}, "scrap") + more({t}, "scrap")
      BY <1>1
    <2>3. more({t}, "complete") \in Nat /\ more({t}, "scrap") \in Nat /\ n \in Nat
      BY DEF more
    <2>4. more({t}, "complete") + more({t}, "scrap") <= n
      BY DEF more
    <2>5. Gross(d, {t}, "complete") \in Nat /\ Gross(d, {t}, "scrap") \in Nat
      BY <1>3
    <2> HIDE DEF n, t
    <2> QED
      BY <2>1, <2>2, <2>3, <2>4, <2>5 DEF Completed, Rejected
  <1> QED
    BY <1>5, <1>6, <1>7, <1>8 DEF Portioned

(* A task that makes no more than it has in work does not live on others. *)
LEMMA PortionLives ==
    ASSUME NEW d, Typed(d), NEW e, Typed(e), NEW t, NEW n \in Nat, Portioned(d, e, t, n),
           n = 0 \/ n <= InWork(d, t)
    PROVE  Lives(d, e)
  <1> SUFFICES ASSUME NEW u
               PROVE  \/ Used(e, u) <= Received(e, u)
                      \/ Used(e, u) - Received(e, u) <= Used(d, u) - Received(d, u)
    BY DEF Lives
  <1>1. /\ Used(d, u) \in Nat /\ Received(d, u) \in Nat /\ Used(e, u) \in Nat /\ Received(e, u) \in Nat
        /\ Used(e, t) \in Nat /\ Used(e, t) <= Completed(e, t) + Rejected(e, t)
        /\ Completed(e, t) \in Nat /\ Rejected(e, t) \in Nat
        /\ Completed(d, t) \in Nat /\ Rejected(d, t) \in Nat /\ Received(d, t) \in Nat
    BY UsedType
  <1>2. Received(e, u) = Received(d, u)
    BY DEF Portioned
  <1>3. CASE u # t \/ n = 0
    <2>1. Used(e, u) = Used(d, u)
      BY <1>3 DEF Portioned
    <2> QED
      BY <1>1, <1>2, <2>1
  <1>4. CASE u = t /\ n # 0
    <2>1. Completed(e, t) + Rejected(e, t) <= Completed(d, t) + Rejected(d, t) + n
      BY DEF Portioned
    <2>2. n <= Received(d, t) - Completed(d, t) - Rejected(d, t)
      BY <1>4 DEF InWork
    <2> QED
      BY <1>1, <1>2, <1>4, <2>1, <2>2
  <1> QED
    BY <1>3, <1>4

(* A portion. *)
LEMMA PortionSound ==
    ASSUME NEW d, Sound(d), NEW t \in DOMAIN d.tasks, NEW good \in Nat, NEW defect \in Nat,
           NEW a \in DOMAIN d.journal, Reached(d, a) = {},
           NEW e, e = PortionPosted(d, t, good, defect, a), e # Failed
    PROVE  Continues(d, e) /\ Grows(d, e, a) /\ Later(d, e) /\ Portioned(d, e, t, good + defect)
  <1> DEFINE s == d.tasks[t].stage
             c == IF good = 0 THEN d
                  ELSE Recorded(d, Row(t, "transform_consume", good, Input(s), NULL), a)
             p == IF good = 0 THEN d
                  ELSE Recorded(c, Row(t, "complete", good, NULL, Output(s)), a)
  <1>1. e = IF defect = 0 THEN p
            ELSE Recorded(p, Row(t, "scrap", defect, Input(s), ScrapStore(s)), a)
    BY DEF PortionPosted
  <1>2. s \in Stages
    BY DatabaseFields DEF Sound, Sane, TaskRow
  <1>3. /\ Input(s) \in Nullable(Place) /\ Output(s) \in Nullable(Place)
        /\ ScrapStore(s) \in Nullable(Place) /\ NULL \in Nullable(Place)
        /\ Output(s) # NULL /\ ScrapStore(s) # NULL /\ ScrapStore(s) # Output(s)
    BY <1>2, StagePlaces
  <1>4. /\ "transform_consume" \in Reasons /\ "complete" \in Reasons /\ "scrap" \in Reasons
        /\ "transform_consume" # "transfer_receive" /\ "complete" # "transfer_receive"
        /\ "scrap" # "transfer_receive"
    BY DEF Reasons
  <1>5. Continues(d, d) /\ Grows(d, d, a) /\ Later(d, d)
    BY OnwardSame, LaterSame DEF Continues, Grows, Outlives, Sound, Sane
  <1>10. s = d.tasks[t].stage /\ a # NULL
    BY DatabaseFields, NullIsNoValue DEF Sound, Sane
  <1> HIDE DEF s
  <1>6. p # Failed
    <2>1. CASE defect = 0
      BY <1>1, <2>1
    <2>2. CASE defect # 0
      BY <1>1, <2>2 DEF Recorded
    <2> QED
      BY <2>1, <2>2
  <1>7. /\ Continues(d, p) /\ ScrapStore(s) \notin Reached(p, a) /\ Grows(d, p, a) /\ Later(d, p)
        /\ Portioned(d, p, t, good)
    <2>1. CASE good = 0
      <3>1. Portioned(d, d, t, 0)
        BY PortionNone DEF Sound, Sane
      <3> QED
        BY <1>5, <2>1, <3>1
    <2>2. CASE good # 0
      <3>1. c = Recorded(d, Row(t, "transform_consume", good, Input(s), NULL), a)
        BY <2>2
      <3>2. p = Recorded(c, Row(t, "complete", good, NULL, Output(s)), a)
        BY <2>2
      <3> HIDE DEF c, p
      <3>3. c # Failed
        BY <1>6, <3>2 DEF Recorded
      <3>4. good \in Nat \ {0}
        BY <2>2
      <3>9. Stepped(d, d, c, t, "transform_consume", good, Input(s), NULL, a)
        BY <1>3, <1>4, <1>5, <3>1, <3>3, <3>4, StepRecorded
      <3>5. Continues(d, c) /\ Reached(c, a) = Reached(d, a) \cup {NULL}
        BY <3>9 DEF Stepped
      <3>6. Output(s) \notin Reached(c, a)
        BY <1>3, <3>5
      <3>8. Stepped(d, c, p, t, "complete", good, NULL, Output(s), a)
        BY <1>3, <1>4, <1>6, <3>2, <3>4, <3>5, <3>6, StepRecorded
      <3>7. Continues(d, p) /\ Reached(p, a) = Reached(c, a) \cup {Output(s)}
        BY <3>8 DEF Stepped
      <3>10. Grows(d, p, a)
        <4> DEFINE n == Len(d.ledger) + 1
                   x == [ Row(t, "transform_consume", good, Input(s), NULL) EXCEPT !.action = a ]
                   y == [ Row(t, "complete", good, NULL, Output(s)) EXCEPT !.action = a ]
        <4>1. p.ledger = Append(Append(d.ledger, x), y) /\ d.ledger \in Seq(LedgerRow)
          BY <3>8, <3>9, DatabaseFields DEF Stepped, Sound, Sane
        <4>2. /\ x.task = t /\ x.reason = "transform_consume" /\ x.quantity = good /\ x.from = Input(s)
              /\ x.to = NULL /\ x.action = a /\ x.reverses = NULL
              /\ y.task = t /\ y.reason = "complete" /\ y.quantity = good /\ y.from = NULL
              /\ y.to = Output(s) /\ y.action = a /\ y.reverses = NULL
          BY DEF Row
        <4> HIDE DEF x, y
        <4>3. /\ DOMAIN p.ledger = DOMAIN d.ledger \cup { n, n + 1 } /\ n \in Nat
              /\ \A i \in DOMAIN d.ledger : p.ledger[i] = d.ledger[i]
              /\ p.ledger[n] = x /\ p.ledger[n + 1] = y
          BY <4>1, TwoAppended
        <4> HIDE DEF n
        <4>4. /\ DOMAIN p.tasks = DOMAIN d.tasks
              /\ \A u \in DOMAIN d.tasks : p.tasks[u].stage = d.tasks[u].stage
          BY <3>7 DEF Continues, Onward
        <4>5. Outlives(d, p)
          BY <4>3, <4>4 DEF Outlives
        <4>6. Paired(p, n, "transform_consume", "complete")
          BY <1>10, <4>2, <4>3 DEF Paired
        <4>7. StageOf(p, n) = s
          BY <1>10, <4>2, <4>3, <4>4 DEF StageOf
        <4>8. Made(p, n)
          BY <4>2, <4>3, <4>4, <4>6, <4>7 DEF Made
        <4>9. Proper(p, n) /\ Proper(p, n + 1)
          <5>1. (n + 1) - 1 = n
            BY <4>3
          <5>2. Made(p, (n + 1) - 1)
            BY <4>8, <5>1, Zenon
          <5> QED
            BY <4>8, <5>2, Zenon DEF Proper
        <4> QED
          BY <4>2, <4>3, <4>5, <4>9 DEF Grows
      <3>11. Later(d, p)
        <4>1. Later(d, c) /\ Later(c, p)
          BY <3>8, <3>9 DEF Stepped
        <4>2. Typed(d) /\ Typed(c) /\ Typed(p)
          BY <3>5, <3>7 DEF Continues, Sound, Sane
        <4> QED
          BY <4>1, <4>2, LaterTwice
      <3>12. Portioned(d, p, t, good)
        <4>1. Typed(d) /\ Typed(c) /\ Typed(p)
          BY <3>5, <3>7 DEF Continues, Sound, Sane
        <4>2. Portioned(d, c, t, 0)
          <5> DEFINE x == [ Row(t, "transform_consume", good, Input(s), NULL) EXCEPT !.action = a ]
          <5>1. x.task = t /\ x.reason = "transform_consume" /\ x.quantity = good /\ x.reverses = NULL
            BY DEF Row
          <5>2. c.ledger = Append(d.ledger, x)
            BY <3>9 DEF Stepped
          <5> HIDE DEF x
          <5>3. x.reason \notin Handing /\ ~(x.reason \in { "complete", "scrap" })
            BY <5>1 DEF Handing
          <5>4. Portioned(d, c, x.task, IF x.reason \in { "complete", "scrap" } THEN x.quantity ELSE 0)
            BY <4>1, <5>1, <5>2, <5>3, PortionRow
          <5> QED
            BY <5>1, <5>3, <5>4
        <4>3. Portioned(c, p, t, good)
          <5> DEFINE x == [ Row(t, "complete", good, NULL, Output(s)) EXCEPT !.action = a ]
          <5>1. x.task = t /\ x.reason = "complete" /\ x.quantity = good /\ x.reverses = NULL
            BY DEF Row
          <5>2. p.ledger = Append(c.ledger, x)
            BY <3>8 DEF Stepped
          <5> HIDE DEF x
          <5>3. x.reason \notin Handing /\ x.reason \in { "complete", "scrap" }
            BY <5>1 DEF Handing
          <5>4. Portioned(c, p, x.task, IF x.reason \in { "complete", "scrap" } THEN x.quantity ELSE 0)
            BY <4>1, <5>1, <5>2, <5>3, PortionRow
          <5> QED
            BY <5>1, <5>3, <5>4
        <4>4. Portioned(d, p, t, 0 + good)
          BY <4>1, <4>2, <4>3, PortionTwice
        <4> QED
          BY <4>4
      <3> QED
        BY <1>3, <3>5, <3>7, <3>10, <3>11, <3>12
    <2> QED
      BY <2>1, <2>2
  <1> HIDE DEF p
  <1>8. CASE defect = 0
    <2>1. good + defect = good /\ e = p
      BY <1>1, <1>8
    <2> QED
      BY <1>7, <2>1
  <1>9. CASE defect # 0
    <2>1. e = Recorded(p, Row(t, "scrap", defect, Input(s), ScrapStore(s)), a) /\ defect \in Nat \ {0}
      BY <1>1, <1>9
    <2>2. Stepped(d, p, e, t, "scrap", defect, Input(s), ScrapStore(s), a)
      BY <1>3, <1>4, <1>7, <2>1, StepRecorded
    <2> DEFINE r == [ Row(t, "scrap", defect, Input(s), ScrapStore(s)) EXCEPT !.action = a ]
               n == Len(p.ledger) + 1
    <2>3. /\ Continues(d, e) /\ Onward(p, e) /\ e.ledger = Append(p.ledger, r)
      BY <2>2 DEF Stepped
    <2>4. /\ r.task = t /\ r.reason = "scrap" /\ r.quantity = defect /\ r.from = Input(s) /\ r.to = ScrapStore(s)
          /\ r.action = a /\ r.reverses = NULL
      BY DEF Row
    <2> HIDE DEF r, n
    <2>5. DOMAIN e.tasks = DOMAIN d.tasks /\ e.tasks[t].stage = s
      BY <1>10, <2>3 DEF Continues, Onward
    <2>6. e.ledger[n] = r => Proper(e, n)
      BY <2>4, <2>5 DEF Proper, Scrapped, StageOf
    <2>7. Sound(p)
      BY <1>7 DEF Continues
    <2>8. Grows(p, e, a)
      BY <2>3, <2>4, <2>6, <2>7, RowGrows DEF n
    <2>9. Grows(d, e, a)
      BY <1>7, <2>8, GrowsTwice
    <2>10. Later(d, e)
      <3>1. Typed(d) /\ Typed(p) /\ Typed(e) /\ Later(p, e)
        BY <2>2, <2>3, <2>7 DEF Stepped, Continues, Sound, Sane
      <3> QED
        BY <1>7, <3>1, LaterTwice
    <2>11. Portioned(p, e, t, defect)
      <3>1. r.reason \notin Handing /\ r.reason \in { "complete", "scrap" }
        BY <2>4 DEF Handing
      <3>2. Portioned(p, e, r.task, IF r.reason \in { "complete", "scrap" } THEN r.quantity ELSE 0)
        BY <2>3, <2>4, <2>7, <3>1, PortionRow DEF Sound, Sane
      <3> QED
        BY <2>4, <3>1, <3>2
    <2>12. Portioned(d, e, t, good + defect)
      <3>1. Typed(d) /\ Typed(p) /\ Typed(e)
        BY <2>3, <2>7 DEF Continues, Sound, Sane
      <3> QED
        BY <1>7, <2>11, <3>1, PortionTwice
    <2> QED
      BY <2>3, <2>9, <2>10, <2>12
  <1> QED
    BY <1>8, <1>9
(* The plan of the task that the last action sent to becomes the portion. *)
LEMMA PortionPlanned ==
    ASSUME NEW d, Sound(d), NEW t \in DOMAIN d.tasks, Len(d.journal) # 0,
           d.journal[Len(d.journal)].to = t, NEW q \in Nat, NEW e, e = PlanIsPortion(d, q), d # Failed
    PROVE  Continues(d, e) /\ e.ledger = d.ledger /\ (~Unsent => Later(d, e))
  <1> DEFINE task == [ d.tasks[t] EXCEPT !.planned = q ]
  <1>1. e = [ d EXCEPT !.tasks = [ d.tasks EXCEPT ![t] = task ] ]
    BY DEF PlanIsPortion
  <1>2. d.tasks[t] \in TaskRow
    BY DatabaseFields DEF Sound, Sane
  <1>3. /\ task \in TaskRow /\ task.status = d.tasks[t].status
        /\ task.position = d.tasks[t].position /\ task.stage = d.tasks[t].stage
        /\ task.skippedBy = d.tasks[t].skippedBy
    BY <1>2 DEF TaskRow
  <1> HIDE DEF task
  <1>4. task.status # d.tasks[t].status =>
          task.status = "ready" /\ d.tasks[t].status = "waiting_previous"
    BY <1>3
  <1>5. /\ task.position = d.tasks[t].position /\ task.stage = d.tasks[t].stage
        /\ task.skippedBy = d.tasks[t].skippedBy /\ task \in TaskRow
    BY <1>3
  <1>6. /\ Continues(d, e) /\ e.ledger = d.ledger /\ e.tasks[t] = task
        /\ \A u \in DOMAIN d.tasks : u # t => e.tasks[u] = d.tasks[u]
    BY <1>1, <1>4, <1>5, TaskMoved
  <1>7. Typed(d) /\ DOMAIN e.tasks = DOMAIN d.tasks /\ \A u \in DOMAIN d.tasks : Settles(d, e, u)
    BY <1>3, <1>6 DEF Continues, Onward, Sound, Sane, Settles
  <1>8. ~Unsent => Later(d, e)
    BY <1>6, <1>7, LaterMoved
  <1> QED
    BY <1>6, <1>8

(* A task is changed. *)
LEMMA ContinuedChanges ==
    ASSUME NEW d, Sound(d), NEW e, Continues(d, e), e.ledger = d.ledger, Later(d, e)
    PROVE  Change(d, e)
  <1>1. Sound(e) /\ SameLines(d, e) /\ e.journal = d.journal
    BY DEF Continues, Onward, SameLines
  <1>2. Lives(d, e)
    BY <1>1, LivesSame DEF Sound, Sane
  <1> QED
    BY <1>1, <1>2 DEF Change, Moves

LEMMA ClosedStep ==
    ASSUME NEW S, Closed(S), NEW d \in S, NEW e, Change(d, e)
    PROVE  e \in S /\ Sound(e)
  BY DEF Closed

LEMMA ClosedSound ==
    ASSUME NEW S, Closed(S), NEW d \in S
    PROVE  Sound(d)
  BY DEF Closed

(* An action of a task posts its rows. *)
LEMMA TaskActionChanges ==
    ASSUME NEW d, Sound(d), NEW l, NEW type \in TaskActionFamily, NEW t, NEW q,
           LoggedBy(d, l, TaskEntry(d, type, t, q)),
           NEW e, Continues(l, e), Grows(l, e, NextAction(d)), Later(l, e),
           NEW n \in Nat, Portioned(l, e, t, n), n = 0 \/ n <= InWork(d, t)
    PROVE  Change(d, e)
  <1> DEFINE entry == TaskEntry(d, type, t, q)
             a == NextAction(d)
  <1>1. entry.type # "transfer_send" /\ entry.active = TRUE /\ entry.transfer # "accepted"
    BY NullIsNoValue DEF TaskEntry, TaskActionFamily, TransferStatus
  <1>2. /\ l.tasks = d.tasks /\ l.ledger = d.ledger /\ l.reopened = d.reopened
        /\ l.journal = Append(d.journal, entry)
    BY DEF LoggedBy
  <1>3. /\ Sound(e) /\ Onward(l, e) /\ e.journal = Append(d.journal, entry)
    BY <1>2 DEF Continues
  <1>4. SameLines(d, e)
    BY <1>2, <1>3 DEF SameLines, Onward
  <1>5. Outlives(d, e)
    BY <1>2 DEF Grows, Outlives
  <1>6. Grows(d, e, a)
    BY <1>2, <1>5 DEF Grows
  <1>7. d.journal \in Seq(ActionRow) /\ a = Len(d.journal) + 1
    BY DatabaseFields DEF Sound, Sane, NextAction
  <1> HIDE DEF entry, a
  <1>8. e.journal[a] = entry
    BY <1>3, <1>7
  <1>9. Entered(e, a)
    <2> SUFFICES ASSUME NEW j \in DOMAIN e.ledger, e.ledger[j].action = a
                 PROVE  e.ledger[j].reason \notin Handing
      BY <1>1, <1>8 DEF Entered
    <2>1. CASE j \in DOMAIN d.ledger
      <3>1. d.ledger[j].action \in Nullable(DOMAIN d.journal)
        BY <2>1 DEF Sound, Sane, Typed, Refer
      <3>2. e.ledger[j] = d.ledger[j]
        BY <1>5, <2>1 DEF Outlives
      <3>3. a # NULL /\ a \notin DOMAIN d.journal
        BY <1>7, DatabaseFields, NullIsNoValue DEF Sound, Sane
      <3> QED
        BY <3>1, <3>2, <3>3 DEF Nullable
    <2>2. CASE j \notin DOMAIN d.ledger
      BY <1>2, <2>2 DEF Portioned
    <2> QED
      BY <2>1, <2>2
  <1>10. Posted(d, e, entry)
    BY <1>1, <1>3, <1>6, <1>9 DEF Posted, a
  <1>11. Later(d, e)
    <2>1. Typed(d) /\ Typed(l) /\ Typed(e)
      BY <1>3 DEF LoggedBy, Sound, Sane
    <2>2. Later(d, l)
      BY <1>2, <2>1, LaterSame
    <2> QED
      BY <2>1, <2>2, LaterTwice
  <1>12. Lives(d, e)
    <2>1. Typed(d) /\ Typed(l) /\ Typed(e)
      BY <1>3 DEF LoggedBy, Sound, Sane
    <2>2. InWork(l, t) = InWork(d, t)
      BY <1>2, SameLedger DEF InWork, Received, Completed, Rejected
    <2>3. Lives(l, e)
      BY <2>1, <2>2, PortionLives
    <2>4. Lives(d, l)
      BY <1>2, <2>1, LivesSame
    <2> QED
      BY <2>1, <2>3, <2>4, LivesTwice
  <1> QED
    BY <1>3, <1>4, <1>10, <1>11, <1>12 DEF Change, Moves

(* The portion sent on. *)
LEMMA SentOnChanges ==
    ASSUME NEW S, Closed(S), NEW d \in S, NEW t \in DOMAIN d.tasks, NEW good \in Nat,
           TRUE \in AutoTransfer, NEW e, e = SentOn(d, t, good), e # Failed
    PROVE  e \in S
  <1> DEFINE x == Sent(d, t, NULL, good, FALSE)
  <1>0. Sound(d)
    BY ClosedSound
  <1>1. CASE d = Failed \/ good = 0 \/ d.tasks[t].stage \notin CrossSpg \ {LastStage}
    BY <1>1 DEF SentOn
  <1>2. CASE ~(d = Failed \/ good = 0 \/ d.tasks[t].stage \notin CrossSpg \ {LastStage})
    <2>1. e = PlanIsPortion(x, good)
      BY <1>2 DEF SentOn
    <2>2. x # Failed
      BY <2>1 DEF PlanIsPortion
    <2>3. good \in Nat \ {0} /\ NULL \in Nullable(DOMAIN d.tasks)
      BY <1>2 DEF Nullable
    <2> DEFINE place == Output(d.tasks[t].stage)
    <2> HIDE DEF x
    <2>4. PICK u \in DOMAIN x.tasks : Passed(d, x, t, place, u, good, NULL) /\ Supplied(d, x, t, place, u)
      <3>1. x = Sent(d, t, NULL, good, FALSE)
        BY DEF x
      <3>2. \E u \in DOMAIN x.tasks : /\ Passed(d, x, t, Output(d.tasks[t].stage), u, good, NULL)
                                      /\ Supplied(d, x, t, Output(d.tasks[t].stage), u)
        BY <1>0, <2>2, <2>3, <3>1, SentPasses
      <3> QED
        BY <3>2
    <2>5. /\ Sound(x) /\ x.journal = Append(d.journal, TransferEntry(t, u, good, NULL))
      BY <2>4 DEF Passed
    <2>6. d.journal \in Seq(ActionRow) /\ Len(d.journal) \in Nat
      BY <1>0, DatabaseFields DEF Sound, Sane
    <2> DEFINE entry == TransferEntry(t, u, good, NULL)
    <2>7. entry.to = u
      BY DEF TransferEntry
    <2> HIDE DEF entry, place
    <2>8. Len(x.journal) = Len(d.journal) + 1 /\ x.journal[Len(x.journal)] = entry
      BY <2>5, <2>6 DEF entry
    <2>9. Len(x.journal) # 0 /\ x.journal[Len(x.journal)].to = u
      BY <2>6, <2>7, <2>8
    <2>10. Continues(x, e) /\ e.ledger = x.ledger /\ Later(x, e)
      <3>1. ~Unsent
        BY <1>2 DEF Unsent
      <3> QED
        BY <2>1, <2>2, <2>5, <2>9, <3>1, PortionPlanned
    <2>11. Change(d, x) /\ Change(x, e)
      BY <1>0, <2>4, <2>5, <2>10, PassedChanges, ContinuedChanges
    <2>12. x \in S
      BY <2>11, ClosedStep
    <2> QED
      BY <2>11, <2>12, ClosedStep
  <1> QED
    BY <1>1, <1>2

(* What commits is the next database. *)
LEMMA Committed ==
    ASSUME NEW e, Commits(e)
    PROVE  e # Failed /\ db' = e /\ Len(e.journal) <= MaxActions /\ Len(e.tasks) <= MaxTasks
  BY DEF Commits

LEMMA CompleteTaskChanges ==
    ASSUME NEW S, Closed(S), db \in S, NEW t \in DOMAIN db.tasks, NEW good \in Nat, NEW defect \in Nat,
           NEW auto \in AutoTransfer, CompleteTask(t, good, defect, auto)
    PROVE  db' \in S
  <1> DEFINE a == NextAction(db)
             l == LoggedTaskAction(db, "task_complete", t, good + defect)
             p == PortionPosted(l, t, good, defect, a)
             e == IF auto THEN SentOn(p, t, good) ELSE p
  <1>0. Sound(db)
    BY ClosedSound
  <1>1. e # Failed /\ db' = e
    BY Committed DEF CompleteTask
  <1>2. "task_complete" \in TaskActionFamily /\ good + defect \in Nat
    BY DEF TaskActionFamily
  <1> HIDE DEF p
  <1>3. LoggedBy(db, l, TaskEntry(db, "task_complete", t, good + defect))
    BY <1>0, <1>2, TaskActionLogged
  <1> HIDE DEF l, a
  <1>4. /\ Sound(l) /\ l.tasks = db.tasks /\ a \in DOMAIN l.journal /\ Reached(l, a) = {}
    BY <1>3 DEF LoggedBy, a
  <1>5. p # Failed
    <2>1. CASE auto
      BY <1>1, <2>1 DEF SentOn
    <2>2. CASE ~auto
      BY <1>1, <2>2
    <2> QED
      BY <2>1, <2>2
  <1>6. t \in DOMAIN l.tasks /\ p = PortionPosted(l, t, good, defect, a)
    BY <1>4 DEF p
  <1>7. Continues(l, p) /\ Grows(l, p, a) /\ Later(l, p) /\ Portioned(l, p, t, good + defect)
    BY <1>4, <1>5, <1>6, PortionSound
  <1>8. p \in S /\ t \in DOMAIN p.tasks
    <2>3. good + defect <= InWork(db, t)
      BY DEF CompleteTask
    <2>1. Change(db, p)
      BY <1>0, <1>2, <1>3, <1>7, <2>3, TaskActionChanges DEF a
    <2>2. p \in S
      BY <2>1, ClosedStep
    <2> QED
      BY <1>6, <1>7, <2>2 DEF Continues, Onward
  <1>9. CASE auto
    <2>1. e = SentOn(p, t, good)
      BY <1>9
    <2> HIDE DEF e
    <2>3. TRUE \in AutoTransfer
      BY <1>9, TaskFlowConstants
    <2>2. e \in S
      BY <1>1, <1>8, <2>1, <2>3, SentOnChanges
    <2> QED
      BY <1>1, <2>2
  <1>10. CASE ~auto
    BY <1>1, <1>8, <1>10
  <1> QED
    BY <1>9, <1>10

(* The action of a task with one row. *)
LEMMA OneRowChanges ==
    ASSUME NEW S, Closed(S), db \in S, NEW t \in DOMAIN db.tasks, NEW type \in TaskActionFamily,
           NEW reason \in Reasons, NEW q \in Nat \ {0},
           NEW from \in Nullable(Place), NEW to \in Nullable(Place),
           \/ /\ reason = "final_release" /\ db.tasks[t].stage = LastStage
              /\ from = Output(LastStage) /\ to = FinishedGoods
           \/ /\ reason = "return_to_stock" /\ from = Input(db.tasks[t].stage) /\ to = NULL,
           Commits(Recorded(LoggedTaskAction(db, type, t, q), Row(t, reason, q, from, to),
                            NextAction(db)))
    PROVE  db' \in S
  <1> DEFINE a == NextAction(db)
             l == LoggedTaskAction(db, type, t, q)
             e == Recorded(l, Row(t, reason, q, from, to), a)
             s == db.tasks[t].stage
  <1>0. Sound(db)
    BY ClosedSound
  <1>1. e # Failed /\ db' = e
    BY Committed
  <1> HIDE DEF e
  <1>2. LoggedBy(db, l, TaskEntry(db, type, t, q))
    BY <1>0, TaskActionLogged
  <1> HIDE DEF l, a
  <1>3. /\ Sound(l) /\ l.tasks = db.tasks /\ a \in DOMAIN l.journal /\ Reached(l, a) = {}
    BY <1>2 DEF LoggedBy, a
  <1>4. Continues(l, l) /\ t \in DOMAIN l.tasks /\ (to = NULL \/ to \notin Reached(l, a))
    BY <1>3, OnwardSame DEF Continues
  <1>5. e = Recorded(l, Row(t, reason, q, from, to), a) /\ reason # "transfer_receive"
    BY DEF e
  <1>6. Stepped(l, l, e, t, reason, q, from, to, a)
    BY <1>1, <1>3, <1>4, <1>5, StepRecorded
  <1> DEFINE r == [ Row(t, reason, q, from, to) EXCEPT !.action = a ]
             n == Len(l.ledger) + 1
  <1>7. Continues(l, e) /\ Onward(l, e) /\ e.ledger = Append(l.ledger, r) /\ Later(l, e)
    BY <1>6 DEF Stepped
  <1>8. /\ r.task = t /\ r.reason = reason /\ r.from = from /\ r.to = to
        /\ r.action = a /\ r.reverses = NULL
    BY DEF Row
  <1> HIDE DEF r, n
  <1>9. DOMAIN e.tasks = DOMAIN db.tasks /\ e.tasks[t].stage = s
    BY <1>3, <1>7 DEF Onward
  <1>10. e.ledger[n] = r => Proper(e, n)
    <2> SUFFICES ASSUME e.ledger[n] = r PROVE Released(e, n) \/ Returned(e, n)
      BY DEF Proper
    <2>1. StageOf(e, n) = s /\ e.ledger[n].task \in DOMAIN e.tasks
      BY <1>8, <1>9 DEF StageOf
    <2> QED
      BY <1>8, <2>1 DEF Released, Returned
  <1>11. Grows(l, e, a)
    BY <1>3, <1>7, <1>8, <1>10, RowGrows DEF n
  <1>13. Portioned(l, e, t, 0)
    <2>1. r.reason \notin Handing /\ ~(r.reason \in { "complete", "scrap" }) /\ r.quantity = q
      BY <1>8 DEF Handing, r, Row
    <2>2. Portioned(l, e, r.task, IF r.reason \in { "complete", "scrap" } THEN r.quantity ELSE 0)
      BY <1>3, <1>7, <1>8, <2>1, PortionRow DEF Sound, Sane
    <2> QED
      BY <1>8, <2>1, <2>2
  <1>12. Change(db, e)
    BY <1>0, <1>2, <1>7, <1>11, <1>13, TaskActionChanges DEF a
  <1> QED
    BY <1>1, <1>12, ClosedStep

LEMMA FinalReleaseChanges ==
    ASSUME NEW S, Closed(S), db \in S, NEW t \in DOMAIN db.tasks, NEW q \in Nat \ {0}, FinalRelease(t, q)
    PROVE  db' \in S
  <1>1. LastStage \in Stages
    BY TaskFlowConstants DEF Stages
  <1>2. Output(LastStage) \in Nullable(Place) /\ FinishedGoods \in Nullable(Place)
    BY <1>1, StagePlaces
  <1>3. "final_release" \in TaskActionFamily /\ "final_release" \in Reasons
    BY DEF TaskActionFamily, Reasons
  <1>4. /\ db.tasks[t].stage = LastStage
        /\ Commits(Recorded(LoggedTaskAction(db, "final_release", t, q),
                            Row(t, "final_release", q, Output(LastStage), FinishedGoods),
                            NextAction(db)))
    BY DEF FinalRelease
  <1> QED
    BY <1>2, <1>3, <1>4, OneRowChanges

LEMMA ReturnRemainderChanges ==
    ASSUME NEW S, Closed(S), db \in S, NEW t \in DOMAIN db.tasks, NEW q \in Nat \ {0}, ReturnRemainder(t, q)
    PROVE  db' \in S
  <1> DEFINE s == db.tasks[t].stage
  <1>1. s \in Stages
    BY ClosedSound, DatabaseFields DEF Sound, Sane, TaskRow
  <1>4. Commits(Recorded(LoggedTaskAction(db, "return_to_stock", t, q),
                         Row(t, "return_to_stock", q, Input(s), NULL), NextAction(db)))
    BY DEF ReturnRemainder
  <1>5. Input(s) = Input(db.tasks[t].stage)
    OBVIOUS
  <1> HIDE DEF s
  <1>2. Input(s) \in Nullable(Place) /\ NULL \in Nullable(Place)
    BY <1>1, StagePlaces
  <1>3. "return_to_stock" \in TaskActionFamily /\ "return_to_stock" \in Reasons
    BY DEF TaskActionFamily, Reasons
  <1> QED
    BY <1>2, <1>3, <1>4, <1>5, OneRowChanges

LEMMA PrepareChanges ==
    ASSUME NEW S, Closed(S), db \in S, NEW p \in Positions, NEW s \in Stages, NEW q \in Nat,
           PrepareSectionTask(p, s, q)
    PROVE  db' \in S
  <1> DEFINE e == [ db EXCEPT !.tasks = Append(db.tasks, NewTask(p, s, q, "ready")) ]
  <1>1. db' = e /\ OpenTasks(db, p, s) = {}
    BY Committed DEF PrepareSectionTask
  <1>2. "ready" \in WorkTaskStatus /\ Sound(db)
    BY ClosedSound DEF WorkTaskStatus
  <1> HIDE DEF e
  <1>3. /\ Sound(e) /\ e.journal = db.journal /\ e.ledger = db.ledger /\ e.reopened = db.reopened
        /\ DOMAIN e.tasks = DOMAIN db.tasks \cup {Len(db.tasks) + 1}
        /\ \A t \in DOMAIN db.tasks : e.tasks[t] = db.tasks[t]
        /\ e.tasks[Len(db.tasks) + 1] = NewTask(p, s, q, "ready")
    <2>1. e = [ db EXCEPT !.tasks = Append(db.tasks, NewTask(p, s, q, "ready")) ]
      BY DEF e
    <2> QED
      BY <1>1, <1>2, <2>1, TaskAppended
  <1>5. Later(db, e)
    <2>1. NewTask(p, s, q, "ready").status # "partially_completed"
      BY DEF NewTask
    <2> QED
      BY <1>2, <1>3, <2>1, LaterAppended
  <1>6. Lives(db, e)
    BY <1>2, <1>3, LivesSame DEF Sound, Sane
  <1>4. Change(db, e)
    BY <1>3, <1>5, <1>6 DEF Change, Moves, SameLines
  <1> QED
    BY <1>1, <1>4, ClosedStep

(* A transfer from a task, with its entry. *)
SentAway(d, e, from, to, q) ==
    /\ Change(d, e)
    /\ \E t \in DOMAIN e.tasks :
         /\ e.journal = Append(d.journal, TransferEntry(from, t, q, NULL))
         /\ Handover(d, e, from, t, q) /\ (to # NULL => t = to)

LEMMA SentChanges ==
    ASSUME NEW d, Sound(d), NEW from \in DOMAIN d.tasks, NEW to \in Nullable(DOMAIN d.tasks),
           NEW q \in Nat \ {0}, NEW overPlan, NEW e, e = Sent(d, from, to, q, overPlan), e # Failed
    PROVE  SentAway(d, e, from, to, q)
  <1> DEFINE place == Output(d.tasks[from].stage)
  <1>1. \E t \in DOMAIN e.tasks :
           /\ Passed(d, e, from, Output(d.tasks[from].stage), t, q, NULL)
           /\ Supplied(d, e, from, Output(d.tasks[from].stage), t)
           /\ to # NULL => t = to
    BY SentPasses
  <1>2. PICK t \in DOMAIN e.tasks :
          /\ Passed(d, e, from, place, t, q, NULL) /\ Supplied(d, e, from, place, t)
          /\ to # NULL => t = to
    BY <1>1
  <1> HIDE DEF place
  <1>3. Change(d, e) /\ Handover(d, e, from, t, q)
    BY <1>2, PassedChanges
  <1> QED
    BY <1>2, <1>3 DEF SentAway, Passed

LEMMA TransferSendChanges ==
    ASSUME NEW S, Closed(S), db \in S, NEW from \in DOMAIN db.tasks, NEW to \in Nullable(DOMAIN db.tasks),
           NEW q \in Nat \ {0}, NEW overPlan, TransferSend(from, to, q, overPlan)
    PROVE  db' \in S
  <1> DEFINE e == Sent(db, from, to, q, overPlan)
  <1>1. e # Failed /\ db' = e /\ Sound(db)
    BY Committed, ClosedSound DEF TransferSend
  <1> HIDE DEF e
  <1>2. SentAway(db, e, from, to, q)
    BY <1>1, SentChanges DEF e
  <1> QED
    BY <1>1, <1>2, ClosedStep DEF SentAway
----------------------------------------------------------------------------
(* Reversal.                                                                *)

(* A compensation is a row like others. *)
LEMMA MirrorIsRow ==
    ASSUME NEW d, Typed(d), NEW n \in DOMAIN d.ledger
    PROVE  /\ Mirror(d, n) \in LedgerRow
           /\ Mirror(d, n).task = d.ledger[n].task /\ Mirror(d, n).reason = d.ledger[n].reason
           /\ Mirror(d, n).action = NULL /\ Mirror(d, n).reverses = n
           /\ Mirror(d, n).reverses # NULL
           /\ Mirror(d, n).task \in Nullable(DOMAIN d.tasks)
  <1>1. d.ledger[n] \in LedgerRow /\ n \in Nat
    BY DatabaseFields
  <1>2. d.ledger[n].task \in Nullable(DOMAIN d.tasks)
    BY DEF Typed, Refer
  <1>3. /\ Mirror(d, n) \in LedgerRow
        /\ Mirror(d, n).task = d.ledger[n].task /\ Mirror(d, n).reason = d.ledger[n].reason
        /\ Mirror(d, n).action = NULL /\ Mirror(d, n).reverses = n
    BY <1>1 DEF Mirror, LedgerRow, Nullable
  <1> QED
    BY <1>1, <1>2, <1>3, NullIsNoValue

LEMMA OneTakenBack ==
    ASSUME NEW d, Sane(d), NEW H, NEW v, TookBack(d, v, H),
           NEW n \in InForce(d), n \notin H, d.ledger[n].action # NULL,
           NEW e, e = Inserted(v, Mirror(d, n))
    PROVE  TookBack(d, e, H \cup {n})
  <1> DEFINE r == Mirror(d, n)
  <1>1. /\ Sane(v) /\ Onward(d, v) /\ v.journal = d.journal
        /\ DOMAIN d.ledger \subseteq DOMAIN v.ledger
        /\ \A i \in DOMAIN d.ledger : v.ledger[i] = d.ledger[i]
        /\ \A i \in DOMAIN v.ledger \ DOMAIN d.ledger : v.ledger[i].reverses \in H
        /\ InForce(v) = InForce(d) \ H
        /\ \A t \in DOMAIN d.tasks : v.tasks[t].planned = d.tasks[t].planned /\ Settles(d, v, t)
    BY DEF TookBack
  <1>2. n \in DOMAIN d.ledger /\ n \in DOMAIN v.ledger /\ v.ledger[n] = d.ledger[n]
    BY <1>1 DEF InForce
  <1>3. Typed(d) /\ Typed(v)
    BY <1>1 DEF Sane
  <1>4. /\ r \in LedgerRow /\ r.task = d.ledger[n].task /\ r.reason = d.ledger[n].reason
        /\ r.action = NULL /\ r.reverses = n /\ r.reverses # NULL
        /\ r.task \in Nullable(DOMAIN d.tasks)
    BY <1>2, <1>3, MirrorIsRow
  <1>5. r = Mirror(v, n)
    BY <1>2 DEF Mirror
  <1>6. n \in InForce(v)
    BY <1>1
  <1>7. DOMAIN v.tasks = DOMAIN d.tasks
    BY <1>1 DEF Onward
  <1>8. e = Inserted(v, r)
    OBVIOUS
  <1> HIDE DEF r
  <1>9. Fits(v, r)
    BY <1>2, <1>4, <1>5, <1>6, <1>7 DEF Fits, Nullable
  <1>10. FreePlace(v, r)
    BY <1>4 DEF FreePlace
  <1>11. MayReceive(v, r)
    <2> SUFFICES ASSUME r.reason = "transfer_receive", r.task # NULL
                 PROVE  RowsOf(v, {r.task}, "transfer_receive") # {}
      BY DEF MayReceive
    <2>1. n \in RowsOf(v, {r.task}, "transfer_receive")
      BY <1>2, <1>4 DEF RowsOf
    <2> QED
      BY <2>1
  <1>12. /\ Sane(e) /\ Onward(v, e)
         /\ e.journal = v.journal /\ e.ledger = Append(v.ledger, r)
         /\ r.reverses # NULL => InForce(e) = InForce(v) \ {r.reverses}
         /\ \A t \in DOMAIN v.tasks : e.tasks[t].planned = v.tasks[t].planned /\ Settles(v, e, t)
    BY <1>1, <1>8, <1>9, <1>10, <1>11, RowInserted
  <1>13. Onward(d, e)
    BY <1>1, <1>12, OnwardTwice
  <1> DEFINE m == Len(v.ledger) + 1
  <1>14. /\ DOMAIN e.ledger = DOMAIN v.ledger \cup {m}
         /\ \A i \in DOMAIN v.ledger : e.ledger[i] = v.ledger[i]
         /\ e.ledger[m] = r
    <2>1. Len(v.ledger) \in Nat /\ DOMAIN v.ledger = 1..Len(v.ledger) /\ v.ledger \in Seq(LedgerRow)
      BY <1>3, DatabaseFields
    <2> QED
      BY <1>12, <2>1
  <1> HIDE DEF m
  <1>15. \A i \in DOMAIN e.ledger \ DOMAIN d.ledger : e.ledger[i].reverses \in H \cup {n}
    BY <1>1, <1>4, <1>14
  <1>16. InForce(e) = InForce(d) \ (H \cup {n})
    BY <1>1, <1>4, <1>12
  <1>17. /\ DOMAIN d.ledger \subseteq DOMAIN e.ledger
         /\ \A i \in DOMAIN d.ledger : e.ledger[i] = d.ledger[i]
    BY <1>1, <1>14
  <1>18. \A t \in DOMAIN d.tasks : e.tasks[t].planned = d.tasks[t].planned
    BY <1>1, <1>7, <1>12
  <1>19. ASSUME NEW t \in DOMAIN d.tasks PROVE Settles(d, e, t)
    <2>1. Settles(d, v, t) /\ Settles(v, e, t)
      BY <1>1, <1>7, <1>12
    <2>2. Typed(e) /\ DOMAIN v.ledger \subseteq DOMAIN e.ledger
      BY <1>12, <1>14 DEF Sane
    <2>3. \A T, reason : /\ Gross(v, T, reason) <= Gross(e, T, reason)
                         /\ Gross(v, T, reason) \in Nat /\ Gross(e, T, reason) \in Nat
      BY <1>3, <1>14, <2>2, GrossGrows
    <2>4. /\ Completed(v, t) <= Completed(e, t) /\ Rejected(v, t) <= Rejected(e, t)
          /\ Completed(v, t) \in Nat /\ Rejected(v, t) \in Nat
          /\ Completed(e, t) \in Nat /\ Rejected(e, t) \in Nat
      BY <2>3 DEF Completed, Rejected
    <2> QED
      BY <2>1, <2>4 DEF Settles
  <1> QED
    BY <1>1, <1>12, <1>13, <1>15, <1>16, <1>17, <1>18, <1>19 DEF TookBack

(* A row of a task inserted in whatever database. *)
LEMMA InsertedType ==
    ASSUME NEW v \in Database, NEW r \in LedgerRow, r.task \in Nullable(DOMAIN v.tasks)
    PROVE  Inserted(v, r) \in Database /\ DOMAIN Inserted(v, r).tasks = DOMAIN v.tasks
  <1> DEFINE K == Append(v.ledger, r)
             x == [ v EXCEPT !.ledger = Append(@, r) ]
             e == Inserted(v, r)
  <1>1. /\ v = [ tasks |-> v.tasks, journal |-> v.journal, ledger |-> v.ledger,
                 reopened |-> v.reopened ]
        /\ v.tasks \in Seq(TaskRow) /\ v.journal \in Seq(ActionRow) /\ v.ledger \in Seq(LedgerRow)
        /\ v.reopened \in SUBSET Nat
    BY DEF Database
  <1>2. K \in Seq(LedgerRow)
    BY <1>1
  <1>10. v = [ tasks |-> v.tasks, journal |-> v.journal, ledger |-> v.ledger,
               reopened |-> v.reopened ]
    BY <1>1
  <1>11. x = [ v EXCEPT !.ledger = K ]
    OBVIOUS
  <1> HIDE DEF K, x
  <1>3. x = [ tasks |-> v.tasks, journal |-> v.journal, ledger |-> K, reopened |-> v.reopened ]
    BY <1>10, <1>11
  <1>4. [ tasks |-> v.tasks, journal |-> v.journal, ledger |-> K, reopened |-> v.reopened ]
          \in Database
    BY <1>1, <1>2, DatabaseOf
  <1>5. e = Synced(x, r.task)
    BY DEF Inserted, x, K
  <1>6. x.tasks = v.tasks
    BY <1>3
  <1> HIDE DEF x, e
  <1>7. x \in Database
    BY <1>3, <1>4, Zenon
  <1>8. r.task \in Nullable(DOMAIN x.tasks)
    BY <1>6
  <1>9. e \in Database /\ Onward(x, e)
    BY <1>5, <1>7, <1>8, SyncedKeeps
  <1> QED
    BY <1>6, <1>9 DEF Onward, e


(* The compensations of G. *)
LEMMA CompensatedRows ==
    ASSUME NEW d, Sane(d), NEW G \in SUBSET InForce(d), \A i \in G : d.ledger[i].action # NULL
    PROVE  TookBack(d, Compensated(d, G), G)
  <1> DEFINE N == Len(d.ledger)
             S == { v \in Database : DOMAIN v.tasks = DOMAIN d.tasks }
             Step(v, n) == IF n \in G THEN Inserted(v, Mirror(d, n)) ELSE v
             R == [ p \in S \X (1..N) |-> Step(p[1], p[2]) ]
             IsAfter(h) == h = [ n \in 0..N |-> IF n = 0 THEN d ELSE Step(h[n - 1], n) ]
  <1>1. Typed(d) /\ d \in Database /\ d \in S
    BY DEF Sane, Typed
  <1>2. N \in Nat /\ DOMAIN d.ledger = 1..N /\ InForce(d) \subseteq 1..N
    BY <1>1, DatabaseFields DEF InForce
  <1>3. ASSUME NEW v \in S, NEW n \in 1..N PROVE Step(v, n) \in S
    <2>1. CASE n \in G
      <3> DEFINE r == Mirror(d, n)
      <3>1. r \in LedgerRow /\ r.task \in Nullable(DOMAIN d.tasks)
        BY <1>1, <1>2, MirrorIsRow
      <3> HIDE DEF r
      <3>2. v \in Database /\ r.task \in Nullable(DOMAIN v.tasks) /\ DOMAIN v.tasks = DOMAIN d.tasks
        BY <3>1
      <3>3. Inserted(v, r) \in Database /\ DOMAIN Inserted(v, r).tasks = DOMAIN v.tasks
        BY <3>1, <3>2, InsertedType
      <3>4. Step(v, n) = Inserted(v, r)
        BY <2>1 DEF r
      <3> QED
        BY <3>2, <3>3, <3>4
    <2>2. CASE n \notin G
      BY <2>2
    <2> QED
      BY <2>1, <2>2
  <1> HIDE DEF Step
  <1>4. R \in [ S \X (1..N) -> S ] /\ \A v \in S, n \in 1..N : R[<< v, n >>] = Step(v, n)
    BY <1>3
  <1> HIDE DEF R, S
  <1>5. PICK g : Chained(g, N, S, d, R)
    <2> HIDE DEF N
    <2> QED
      BY <1>1, <1>2, <1>4, Chain
  <1>6. g \in [ 0..N -> S ] /\ g[0] = d /\ \A i \in 1..N : g[i] = R[<< g[i - 1], i >>]
    BY <1>5 DEF Chained
  <1> HIDE DEF N
  <1>7. IsAfter(g)
    <2>1. \A n \in 1..N : n - 1 \in 0..N /\ g[n - 1] \in S /\ n # 0
      BY <1>2, <1>6
    <2>2. \A n \in 1..N : g[n] = Step(g[n - 1], n)
      BY <1>4, <1>6, <2>1
    <2>3. \A n \in 0..N : g[n] = IF n = 0 THEN d ELSE Step(g[n - 1], n)
      BY <1>2, <1>6, <2>2
    <2> QED
      BY <1>6, <2>3
  <1> DEFINE after == CHOOSE h : IsAfter(h)
  <1>8. IsAfter(after)
    BY <1>7
  <1>9. Compensated(d, G) = after[N]
    BY DEF Compensated, Step, N
  <1> HIDE DEF after
  <1>10. after[0] = d /\ \A n \in 1..N : after[n] = Step(after[n - 1], n)
    <2>1. \A n \in 0..N : after[n] = IF n = 0 THEN d ELSE Step(after[n - 1], n)
      BY <1>8, Zenon
    <2> QED
      BY <1>2, <2>1
  <1> DEFINE T == { n \in 0..N : TookBack(d, after[n], G \cap (1..n)) }
  <1>11. 0 \in T
    <2>1. G \cap (1..0) = {} /\ InForce(d) \ {} = InForce(d)
      OBVIOUS
    <2>2. Onward(d, d)
      BY OnwardSame
    <2>3. TookBack(d, d, {})
      BY <2>2 DEF TookBack, Settles
    <2>4. TookBack(d, after[0], G \cap (1..0))
      BY <1>10, <2>1, <2>3
    <2> QED
      BY <1>2, <2>4
  <1>12. ASSUME NEW n \in 1..N, n - 1 \in T PROVE n \in T
    <2> DEFINE H == G \cap (1..(n - 1))
               v == after[n - 1]
    <2>1. TookBack(d, v, H) /\ after[n] = Step(v, n) /\ n \notin H /\ n \in 0..N
      BY <1>2, <1>10, <1>12
    <2>2. CASE n \in G
      <3>1. after[n] = Inserted(v, Mirror(d, n)) /\ n \in InForce(d) /\ d.ledger[n].action # NULL
        BY <2>1, <2>2 DEF Step
      <3>2. H \cup {n} = G \cap (1..n)
        BY <1>2, <2>2
      <3> HIDE DEF H, v
      <3>3. TookBack(d, after[n], H \cup {n})
        BY <2>1, <3>1, OneTakenBack
      <3>4. TookBack(d, after[n], G \cap (1..n))
        BY <3>2, <3>3, Zenon
      <3> QED
        BY <2>1, <3>4
    <2>3. CASE n \notin G
      <3>1. after[n] = v /\ H = G \cap (1..n)
        BY <1>2, <2>1, <2>3 DEF Step
      <3>2. TookBack(d, after[n], G \cap (1..n))
        BY <2>1, <3>1, Zenon
      <3> QED
        BY <2>1, <3>2
    <2> QED
      BY <2>2, <2>3
  <1> HIDE DEF T
  <1>13. 0..N \subseteq T
    BY <1>2, <1>11, <1>12, Upwards
  <1>14. TookBack(d, after[N], G \cap (1..N))
    <2>1. N \in T
      BY <1>2, <1>13
    <2> QED
      BY <2>1 DEF T
  <1>15. G \cap (1..N) = G
    BY <1>2
  <1> QED
    BY <1>9, <1>14, <1>15, Zenon
(* What is left somewhere: a row of G less, and what it had brought with it. *)
StockLost(d, e, G, P) ==
    /\ Stock(e, P) = Stock(d, P) - Amount(d.ledger, Arrivals(d, P) \cap G)
                                 + Amount(d.ledger, Departures(d, P) \cap G)
    /\ Amount(d.ledger, Arrivals(d, P) \cap G) \in Nat
    /\ Amount(d.ledger, Departures(d, P) \cap G) \in Nat

LEMMA StockTakenBack ==
    ASSUME NEW d, Typed(d), NEW e, NEW G \in SUBSET InForce(d), TookBack(d, e, G),
           NEW P, NULL \notin P
    PROVE  StockLost(d, e, G, P)
  <1> DEFINE L == d.ledger
             K == e.ledger
             A == Arrivals(d, P) \cap InForce(d)
             B == Arrivals(e, P) \cap InForce(e)
             C == Departures(d, P) \cap InForce(d)
             D == Departures(e, P) \cap InForce(e)
             X == Arrivals(d, P) \cap G
             Y == Departures(d, P) \cap G
  <1>1. /\ Typed(e) /\ InForce(e) = InForce(d) \ G
        /\ DOMAIN L \subseteq DOMAIN K /\ \A i \in DOMAIN L : K[i] = L[i]
    BY DEF TookBack, Sane
  <1>2. InForce(d) \subseteq DOMAIN L
    BY DEF InForce
  <1>3. /\ Stock(d, P) = Amount(L, A) - Amount(L, C)
        /\ Amount(L, A) \in Nat /\ Amount(L, C) \in Nat
    BY StockInForce
  <1>4. Stock(e, P) = Amount(K, B) - Amount(K, D)
    BY <1>1, StockInForce
  <1>5. B = A \ X /\ D = C \ Y
    BY <1>1, <1>2 DEF Arrivals, Departures
  <1>6. X \subseteq A /\ Y \subseteq C /\ A \subseteq DOMAIN L /\ C \subseteq DOMAIN L
    BY <1>2
  <1> HIDE DEF A, B, C, D, X, Y
  <1>7. Counted(L, A) /\ Counted(L, C)
    BY <1>6, RowsCounted
  <1> HIDE DEF L, K
  <1>8. /\ Amount(L, X) \in Nat /\ Amount(L, A \ X) \in Nat
        /\ Amount(L, A) = Amount(L, X) + Amount(L, A \ X)
    BY <1>6, <1>7, AmountOfPart
  <1>9. /\ Amount(L, Y) \in Nat /\ Amount(L, C \ Y) \in Nat
        /\ Amount(L, C) = Amount(L, Y) + Amount(L, C \ Y)
    BY <1>6, <1>7, AmountOfPart
  <1>10. Amount(K, B) = Amount(L, A \ X)
    <2>1. \A i \in B : K[i].quantity = L[i].quantity
      BY <1>1, <1>5, <1>6
    <2>2. Amount(K, B) = Amount(L, B)
      BY <2>1, AmountOfSame
    <2> QED
      BY <1>5, <2>2
  <1>11. Amount(K, D) = Amount(L, C \ Y)
    <2>1. \A i \in D : K[i].quantity = L[i].quantity
      BY <1>1, <1>5, <1>6
    <2>2. Amount(K, D) = Amount(L, D)
      BY <2>1, AmountOfSame
    <2> QED
      BY <1>5, <2>2
  <1>12. Stock(e, P) = Stock(d, P) - Amount(L, X) + Amount(L, Y)
    BY <1>3, <1>4, <1>8, <1>9, <1>10, <1>11
  <1> QED
    BY <1>8, <1>9, <1>12 DEF L, X, Y, StockLost

(* Of a task. *)
LEMMA NetTakenBack ==
    ASSUME NEW d, Typed(d), NEW e, NEW G \in SUBSET InForce(d), TookBack(d, e, G),
           NEW T, NEW reason
    PROVE  /\ Net(e, T, reason) = Net(d, T, reason) - Amount(d.ledger, RowsOf(d, T, reason) \cap G)
           /\ Amount(d.ledger, RowsOf(d, T, reason) \cap G) \in Nat
  <1> DEFINE L == d.ledger
             K == e.ledger
             A == RowsOf(d, T, reason) \cap InForce(d)
             B == RowsOf(e, T, reason) \cap InForce(e)
             X == RowsOf(d, T, reason) \cap G
  <1>1. /\ Typed(e) /\ InForce(e) = InForce(d) \ G
        /\ DOMAIN L \subseteq DOMAIN K /\ \A i \in DOMAIN L : K[i] = L[i]
    BY DEF TookBack, Sane
  <1>2. InForce(d) \subseteq DOMAIN L
    BY DEF InForce
  <1>3. Net(d, T, reason) = Amount(L, A) /\ Net(d, T, reason) \in Nat
    BY NetInForce
  <1>4. Net(e, T, reason) = Amount(K, B)
    BY <1>1, NetInForce
  <1>5. B = A \ X
    BY <1>1, <1>2 DEF RowsOf
  <1>6. X \subseteq A /\ A \subseteq DOMAIN L
    BY <1>2
  <1> HIDE DEF A, B, X
  <1>7. Counted(L, A)
    BY <1>6, RowsCounted
  <1> HIDE DEF L, K
  <1>8. /\ Amount(L, X) \in Nat /\ Amount(L, A \ X) \in Nat
        /\ Amount(L, A) = Amount(L, X) + Amount(L, A \ X)
    BY <1>6, <1>7, AmountOfPart
  <1>10. Amount(K, B) = Amount(L, A \ X)
    <2>1. \A i \in B : K[i].quantity = L[i].quantity
      BY <1>1, <1>5, <1>6
    <2>2. Amount(K, B) = Amount(L, B)
      BY <2>1, AmountOfSame
    <2> QED
      BY <1>5, <2>2
  <1>12. Net(e, T, reason) = Net(d, T, reason) - Amount(L, X)
    BY <1>3, <1>4, <1>8, <1>10
  <1> QED
    BY <1>8, <1>12 DEF L, X

(* What is taken back is made or scrapped nevertheless, and not received.  *)
LEMMA TookBackLater ==
    ASSUME NEW d, Typed(d), NEW e, NEW G \in SUBSET InForce(d), TookBack(d, e, G)
    PROVE  Later(d, e)
  <1>1. /\ Typed(e) /\ Onward(d, e)
        /\ DOMAIN d.ledger \subseteq DOMAIN e.ledger
        /\ \A i \in DOMAIN d.ledger : e.ledger[i] = d.ledger[i]
        /\ \A t \in DOMAIN d.tasks : e.tasks[t].planned = d.tasks[t].planned /\ Settles(d, e, t)
    BY DEF TookBack, Sane
  <1>2. \A T, reason : Gross(d, T, reason) <= Gross(e, T, reason)
    BY <1>1, GrossGrows
  <1>3. ASSUME NEW t \in DOMAIN d.tasks
        PROVE  /\ Completed(d, t) <= Completed(e, t) /\ Rejected(d, t) <= Rejected(e, t)
               /\ Received(e, t) <= Received(d, t) /\ d.tasks[t].planned <= e.tasks[t].planned
    <2> DEFINE lost == Amount(d.ledger, RowsOf(d, {t}, "transfer_receive") \cap G)
    <2>1. Received(e, t) = Received(d, t) - lost /\ lost \in Nat
      BY NetTakenBack DEF Received
    <2>2. Received(d, t) \in Nat /\ d.tasks[t].planned \in Nat
      BY FiguresType
    <2> HIDE DEF lost
    <2>3. Received(e, t) <= Received(d, t) /\ d.tasks[t].planned <= e.tasks[t].planned
      BY <1>1, <2>1, <2>2
    <2> QED
      BY <1>2, <2>3 DEF Completed, Rejected
  <1> QED
    BY <1>1, <1>3 DEF Later, Onward

(* No place is left negative when the rows of one action are covered. *)
LEMMA CoveredLeavesEnough ==
    ASSUME NEW d, Sound(d), NEW a \in DOMAIN d.journal, NEW G, G = Uncompensated(d, a),
           Covered(d, G), NEW e, TookBack(d, e, G)
    PROVE  NoneNegative(e)
  <1>1. Typed(d) /\ OnePerPlace(d) /\ NoneNegative(d)
    BY DEF Sound, Sane
  <1>2. G \subseteq InForce(d)
    BY DEF Uncompensated, InForce
  <1>3. a # NULL
    <2>1. a \in Nat
      BY <1>1, DatabaseFields
    <2> QED
      BY <2>1, NullIsNoValue
  <1> SUFFICES ASSUME NEW place \in Place PROVE OnHand(e, place) >= 0
    BY DEF NoneNegative
  <1> DEFINE P == {place}
             X == Arrivals(d, P) \cap G
             Y == Departures(d, P) \cap G
  <1>4. NULL \notin P /\ place # NULL
    BY NullIsNoValue
  <1>5. /\ \A i \in X : i \in DOMAIN d.ledger /\ i \in G /\ d.ledger[i].to = place
        /\ \A i, j \in X : i = j
    <2>1. \A i \in X : i \in DOMAIN d.ledger /\ i \in G /\ d.ledger[i].to = place /\ d.ledger[i].action = a
      BY DEF Arrivals, Uncompensated
    <2> HIDE DEF X
    <2>2. ASSUME NEW i \in X, NEW j \in X PROVE i = j
      BY <1>1, <1>3, <1>4, <2>1 DEF OnePerPlace
    <2> QED
      BY <2>1, <2>2
  <1>6. OnHand(d, place) = Stock(d, P) /\ OnHand(e, place) = Stock(e, P)
    BY DEF OnHand
  <1>7. OnHand(d, place) \in Int /\ OnHand(d, place) >= 0
    BY <1>1, <1>4, OnHandType DEF NoneNegative
  <1> HIDE DEF P, X, Y
  <1>8. /\ Stock(e, P) = Stock(d, P) - Amount(d.ledger, X) + Amount(d.ledger, Y)
        /\ Amount(d.ledger, X) \in Nat /\ Amount(d.ledger, Y) \in Nat
    <2>1. G \in SUBSET InForce(d)
      BY <1>2
    <2>2. StockLost(d, e, G, P)
      BY <1>1, <1>4, <2>1, StockTakenBack
    <2> QED
      BY <2>2 DEF X, Y, StockLost
  <1>9. Amount(d.ledger, X) <= OnHand(d, place)
    <2>1. CASE X = {}
      <3>1. Amount(d.ledger, X) = 0
        BY <2>1, AmountOfFew
      <3> QED
        BY <1>7, <3>1
    <2>2. CASE X # {}
      <3>1. PICK i \in X : X = {i}
        BY <1>5, <2>2
      <3>2. i \in DOMAIN d.ledger /\ i \in G /\ d.ledger[i].to = place
        BY <1>5
      <3>3. d.ledger[i].quantity \in Nat
        BY <1>1, <3>2, DatabaseFields DEF LedgerRow
      <3>4. Amount(d.ledger, {i}) = d.ledger[i].quantity
        BY <3>3, AmountOfFew
      <3>5. OnHand(d, place) >= d.ledger[i].quantity
        BY <1>4, <3>2 DEF Covered
      <3> QED
        BY <1>7, <3>1, <3>3, <3>4, <3>5
    <2> QED
      BY <2>1, <2>2
  <1> QED
    BY <1>6, <1>7, <1>8, <1>9

LEMMA EntryReplaced ==
    ASSUME NEW d, Sound(d), NEW a \in DOMAIN d.journal, NEW entry \in ActionRow,
           entry.task = d.journal[a].task, entry.to = d.journal[a].to,
           entry.issue = d.journal[a].issue, entry.dependsOn = d.journal[a].dependsOn,
           NEW e, e = [ d EXCEPT !.journal = [ d.journal EXCEPT ![a] = entry ] ]
    PROVE  EntryChanged(d, e, a, entry)
  <1> DEFINE K == [ d.journal EXCEPT ![a] = entry ]
  <1>1. Typed(d) /\ Refer(d)
    BY DEF Sound, Sane, Typed
  <1>2. /\ d = [ tasks |-> d.tasks, journal |-> d.journal, ledger |-> d.ledger,
                 reopened |-> d.reopened ]
        /\ d.tasks \in Seq(TaskRow) /\ d.journal \in Seq(ActionRow) /\ d.ledger \in Seq(LedgerRow)
    BY <1>1, DatabaseFields
  <1>3. d.reopened \in SUBSET Nat
    BY <1>1 DEF Typed, Database
  <1>4. /\ K \in Seq(ActionRow)
        /\ DOMAIN K = DOMAIN d.journal /\ K[a] = entry
        /\ \A b \in DOMAIN d.journal : b # a => K[b] = d.journal[b]
    BY <1>2
  <1>5. e = [ tasks |-> d.tasks, journal |-> K, ledger |-> d.ledger, reopened |-> d.reopened ]
    BY <1>2
  <1> HIDE DEF K
  <1>6. e.tasks = d.tasks /\ e.journal = K /\ e.ledger = d.ledger /\ e.reopened = d.reopened
    BY <1>5
  <1>7. e \in Database
    <2>1. [ tasks |-> d.tasks, journal |-> K, ledger |-> d.ledger, reopened |-> d.reopened ]
            \in Database
      BY <1>2, <1>3, <1>4, DatabaseOf
    <2> QED
      BY <1>5, <2>1, Zenon
  <1>8. Refer(e)
    <2>1. ASSUME NEW b \in DOMAIN e.journal
          PROVE  /\ e.journal[b].task \in Nullable(DOMAIN e.tasks)
                 /\ e.journal[b].to \in Nullable(DOMAIN e.tasks)
                 /\ e.journal[b].issue \in Nullable(DOMAIN e.journal)
                 /\ e.journal[b].dependsOn \subseteq 1..(b - 1)
      <3>1. b \in DOMAIN d.journal
        BY <1>4, <1>6
      <3>2. /\ e.journal[b].task = d.journal[b].task /\ e.journal[b].to = d.journal[b].to
            /\ e.journal[b].issue = d.journal[b].issue
            /\ e.journal[b].dependsOn = d.journal[b].dependsOn
        BY <1>4, <1>6, <3>1
      <3>3. /\ d.journal[b].task \in Nullable(DOMAIN d.tasks)
            /\ d.journal[b].to \in Nullable(DOMAIN d.tasks)
            /\ d.journal[b].issue \in Nullable(DOMAIN d.journal)
            /\ d.journal[b].dependsOn \subseteq 1..(b - 1)
        BY <1>1, <3>1 DEF Refer
      <3>4. DOMAIN e.tasks = DOMAIN d.tasks /\ DOMAIN e.journal = DOMAIN d.journal
        BY <1>4, <1>6
      <3> QED
        BY <3>2, <3>3, <3>4, Zenon
    <2>2. /\ \A t \in DOMAIN e.tasks : e.tasks[t].skippedBy \in Nullable(DOMAIN e.journal)
          /\ \A i \in DOMAIN e.ledger :
               /\ e.ledger[i].task \in Nullable(DOMAIN e.tasks)
               /\ e.ledger[i].action \in Nullable(DOMAIN e.journal)
               /\ e.ledger[i].reverses \in Nullable(1..(i - 1))
          /\ e.reopened \subseteq DOMAIN e.tasks
      BY <1>1, <1>4, <1>6 DEF Refer
    <2> QED
      BY <2>1, <2>2 DEF Refer
  <1>9. Typed(e)
    BY <1>1, <1>6, <1>7, <1>8, SameLedger DEF Typed
  <1>10. Sound(e)
    <2>1. OnePerPlace(e) /\ NoneNegative(e)
      BY <1>6, SameLedger DEF Sound, Sane
    <2>2. OneOpen(e)
      BY <1>6 DEF Sound, Sane, OneOpen, IsOpen
    <2>3. ReceivedInWork(e)
      BY <1>6 DEF Sound, Sane, ReceivedInWork, RowsOf
    <2> QED
      BY <1>9, <2>1, <2>2, <2>3 DEF Sound, Sane
  <1> QED
    BY <1>4, <1>6, <1>10 DEF EntryChanged
LEMMA ReversedTakesBack ==
    ASSUME NEW d, Sound(d), NEW a \in DOMAIN d.journal, NEW e, e = Reversed(d, a), e # Failed
    PROVE  TakenBack(d, e, a)
  <1> DEFINE G == Uncompensated(d, a)
             x == Compensated(d, G)
             entry == ReversedEntry(d, a)
  <1>1. Sane(d) /\ Typed(d) /\ Refer(d)
    BY DEF Sound, Sane, Typed
  <1>2. /\ G # {} /\ Covered(d, G)
        /\ e = [ x EXCEPT !.journal[a].active = FALSE,
                          !.journal[a].transfer = CancelledIfAccepted(@) ]
    BY DEF Reversed
  <1>3. a # NULL /\ d.journal[a] \in ActionRow
    BY <1>1, DatabaseFields, NullIsNoValue
  <1>4. G \in SUBSET InForce(d) /\ \A i \in G : d.ledger[i].action # NULL
    BY <1>3 DEF Uncompensated, InForce
  <1> HIDE DEF x
  <1>5. TookBack(d, x, G)
    BY <1>1, <1>4, CompensatedRows DEF x
  <1>6. NoneNegative(x)
    BY <1>2, <1>5, CoveredLeavesEnough
  <1>7. Sound(x) /\ x.journal = d.journal
    BY <1>5, <1>6 DEF Sound, TookBack
  <1>8. /\ entry \in ActionRow
        /\ entry.task = d.journal[a].task /\ entry.to = d.journal[a].to
        /\ entry.issue = d.journal[a].issue /\ entry.dependsOn = d.journal[a].dependsOn
    BY <1>3 DEF ReversedEntry, ActionRow, CancelledIfAccepted, TransferStatus, Nullable
  <1>9. e = [ x EXCEPT !.journal = [ x.journal EXCEPT ![a] = entry ] ]
    <2>1. e = [ x EXCEPT !.journal = [ x.journal EXCEPT ![a] =
                  [ x.journal[a] EXCEPT !.active = FALSE,
                                        !.transfer = CancelledIfAccepted(x.journal[a].transfer) ] ] ]
      <3>1. DOMAIN x.journal = DOMAIN d.journal
        BY <1>7
      <3> QED
        BY <1>2, <3>1
    <2> QED
      BY <1>7, <2>1 DEF ReversedEntry
  <1> HIDE DEF entry, G
  <1>10. a \in DOMAIN x.journal
    BY <1>7
  <1>11. EntryChanged(x, e, a, entry)
    BY <1>7, <1>8, <1>9, <1>10, EntryReplaced
  <1> QED
    BY <1>2, <1>5, <1>7, <1>11 DEF TakenBack, G, entry

LEMMA TakenBackSound ==
    ASSUME NEW d, NEW a, NEW e, TakenBack(d, e, a)
    PROVE  /\ Sound(e) /\ Onward(d, e) /\ DOMAIN e.journal = DOMAIN d.journal
           /\ e.journal[a] = ReversedEntry(d, a)
           /\ \A b \in DOMAIN d.journal : b # a => e.journal[b] = d.journal[b]
           /\ Sound(d) => Later(d, e)
  <1>1. PICK x : /\ Sound(x) /\ TookBack(d, x, Uncompensated(d, a))
                 /\ EntryChanged(x, e, a, ReversedEntry(d, a))
    BY DEF TakenBack
  <1>2. Onward(d, x) /\ x.journal = d.journal
    BY <1>1 DEF TookBack
  <1>3. Onward(x, e)
    BY <1>1, OnwardSame DEF EntryChanged
  <1>4. Onward(d, e)
    BY <1>2, <1>3, OnwardTwice
  <1>5. ASSUME Sound(d) PROVE Later(d, e)
    <2>1. Uncompensated(d, a) \in SUBSET InForce(d) /\ Typed(d) /\ Typed(x) /\ Typed(e)
      BY <1>1, <1>5 DEF Uncompensated, InForce, Sound, Sane, EntryChanged
    <2>2. Later(d, x)
      BY <1>1, <2>1, TookBackLater
    <2>3. Later(x, e)
      BY <1>1, <2>1, LaterSame DEF EntryChanged
    <2> QED
      BY <2>1, <2>2, <2>3, LaterTwice
  <1> QED
    BY <1>1, <1>2, <1>4, <1>5 DEF EntryChanged

(* What the cascade keeps, node after node. *)
LEMMA CascadeKeeps ==
    ASSUME NEW d, Len(d.journal) \in Nat, NEW nodes, NEW S, d \in S,
           \A v \in S : \A b \in nodes \cap (1..Len(d.journal)) : Reversed(v, b) \in S
    PROVE  CascadeReversed(d, nodes) \in S
  <1> DEFINE N == Len(d.journal)
             Step(v, b) == IF b \in nodes THEN Reversed(v, b) ELSE v
             R == [ p \in S \X (1..N) |-> Step(p[1], p[2]) ]
             IsDone(h) == h = [ b \in 1..(N + 1) |-> IF b > N THEN d ELSE Step(h[b + 1], b) ]
  <1>1. \A v \in S, b \in 1..N : Step(v, b) \in S
    OBVIOUS
  <1> HIDE DEF Step
  <1>2. R \in [ S \X (1..N) -> S ] /\ \A v \in S, b \in 1..N : R[<< v, b >>] = Step(v, b)
    BY <1>1
  <1> HIDE DEF R
  <1>3. PICK g : ChainedDown(g, N, S, d, R)
    <2>1. N \in Nat
      OBVIOUS
    <2> HIDE DEF N
    <2> QED
      BY <1>2, <2>1, ChainDown
  <1>4. N \in Nat
    OBVIOUS
  <1> HIDE DEF N
  <1>5. /\ g \in [ 1..(N + 1) -> S ] /\ g[N + 1] = d
        /\ \A b \in 1..N : g[b] = R[<< g[b + 1], b >>]
    BY <1>3 DEF ChainedDown
  <1>6. IsDone(g)
    <2>1. \A b \in 1..N : b + 1 \in 1..(N + 1) /\ g[b + 1] \in S /\ ~(b > N)
      BY <1>4, <1>5
    <2>2. \A b \in 1..N : g[b] = Step(g[b + 1], b)
      BY <1>2, <1>5, <2>1
    <2>3. \A b \in 1..(N + 1) : g[b] = IF b > N THEN d ELSE Step(g[b + 1], b)
      BY <1>4, <1>5, <2>2
    <2> QED
      BY <1>5, <2>3
  <1> DEFINE done == CHOOSE h : IsDone(h)
  <1>7. IsDone(done)
    BY <1>6
  <1>8. CascadeReversed(d, nodes) = done[1]
    BY DEF CascadeReversed, Step, N
  <1> HIDE DEF done
  <1>9. done[N + 1] = d /\ \A b \in 1..N : done[b] = Step(done[b + 1], b)
    <2>1. \A b \in 1..(N + 1) : done[b] = IF b > N THEN d ELSE Step(done[b + 1], b)
      BY <1>7, Zenon
    <2> QED
      BY <1>4, <2>1
  <1> DEFINE T == { b \in 1..(N + 1) : done[b] \in S }
  <1>10. N + 1 \in T
    BY <1>4, <1>9
  <1>11. ASSUME NEW b \in 1..N, b + 1 \in T PROVE b \in T
    <2>1. done[b] \in S
      BY <1>1, <1>9, <1>11
    <2> QED
      BY <1>4, <2>1
  <1> HIDE DEF T
  <1>12. 1..(N + 1) \subseteq T
    BY <1>4, <1>10, <1>11, Downwards
  <1>13. 1 \in T
    BY <1>4, <1>12
  <1> QED
    BY <1>8, <1>13 DEF T

(* What the loop over the transfers of an issue keeps (S), and what is so    *)
(* after each of them (V).                                                  *)
LEMMA AllCancelledKeeps ==
    ASSUME NEW d, Len(d.journal) \in Nat, NEW left, NEW S, d \in S,
           \A v \in S : \A n \in left \cap (1..Len(d.journal)) : Cancelled(v, n) \in S,
           NEW V \in [ 0..Len(d.journal) -> SUBSET S ], d \in V[0],
           \A n \in 1..Len(d.journal) : \A v \in V[n - 1] :
              (IF n \in left THEN Cancelled(v, n) ELSE v) \in V[n]
    PROVE  AllCancelled(d, left) \in V[Len(d.journal)]
  <1> DEFINE N == Len(d.journal)
             Step(v, n) == IF n \in left THEN Cancelled(v, n) ELSE v
             R == [ p \in S \X (1..N) |-> Step(p[1], p[2]) ]
             IsAfter(h) == h = [ n \in 0..N |-> IF n = 0 THEN d ELSE Step(h[n - 1], n) ]
  <1>1. \A v \in S, n \in 1..N : Step(v, n) \in S
    OBVIOUS
  <1>2. \A n \in 1..N : \A v \in V[n - 1] : Step(v, n) \in V[n]
    OBVIOUS
  <1>3. N \in Nat /\ d \in V[0]
    OBVIOUS
  <1> HIDE DEF Step
  <1>4. R \in [ S \X (1..N) -> S ] /\ \A v \in S, n \in 1..N : R[<< v, n >>] = Step(v, n)
    BY <1>1
  <1> HIDE DEF R, N
  <1>5. PICK g : Chained(g, N, S, d, R)
    BY <1>3, <1>4, Chain
  <1>6. g \in [ 0..N -> S ] /\ g[0] = d /\ \A i \in 1..N : g[i] = R[<< g[i - 1], i >>]
    BY <1>5 DEF Chained
  <1>7. IsAfter(g)
    <2>1. \A n \in 1..N : n - 1 \in 0..N /\ g[n - 1] \in S /\ n # 0
      BY <1>3, <1>6
    <2>2. \A n \in 1..N : g[n] = Step(g[n - 1], n)
      BY <1>4, <1>6, <2>1
    <2>3. \A n \in 0..N : g[n] = IF n = 0 THEN d ELSE Step(g[n - 1], n)
      BY <1>3, <1>6, <2>2
    <2> QED
      BY <1>6, <2>3
  <1> DEFINE after == CHOOSE h : IsAfter(h)
  <1>8. IsAfter(after)
    BY <1>7
  <1>9. AllCancelled(d, left) = after[N]
    BY DEF AllCancelled, Step, N
  <1> HIDE DEF after
  <1>10. after[0] = d /\ \A n \in 1..N : after[n] = Step(after[n - 1], n)
    <2>1. \A n \in 0..N : after[n] = IF n = 0 THEN d ELSE Step(after[n - 1], n)
      BY <1>8, Zenon
    <2> QED
      BY <1>3, <2>1
  <1> DEFINE T == { n \in 0..N : after[n] \in V[n] }
  <1>11. 0 \in T
    BY <1>3, <1>10
  <1>12. ASSUME NEW n \in 1..N, n - 1 \in T PROVE n \in T
    <2>1. after[n] \in V[n]
      BY <1>2, <1>10, <1>12
    <2> QED
      BY <1>3, <2>1
  <1> HIDE DEF T
  <1>13. 0..N \subseteq T
    BY <1>3, <1>11, <1>12, Upwards
  <1>14. N \in T
    BY <1>3, <1>13
  <1> QED
    BY <1>9, <1>14 DEF T, N

(* What the loop over the stages of an issue keeps, and what is so from each *)
(* of them on.                                                              *)
LEMMA IssuedToStagesKeeps ==
    ASSUME NEW d, NEW p, NEW take, NEW issue, NEW S, d \in S,
           \A v \in S : \A s \in Stages : take[s] > 0 => Issued(v, p, s, take[s], issue) \in S,
           NEW V \in [ 1..(LastStage + 1) -> SUBSET S ], d \in V[LastStage + 1],
           \A s \in Stages : \A v \in V[s + 1] :
              (IF take[s] > 0 THEN Issued(v, p, s, take[s], issue) ELSE v) \in V[s]
    PROVE  IssuedToStages(d, p, take, issue) \in V[1]
  <1> DEFINE N == LastStage
             Step(v, s) == IF take[s] > 0 THEN Issued(v, p, s, take[s], issue) ELSE v
             R == [ q \in S \X (1..N) |-> Step(q[1], q[2]) ]
             IsIssued(h) == h = [ s \in 1..(N + 1) |-> IF s > N THEN d ELSE Step(h[s + 1], s) ]
  <1>1. \A v \in S, s \in 1..N : Step(v, s) \in S
    BY DEF Stages
  <1>2. \A s \in 1..N : \A v \in V[s + 1] : Step(v, s) \in V[s]
    BY DEF Stages
  <1>3. N \in Nat /\ d \in V[N + 1]
    BY TaskFlowConstants
  <1> HIDE DEF Step
  <1>4. R \in [ S \X (1..N) -> S ] /\ \A v \in S, s \in 1..N : R[<< v, s >>] = Step(v, s)
    BY <1>1
  <1> HIDE DEF R
  <1>5. PICK g : ChainedDown(g, N, S, d, R)
    BY <1>3, <1>4, ChainDown
  <1> HIDE DEF N
  <1>6. /\ g \in [ 1..(N + 1) -> S ] /\ g[N + 1] = d
        /\ \A s \in 1..N : g[s] = R[<< g[s + 1], s >>]
    BY <1>5 DEF ChainedDown
  <1>7. IsIssued(g)
    <2>1. \A s \in 1..N : s + 1 \in 1..(N + 1) /\ g[s + 1] \in S /\ ~(s > N)
      BY <1>3, <1>6
    <2>2. \A s \in 1..N : g[s] = Step(g[s + 1], s)
      BY <1>4, <1>6, <2>1
    <2>3. \A s \in 1..(N + 1) : g[s] = IF s > N THEN d ELSE Step(g[s + 1], s)
      BY <1>3, <1>6, <2>2
    <2> QED
      BY <1>6, <2>3
  <1> DEFINE issued == CHOOSE h : IsIssued(h)
  <1>8. IsIssued(issued)
    BY <1>7
  <1>9. IssuedToStages(d, p, take, issue) = issued[1]
    BY DEF IssuedToStages, Step, N
  <1> HIDE DEF issued
  <1>10. issued[N + 1] = d /\ \A s \in 1..N : issued[s] = Step(issued[s + 1], s)
    <2>1. \A s \in 1..(N + 1) : issued[s] = IF s > N THEN d ELSE Step(issued[s + 1], s)
      BY <1>8, Zenon
    <2> QED
      BY <1>3, <2>1
  <1> DEFINE T == { s \in 1..(N + 1) : issued[s] \in V[s] }
  <1>11. N + 1 \in T
    BY <1>3, <1>10
  <1>12. ASSUME NEW s \in 1..N, s + 1 \in T PROVE s \in T
    <2>1. issued[s] \in V[s]
      BY <1>2, <1>10, <1>12
    <2> QED
      BY <1>3, <2>1
  <1> HIDE DEF T
  <1>13. 1..(N + 1) \subseteq T
    BY <1>3, <1>11, <1>12, Downwards
  <1>14. 1 \in T
    BY <1>3, <1>13
  <1> QED
    BY <1>9, <1>14 DEF T
(* The reversal of action a leaves the task it handed to what that used up. *)
Spared(d, a) ==
    Shaped(d) /\ KeptOutOfJournal =>
      \/ d.journal[a].type # "transfer_send"
      \/ d.journal[a].quantity <= InWork(d, d.journal[a].to)

LEMMA TakenBackFigures ==
    ASSUME NEW d, Sound(d), Shaped(d), NEW a \in DOMAIN d.journal, NEW e, TakenBack(d, e, a), NEW u
    PROVE  /\ Used(e, u) <= Used(d, u) /\ Used(d, u) <= Completed(d, u) + Rejected(d, u)
           /\ Used(d, u) \in Nat /\ Used(e, u) \in Nat /\ Received(d, u) \in Nat
           /\ Received(e, u) \in Nat /\ Completed(d, u) \in Nat /\ Rejected(d, u) \in Nat
           /\ \/ Received(e, u) = Received(d, u)
              \/ /\ d.journal[a].type = "transfer_send" /\ u = d.journal[a].to
                 /\ d.journal[a].quantity \in Nat
                 /\ Received(e, u) = Received(d, u) - d.journal[a].quantity
  <1> DEFINE G == Uncompensated(d, a)
             lost(reason) == Amount(d.ledger, RowsOf(d, {u}, reason) \cap G)
             q == d.journal[a].quantity
  <1>1. PICK x : /\ Sound(x) /\ TookBack(d, x, G)
                 /\ EntryChanged(x, e, a, ReversedEntry(d, a))
    BY DEF TakenBack
  <1>2. /\ Typed(d) /\ Typed(x) /\ Typed(e) /\ G \in SUBSET InForce(d)
        /\ \A i \in G : i \in DOMAIN d.ledger /\ d.ledger[i].action = a
    BY <1>1 DEF Uncompensated, InForce, Sound, Sane, EntryChanged
  <1> HIDE DEF G
  <1>3. ASSUME NEW reason
        PROVE  Net(x, {u}, reason) = Net(d, {u}, reason) - lost(reason) /\ lost(reason) \in Nat
    BY <1>1, <1>2, NetTakenBack
  <1>4. ASSUME NEW reason
        PROVE  Net(e, {u}, reason) = Net(d, {u}, reason) - lost(reason) /\ lost(reason) \in Nat
    <2>1. Net(e, {u}, reason) = Net(x, {u}, reason)
      BY <1>1, SameLedger DEF EntryChanged
    <2> HIDE DEF lost
    <2> QED
      BY <1>3, <2>1
  <1> HIDE DEF lost
  <1>5. /\ Used(d, u) \in Nat /\ Received(d, u) \in Nat /\ Used(e, u) \in Nat /\ Received(e, u) \in Nat
        /\ Used(d, u) <= Completed(d, u) + Rejected(d, u)
        /\ Completed(d, u) \in Nat /\ Rejected(d, u) \in Nat
    BY <1>2, UsedType
  <1>6. Used(e, u) <= Used(d, u)
    <2>1. /\ Net(e, {u}, "complete") = Net(d, {u}, "complete") - lost("complete")
          /\ lost("complete") \in Nat
      BY <1>4
    <2>2. /\ Net(e, {u}, "scrap") = Net(d, {u}, "scrap") - lost("scrap")
          /\ lost("scrap") \in Nat
      BY <1>4
    <2>3. Net(d, {u}, "complete") \in Nat /\ Net(d, {u}, "scrap") \in Nat
      BY <1>2, NetInForce
    <2> QED
      BY <2>1, <2>2, <2>3 DEF Used
  <1>7. Received(e, u) = Received(d, u) - lost("transfer_receive")
    <2>1. Net(e, {u}, "transfer_receive") = Net(d, {u}, "transfer_receive") - lost("transfer_receive")
      BY <1>4
    <2> QED
      BY <2>1 DEF Received
  <1>8. Entered(d, a)
    BY DEF Shaped
  <1> DEFINE R == RowsOf(d, {u}, "transfer_receive") \cap G
  <1>9. lost("transfer_receive") = Amount(d.ledger, R) /\ Amount(d.ledger, {}) = 0
    BY AmountOfFew DEF lost
  <1>10. CASE R = {}
    <2>1. Received(e, u) = Received(d, u) - 0
      BY <1>7, <1>9, <1>10
    <2>2. Received(e, u) = Received(d, u)
      BY <1>5, <2>1
    <2> QED
      BY <1>5, <1>6, <2>2
  <1>11. CASE R # {}
    <2>1. d.journal[a].type = "transfer_send"
      BY <1>2, <1>8, <1>11 DEF Entered, RowsOf, Handing
    <2>2. PICK i \in DOMAIN d.ledger :
            /\ Paired(d, i, "transfer_send", "transfer_receive")
            /\ d.ledger[i].quantity = q /\ d.ledger[i + 1].task = d.journal[a].to
            /\ \A j \in DOMAIN d.ledger : d.ledger[j].action = a => j \in { i, i + 1 }
      BY <1>8, <2>1 DEF Entered
    <2>3. /\ d.ledger[i].reason = "transfer_send" /\ d.ledger[i + 1].quantity = q
          /\ i + 1 \in DOMAIN d.ledger
      BY <2>2 DEF Paired
    <2>4. d.ledger[i + 1].quantity \in Nat
      BY <1>2, <2>3, DatabaseFields DEF LedgerRow
    <2> HIDE DEF q
    <2>5. R = { i + 1 } /\ u = d.journal[a].to
      BY <1>2, <1>11, <2>2, <2>3 DEF RowsOf
    <2>6. Amount(d.ledger, { i + 1 }) = q /\ q \in Nat
      BY <2>3, <2>4, AmountOfFew
    <2> HIDE DEF R
    <2>7. Received(e, u) = Received(d, u) - q
      BY <1>7, <1>9, <2>5, <2>6
    <2> QED
      BY <1>5, <1>6, <2>1, <2>5, <2>6, <2>7 DEF q
  <1> QED
    BY <1>10, <1>11

LEMMA TakenBackLives ==
    ASSUME NEW d, Sound(d), Shaped(d), KeptOutOfJournal, NEW a \in DOMAIN d.journal, Spared(d, a),
           NEW e, TakenBack(d, e, a)
    PROVE  Lives(d, e)
  <1> SUFFICES ASSUME NEW u
               PROVE  \/ Used(e, u) <= Received(e, u)
                      \/ Used(e, u) - Received(e, u) <= Used(d, u) - Received(d, u)
    BY DEF Lives
  <1>1. /\ Used(e, u) <= Used(d, u) /\ Used(d, u) <= Completed(d, u) + Rejected(d, u)
        /\ Used(d, u) \in Nat /\ Used(e, u) \in Nat /\ Received(d, u) \in Nat
        /\ Received(e, u) \in Nat /\ Completed(d, u) \in Nat /\ Rejected(d, u) \in Nat
    BY TakenBackFigures
  <1>2. CASE Received(e, u) = Received(d, u)
    BY <1>1, <1>2
  <1>3. CASE /\ d.journal[a].type = "transfer_send" /\ u = d.journal[a].to
             /\ d.journal[a].quantity \in Nat
             /\ Received(e, u) = Received(d, u) - d.journal[a].quantity
    <2>1. d.journal[a].quantity <= Received(d, u) - Completed(d, u) - Rejected(d, u)
      BY <1>3 DEF Spared, InWork
    <2> QED
      BY <1>1, <1>3, <2>1
  <1> QED
    BY <1>2, <1>3, TakenBackFigures

(* A reversal is such a change. *)
LEMMA TakenBackChanges ==
    ASSUME NEW d, Sound(d), NEW a \in DOMAIN d.journal, NEW e, TakenBack(d, e, a)
    PROVE  Moves(d, e) /\ (Spared(d, a) => Change(d, e))
  <1>1. Sound(e) /\ Onward(d, e) /\ Later(d, e)
    BY TakenBackSound
  <1>2. SameLines(d, e)
    BY <1>1 DEF SameLines, Onward
  <1>3. Moves(d, e)
    BY <1>1, <1>2 DEF Moves
  <1> QED
    BY <1>3, TakenBackLives DEF Change

(* The databases of S with the actions of d, and the failure. *)
SameActions(v, d) ==
    /\ DOMAIN v.journal = DOMAIN d.journal
    /\ \A a \in DOMAIN d.journal : /\ v.journal[a].type = d.journal[a].type
                                   /\ v.journal[a].dependsOn = d.journal[a].dependsOn
Like(S, d) == { v \in S : SameActions(v, d) } \cup {Failed}

LEMMA ReversedKeeps ==
    ASSUME NEW S, Closed(S), NEW d, NEW v \in Like(S, d), NEW a \in DOMAIN d.journal,
           v = Failed \/ Spared(v, a)
    PROVE  Reversed(v, a) \in Like(S, d)
  <1> DEFINE e == Reversed(v, a)
  <1>1. CASE e = Failed
    BY <1>1 DEF Like
  <1>2. CASE e # Failed
    <2>1. v # Failed
      BY <1>2 DEF Reversed
    <2>2. v \in S /\ Sound(v) /\ SameActions(v, d) /\ a \in DOMAIN v.journal
      BY <2>1, ClosedSound DEF Like, SameActions
    <2> HIDE DEF e
    <2>3. TakenBack(v, e, a)
      BY <1>2, <2>2, ReversedTakesBack DEF e
    <2>4. SameActions(e, d)
      <3>1. /\ DOMAIN e.journal = DOMAIN v.journal /\ e.journal[a] = ReversedEntry(v, a)
            /\ \A b \in DOMAIN v.journal : b # a => e.journal[b] = v.journal[b]
        BY <2>3, TakenBackSound
      <3>2. v.journal[a] \in ActionRow
        BY <2>2, DatabaseFields DEF Sound, Sane
      <3>3. /\ ReversedEntry(v, a).type = v.journal[a].type
            /\ ReversedEntry(v, a).dependsOn = v.journal[a].dependsOn
        BY <3>2 DEF ReversedEntry, ActionRow
      <3> QED
        BY <2>2, <3>1, <3>3 DEF SameActions
    <2>5. e \in S
      BY <2>1, <2>2, <2>3, TakenBackChanges, ClosedStep
    <2>6. e \in Like(S, d)
      BY <2>4, <2>5 DEF Like
    <2> QED
      BY <2>6 DEF e
  <1> QED
    BY <1>1, <1>2

LEMMA CancelledKeeps ==
    ASSUME NEW S, Closed(S), NEW d, NEW v \in Like(S, d), NEW a \in DOMAIN d.journal
    PROVE  Cancelled(v, a) \in Like(S, d)
  <1>1. Failed \in Like(S, d)
    BY DEF Like
  <1>2. CASE v # Failed /\ v.journal[a].quantity <= InWork(v, v.journal[a].to)
    <2>1. Spared(v, a)
      BY <1>2 DEF Spared
    <2>2. Reversed(v, a) \in Like(S, d)
      BY <2>1, ReversedKeeps
    <2> QED
      BY <1>1, <2>2 DEF Cancelled
  <1>3. CASE ~(v # Failed /\ v.journal[a].quantity <= InWork(v, v.journal[a].to))
    BY <1>1, <1>3 DEF Cancelled
  <1> QED
    BY <1>2, <1>3

LEMMA BelowDomain ==
    ASSUME NEW d, Sound(d), NEW a \in DOMAIN d.journal
    PROVE  {a} \cup Below(d, a) \subseteq DOMAIN d.journal
  <1>1. Len(d.journal) \in Nat /\ DOMAIN d.journal = 1..Len(d.journal)
    BY DatabaseFields DEF Sound, Sane
  <1>2. Below(d, a) \subseteq (a + 1)..Len(d.journal)
    BY DEF Below
  <1> QED
    BY <1>1, <1>2

(* What is built on an action depends on something. *)
LEMMA BelowDepends ==
    ASSUME NEW d, Sound(d), NEW a \in DOMAIN d.journal, NEW b \in Below(d, a)
    PROVE  d.journal[b].dependsOn # {}
  <1> DEFINE N == Len(d.journal)
             deps(c) == d.journal[c].dependsOn
             IsReached(f) == f = [ c \in a..N |-> c = a \/ \E p \in deps(c) : p >= a /\ f[p] ]
             Upward(X) == a \in X /\ \A c \in a..N : (\E p \in deps(c) : p \in X) => c \in X
             R == { c \in a..N : \A X \in SUBSET (a..N) : Upward(X) => c \in X }
  <1>1. N \in Nat /\ DOMAIN d.journal = 1..N /\ a \in 1..N
    BY DatabaseFields DEF Sound, Sane
  <1>2. \A c \in a..N : deps(c) \subseteq 1..N
    BY <1>1 DEF Sound, Sane, Typed, Refer
  <1> HIDE DEF N, deps
  <1>3. Upward(R) /\ R \subseteq a..N
    BY <1>1
  <1>4. ASSUME NEW c \in R, c # a PROVE \E p \in deps(c) : p \in R
    <2> SUFFICES ASSUME \A p \in deps(c) : p \notin R PROVE FALSE
      OBVIOUS
    <2>1. Upward(R \ {c})
      BY <1>3, <1>4
    <2>2. R \ {c} \in SUBSET (a..N)
      BY <1>3
    <2>3. c \in R \ {c}
      BY <2>1, <2>2
    <2> QED
      BY <2>3
  <1>5. ASSUME NEW c \in a..N
        PROVE  c \in R <=> c = a \/ \E p \in deps(c) : p >= a /\ p \in R
    <2>1. \A p \in R : p >= a
      BY <1>1, <1>3
    <2> HIDE DEF R
    <2> QED
      BY <1>3, <1>4, <2>1
  <1> HIDE DEF R
  <1> DEFINE g == [ c \in a..N |-> c \in R ]
  <1>6. IsReached(g)
    <2>1. ASSUME NEW c \in a..N
          PROVE  (c \in R) = (c = a \/ \E p \in deps(c) : p >= a /\ g[p])
      <3>1. \A p \in deps(c) : p >= a => p \in a..N
        BY <1>1, <1>2
      <3>2. \A p \in deps(c) : p >= a => g[p] = (p \in R)
        BY <3>1
      <3> HIDE DEF g
      <3>3. (\E p \in deps(c) : p >= a /\ g[p]) <=> (\E p \in deps(c) : p >= a /\ p \in R)
        BY <3>2, Zenon
      <3>4. c \in R <=> (c = a \/ \E p \in deps(c) : p >= a /\ p \in R)
        BY <1>5
      <3>5. c \in R <=> (c = a \/ \E p \in deps(c) : p >= a /\ g[p])
        BY <3>3, <3>4, Zenon
      <3> QED
        BY <3>5
    <2>2. g = [ c \in a..N |-> c = a \/ \E p \in deps(c) : p >= a /\ g[p] ]
      BY <2>1, Zenon
    <2> QED
      BY <2>2
  <1> DEFINE reached == CHOOSE f : IsReached(f)
  <1>7. IsReached(reached)
    <2> HIDE DEF IsReached, g
    <2> QED
      BY <1>6
  <1>8. Below(d, a) = { c \in (a + 1)..N : reached[c] }
    BY DEF Below, N, deps
  <1> HIDE DEF reached
  <1>9. b \in a..N /\ b # a /\ reached[b]
    BY <1>1, <1>8
  <1>10. reached[b] = (b = a \/ \E p \in deps(b) : p >= a /\ reached[p])
    BY <1>7, <1>9, Zenon
  <1>11. \E p \in deps(b) : p >= a
    BY <1>9, <1>10, Zenon
  <1> QED
    BY <1>11 DEF deps

LEMMA ReverseActionChanges ==
    ASSUME NEW S, Closed(S), db \in S, NEW a \in DOMAIN db.journal, ReverseAction(a)
    PROVE  db' \in S
  <1> DEFINE nodes == {a} \cup Below(db, a)
             L == Like(S, db)
             e == CascadeReversed(db, nodes)
  <1>1. e # Failed /\ db' = e
    BY Committed DEF ReverseAction
  <1>0. Sound(db)
    BY ClosedSound
  <1>2. nodes \subseteq DOMAIN db.journal
    BY <1>0, BelowDomain
  <1>3. Len(db.journal) \in Nat /\ DOMAIN db.journal = 1..Len(db.journal)
    BY <1>0, DatabaseFields DEF Sound, Sane
  <1>4. db \in L
    BY DEF Like, SameActions
  <1>7. \A b \in nodes : (b = a /\ db.journal[a].type \in FromJournal) \/ db.journal[b].dependsOn # {}
    BY <1>0, BelowDepends DEF ReverseAction
  <1> HIDE DEF nodes
  <1>8. ASSUME NEW v \in L, NEW b \in nodes PROVE v = Failed \/ Spared(v, b)
    <2> SUFFICES ASSUME v # Failed, Shaped(v), KeptOutOfJournal PROVE v.journal[b].type # "transfer_send"
      BY DEF Spared
    <2>1. SameActions(v, db) /\ b \in DOMAIN db.journal
      BY <1>2 DEF Like
    <2>2. /\ v.journal[b].type = db.journal[b].type /\ v.journal[b].dependsOn = db.journal[b].dependsOn
          /\ b \in DOMAIN v.journal
      BY <2>1 DEF SameActions
    <2>3. Entered(v, b)
      BY <2>2 DEF Shaped
    <2> QED
      BY <1>7, <2>2, <2>3 DEF Entered, KeptOutOfJournal
  <1>5. \A v \in L : \A b \in nodes \cap (1..Len(db.journal)) : Reversed(v, b) \in L
    BY <1>3, <1>8, ReversedKeeps
  <1> HIDE DEF L
  <1>6. e \in L
    BY <1>3, <1>4, <1>5, CascadeKeeps
  <1> HIDE DEF e
  <1> QED
    BY <1>1, <1>6 DEF L, Like

LEMMA CancelTransferChanges ==
    ASSUME NEW S, Closed(S), db \in S, NEW a \in DOMAIN db.journal, CancelTransfer(a)
    PROVE  db' \in S
  <1> DEFINE e == Cancelled(db, a)
  <1>1. e # Failed /\ db' = e
    BY Committed DEF CancelTransfer
  <1>2. db \in Like(S, db)
    BY DEF Like, SameActions
  <1>3. e \in Like(S, db)
    BY <1>2, CancelledKeeps
  <1> HIDE DEF e
  <1> QED
    BY <1>1, <1>3 DEF Like

(* The tasks are mapped, one by one. *)
Mapped(d, e, f, T) ==
    /\ e \in Database /\ e.tasks = f /\ e.journal = d.journal /\ e.ledger = d.ledger
    /\ e.reopened = T /\ DOMAIN e.tasks = DOMAIN d.tasks

LEMMA TasksMapped ==
    ASSUME NEW d, Sound(d), NEW f \in [ DOMAIN d.tasks -> TaskRow ], NEW T \in SUBSET (DOMAIN d.tasks),
           NEW e, e = [ d EXCEPT !.tasks = f, !.reopened = T ]
    PROVE  Mapped(d, e, f, T)
  <1>1. /\ d = [ tasks |-> d.tasks, journal |-> d.journal, ledger |-> d.ledger,
                 reopened |-> d.reopened ]
        /\ d.journal \in Seq(ActionRow) /\ d.ledger \in Seq(LedgerRow)
        /\ Len(d.tasks) \in Nat /\ DOMAIN d.tasks = 1..Len(d.tasks)
    BY DatabaseFields DEF Sound, Sane
  <1>2. f \in Seq(TaskRow) /\ DOMAIN f = DOMAIN d.tasks /\ T \in SUBSET Nat
    <2>1. f \in [ 1..Len(d.tasks) -> TaskRow ]
      BY <1>1
    <2>2. \E n \in Nat : f \in [ 1..n -> TaskRow ]
      BY <1>1, <2>1
    <2>3. f \in Seq(TaskRow)
      BY <2>2, IsASeq
    <2> QED
      BY <1>1, <2>3
  <1>3. e = [ tasks |-> f, journal |-> d.journal, ledger |-> d.ledger, reopened |-> T ]
    BY <1>1
  <1>4. [ tasks |-> f, journal |-> d.journal, ledger |-> d.ledger, reopened |-> T ] \in Database
    BY <1>1, <1>2, DatabaseOf
  <1>5. e \in Database
    BY <1>3, <1>4, Zenon
  <1> QED
    BY <1>2, <1>3, <1>5 DEF Mapped

(* The stages that an issue skipped are opened again. *)
RestoredFrom(d, e, T) ==
    /\ Sound(e) /\ e.journal = d.journal /\ e.ledger = d.ledger
    /\ e.reopened = d.reopened \cup T /\ DOMAIN e.tasks = DOMAIN d.tasks
    /\ \A t \in DOMAIN d.tasks :
         /\ e.tasks[t].position = d.tasks[t].position /\ e.tasks[t].stage = d.tasks[t].stage
         /\ e.tasks[t].planned = d.tasks[t].planned
         /\ IF t \in T THEN e.tasks[t].status \in Early ELSE e.tasks[t] = d.tasks[t]

LEMMA RestoredSound ==
    ASSUME NEW d, Sound(d), NEW T \in SUBSET (DOMAIN d.tasks), NEW e, e = Restored(d, T)
    PROVE  RestoredFrom(d, e, T)
  <1> DEFINE waits(t) == \E u \in DOMAIN d.tasks :
               /\ d.tasks[u].position = d.tasks[t].position /\ d.tasks[u].stage < d.tasks[t].stage
               /\ IsOpen(d, u) \/ (u \in T /\ u < t)
             opened(t) == [ d.tasks[t] EXCEPT !.status = IF waits(t) THEN "waiting_previous" ELSE "ready",
                                              !.skippedBy = NULL ]
             f == [ t \in DOMAIN d.tasks |-> IF t \in T THEN opened(t) ELSE d.tasks[t] ]
             R == d.reopened \cup T
  <1>1. e = [ d EXCEPT !.tasks = f, !.reopened = R ]
    BY DEF Restored
  <1>2. Refer(d) /\ \A t \in DOMAIN d.tasks : d.tasks[t] \in TaskRow
    BY DatabaseFields DEF Sound, Sane, Typed
  <1> HIDE DEF waits
  <1>3. ASSUME NEW t \in DOMAIN d.tasks
        PROVE  /\ opened(t) \in TaskRow
               /\ opened(t).position = d.tasks[t].position /\ opened(t).stage = d.tasks[t].stage
               /\ opened(t).planned = d.tasks[t].planned /\ opened(t).skippedBy = NULL
               /\ opened(t).status \in Early
    <2>1. d.tasks[t] \in TaskRow
      BY <1>2
    <2> QED
      BY <2>1 DEF TaskRow, WorkTaskStatus, Nullable, Early
  <1> HIDE DEF opened
  <1>4. /\ f \in [ DOMAIN d.tasks -> TaskRow ]
        /\ \A t \in T : f[t] = opened(t)
        /\ \A t \in DOMAIN d.tasks : t \notin T => f[t] = d.tasks[t]
    BY <1>2, <1>3
  <1>5. R \in SUBSET (DOMAIN d.tasks)
    BY <1>2 DEF Refer
  <1> HIDE DEF f, R
  <1>6. /\ e \in Database /\ e.tasks = f /\ e.journal = d.journal /\ e.ledger = d.ledger
        /\ e.reopened = R /\ DOMAIN e.tasks = DOMAIN d.tasks
    <2>1. Mapped(d, e, f, R)
      BY <1>1, <1>4, <1>5, TasksMapped
    <2> QED
      BY <2>1 DEF Mapped
  <1>7. ASSUME NEW t \in DOMAIN d.tasks
        PROVE  /\ e.tasks[t].position = d.tasks[t].position /\ e.tasks[t].stage = d.tasks[t].stage
               /\ e.tasks[t].planned = d.tasks[t].planned
               /\ IF t \in T THEN e.tasks[t].status \in Early ELSE e.tasks[t] = d.tasks[t]
               /\ e.tasks[t].skippedBy \in Nullable(DOMAIN d.journal)
    <2>1. CASE t \in T
      BY <1>3, <1>4, <1>6, <2>1 DEF Nullable
    <2>2. CASE t \notin T
      BY <1>2, <1>4, <1>6, <2>2 DEF Refer
    <2> QED
      BY <2>1, <2>2
  <1>8. MayBecome(d, e)
    <2>1. ASSUME NEW t \in DOMAIN d.tasks
          PROVE  \/ t \in e.reopened
                 \/ /\ IsOpen(e, t) => IsOpen(d, t)
                    /\ e.tasks[t].status \in Early => d.tasks[t].status \in Early
      <3>1. CASE t \in T
        BY <1>6, <3>1 DEF R
      <3>2. CASE t \notin T
        BY <1>7, <3>2 DEF IsOpen
      <3> QED
        BY <3>1, <3>2
    <2>2. d.reopened \subseteq e.reopened /\ e.reopened \subseteq DOMAIN e.tasks
      BY <1>5, <1>6 DEF R
    <2> QED
      BY <1>6, <1>7, <2>1, <2>2 DEF MayBecome
  <1>9. Sound(e)
    BY <1>6, <1>8, TasksChanged
  <1> QED
    BY <1>6, <1>7, <1>9 DEF RestoredFrom, R

(* The stages that an issue jumps are skipped. *)
SkippedFrom(d, e, issue) ==
    /\ Sound(e) /\ e.journal = d.journal /\ e.ledger = d.ledger
    /\ e.reopened = d.reopened /\ DOMAIN e.tasks = DOMAIN d.tasks
    /\ \A t \in DOMAIN d.tasks :
         /\ e.tasks[t].position = d.tasks[t].position /\ e.tasks[t].stage = d.tasks[t].stage
         /\ e.tasks[t].planned = d.tasks[t].planned
         /\ \/ e.tasks[t] = d.tasks[t]
            \/ /\ e.tasks[t].status = "skipped" /\ e.tasks[t].skippedBy = issue
               /\ TasksOnLine(d, d.tasks[t].position, d.tasks[t].stage) = {t} =>
                    ~KeepsItsStage(d.tasks[t].status)

LEMMA JumpedSkippedSound ==
    ASSUME NEW d, Sound(d), NEW p, NEW intake, NEW issue \in DOMAIN d.journal,
           NEW e, e = WithJumpedSkipped(d, p, intake, issue), e # Failed
    PROVE  SkippedFrom(d, e, issue)
  <1> DEFINE jumped == { s \in 1..(intake - 1) :
                           \E t \in TasksOnLine(d, p, s) : ~KeepsItsStage(d.tasks[t].status) }
             first == { First(TasksOnLine(d, p, s)) : s \in jumped }
             skipped(t) == [ d.tasks[t] EXCEPT !.status = "skipped", !.skippedBy = issue ]
             f == [ t \in DOMAIN d.tasks |-> IF t \in first THEN skipped(t) ELSE d.tasks[t] ]
  <1>1. e = [ d EXCEPT !.tasks = f ]
    BY DEF WithJumpedSkipped
  <1>11. ASSUME NEW t \in first, TasksOnLine(d, d.tasks[t].position, d.tasks[t].stage) = {t}
         PROVE  ~KeepsItsStage(d.tasks[t].status)
    <2>1. PICK s \in jumped : t = First(TasksOnLine(d, p, s))
      OBVIOUS
    <2>2. PICK u \in TasksOnLine(d, p, s) : ~KeepsItsStage(d.tasks[u].status)
      OBVIOUS
    <2> DEFINE line == TasksOnLine(d, p, s)
    <2>3. line \subseteq DOMAIN d.tasks /\ DOMAIN d.tasks = 1..Len(d.tasks)
      BY DatabaseFields DEF TasksOnLine, Sound, Sane
    <2>4. line \in SUBSET Nat /\ line # {} /\ u \in line /\ t = First(line)
      BY <2>1, <2>3
    <2>5. t \in line
      <3> HIDE DEF line
      <3> QED
        BY <2>4, FirstOf
    <2>6. d.tasks[t].position = p /\ d.tasks[t].stage = s
      BY <2>5 DEF TasksOnLine
    <2>7. u = t
      BY <1>11, <2>4, <2>6
    <2> QED
      BY <2>2, <2>7
  <1> HIDE DEF first
  <1>2. /\ Refer(d) /\ \A t \in DOMAIN d.tasks : d.tasks[t] \in TaskRow
        /\ issue \in Nat /\ issue # NULL
        /\ d = [ tasks |-> d.tasks, journal |-> d.journal, ledger |-> d.ledger,
                 reopened |-> d.reopened ]
    <2>1. Typed(d) /\ Refer(d)
      BY DEF Sound, Sane, Typed
    <2>2. issue \in Nat
      BY <2>1, DatabaseFields
    <2> QED
      BY <2>1, <2>2, DatabaseFields, NullIsNoValue
  <1>3. ASSUME NEW t \in DOMAIN d.tasks
        PROVE  /\ skipped(t) \in TaskRow
               /\ skipped(t).position = d.tasks[t].position /\ skipped(t).stage = d.tasks[t].stage
               /\ skipped(t).planned = d.tasks[t].planned
               /\ skipped(t).skippedBy = issue /\ skipped(t).status = "skipped"
    <2>1. d.tasks[t] \in TaskRow
      BY <1>2
    <2> QED
      BY <1>2, <2>1 DEF TaskRow, WorkTaskStatus, Nullable
  <1> HIDE DEF skipped
  <1>4. /\ f \in [ DOMAIN d.tasks -> TaskRow ]
        /\ \A t \in DOMAIN d.tasks : f[t] = IF t \in first THEN skipped(t) ELSE d.tasks[t]
    BY <1>2, <1>3
  <1> HIDE DEF f
  <1>5. e = [ d EXCEPT !.tasks = f, !.reopened = d.reopened ]
    <2>1. [ d EXCEPT !.tasks = f ] = [ d EXCEPT !.tasks = f, !.reopened = d.reopened ]
      BY <1>2
    <2> QED
      BY <1>1, <2>1
  <1>6. d.reopened \in SUBSET (DOMAIN d.tasks)
    BY <1>2 DEF Refer
  <1>7. /\ e \in Database /\ e.tasks = f /\ e.journal = d.journal /\ e.ledger = d.ledger
        /\ e.reopened = d.reopened /\ DOMAIN e.tasks = DOMAIN d.tasks
    <2>1. Mapped(d, e, f, d.reopened)
      BY <1>4, <1>5, <1>6, TasksMapped
    <2> QED
      BY <2>1 DEF Mapped
  <1>8. ASSUME NEW t \in DOMAIN d.tasks
        PROVE  /\ e.tasks[t].position = d.tasks[t].position /\ e.tasks[t].stage = d.tasks[t].stage
               /\ e.tasks[t].planned = d.tasks[t].planned
               /\ \/ e.tasks[t] = d.tasks[t]
                  \/ /\ e.tasks[t].status = "skipped" /\ e.tasks[t].skippedBy = issue
                     /\ TasksOnLine(d, d.tasks[t].position, d.tasks[t].stage) = {t} =>
                          ~KeepsItsStage(d.tasks[t].status)
    <2>1. CASE t \in first
      BY <1>3, <1>4, <1>7, <1>11, <2>1
    <2>2. CASE t \notin first
      BY <1>4, <1>7, <2>2
    <2> QED
      BY <2>1, <2>2
  <1>9. MayBecome(d, e)
    <2>1. ASSUME NEW t \in DOMAIN d.tasks
          PROVE  /\ IsOpen(e, t) => IsOpen(d, t)
                 /\ e.tasks[t].status \in Early => d.tasks[t].status \in Early
                 /\ e.tasks[t].skippedBy \in Nullable(DOMAIN d.journal)
      <3>1. CASE e.tasks[t] = d.tasks[t]
        BY <1>2, <3>1 DEF IsOpen, Refer
      <3>2. CASE e.tasks[t].status = "skipped" /\ e.tasks[t].skippedBy = issue
        BY <3>2 DEF IsOpen, ClosedStatus, Early, Nullable
      <3> QED
        BY <1>8, <3>1, <3>2
    <2> QED
      BY <1>6, <1>7, <1>8, <2>1 DEF MayBecome
  <1>10. Sound(e)
    BY <1>7, <1>9, TasksChanged
  <1> QED
    BY <1>7, <1>8, <1>10 DEF SkippedFrom
----------------------------------------------------------------------------
(* The requests that do several things.                                     *)

(* What an issue takes from a stage is a quantity. *)
LEMMA IssuePlanType ==
    ASSUME NEW d, Sound(d), NEW required \in Nat, NEW excluded, NEW s \in Stages
    PROVE  IssuePlan(d, required, excluded)[s] \in Nat
  <1> DEFINE held == [ n \in Stages |-> IF n \in excluded THEN 0 ELSE OnHand(d, StoreFor(n)) ]
             later == [ n \in Stages |-> IF n > s THEN held[n] ELSE 0 ]
             remaining == required - Total(later)
  <1>1. LastStage \in Nat /\ Stages = 1..LastStage
    BY TaskFlowConstants DEF Stages
  <1>2. ASSUME NEW n \in Stages PROVE OnHand(d, StoreFor(n)) \in Nat
    <2>1. StoreFor(n) \in Place
      BY <1>1 DEF StoreFor, At, Place
    <2>2. StoreFor(n) # NULL
      BY <2>1, NullIsNoValue
    <2> DEFINE place == StoreFor(n)
    <2> HIDE DEF place
    <2>3. OnHand(d, place) \in Int
      BY <2>2, OnHandType DEF Sound, Sane, place
    <2>4. OnHand(d, place) >= 0
      BY <2>1 DEF Sound, NoneNegative, place
    <2>5. OnHand(d, place) \in Nat
      BY <2>3, <2>4
    <2> QED
      BY <2>5 DEF place
  <1>3. \A n \in Stages : held[n] \in Nat
    BY <1>2
  <1>4. IssuePlan(d, required, excluded)[s]
          = AtLeastZero(IF remaining <= held[s] THEN remaining ELSE held[s])
    BY DEF IssuePlan
  <1> HIDE DEF held
  <1>5. later \in [ 1..LastStage -> Nat ]
    BY <1>1, <1>3
  <1> HIDE DEF later
  <1>6. Total(later) \in Nat
    BY <1>1, <1>5, TotalFinite
  <1>7. remaining \in Int /\ held[s] \in Nat
    BY <1>3, <1>6
  <1> HIDE DEF remaining
  <1> QED
    BY <1>4, <1>7 DEF AtLeastZero

(* What execute_issue leaves before it marks the stages that it jumped. *)
LEMMA IssuedToStagesChanges ==
    ASSUME NEW C, Closed(C), NEW d \in C, NEW p \in Positions, NEW take, \A s \in Stages : take[s] \in Nat,
           \E s \in Stages : take[s] > 0,
           NEW issue, issue = NextAction(d), NEW e, e = IssuedToStages(d, p, take, issue), e # Failed
    PROVE  e \in C /\ issue \in DOMAIN e.journal
  <1> DEFINE S == { v \in C : Len(v.journal) >= Len(d.journal) } \cup {Failed}
             Began(v, s) == v # Failed /\ (\E k \in Stages : k >= s /\ take[k] > 0)
                              => Len(v.journal) >= issue
             V == [ s \in 1..(LastStage + 1) |-> { v \in S : Began(v, s) } ]
  <1>1. Sound(d) /\ Len(d.journal) \in Nat /\ issue = Len(d.journal) + 1
    BY ClosedSound, DatabaseFields DEF Sound, Sane, NextAction
  <1>2. d \in S
    BY <1>1
  <1>3. LastStage \in Nat /\ Stages = 1..LastStage
    BY TaskFlowConstants DEF Stages
  <1>4. ASSUME NEW v \in S, NEW s \in Stages, take[s] > 0, NEW w, w = Issued(v, p, s, take[s], issue)
        PROVE  w \in S /\ (w # Failed => Len(w.journal) >= issue)
    <2>1. CASE w = Failed
      BY <2>1
    <2>2. CASE w # Failed
      <3>1. v # Failed
        BY <1>4, <2>2 DEF Issued
      <3>2. v \in C /\ Sound(v) /\ Len(v.journal) >= Len(d.journal)
        BY <3>1, ClosedSound
      <3>3. Len(v.journal) \in Nat /\ v.journal \in Seq(ActionRow)
        BY <3>2, DatabaseFields DEF Sound, Sane
      <3>4. issue \in 1..(Len(v.journal) + 1) /\ take[s] \in Nat \ {0}
        BY <1>1, <1>4, <3>2, <3>3
      <3> DEFINE q == take[s]
      <3> HIDE DEF q, S
      <3>5. \E t \in DOMAIN w.tasks :
              Passed(v, w, NULL, StoreFor(s), t, q, issue) /\ Supplied(v, w, NULL, StoreFor(s), t)
        BY <1>4, <2>2, <3>2, <3>4, IssuedPasses DEF q
      <3>6. PICK t \in DOMAIN w.tasks :
              Passed(v, w, NULL, StoreFor(s), t, q, issue) /\ Supplied(v, w, NULL, StoreFor(s), t)
        BY <3>5
      <3> DEFINE entry == TransferEntry(NULL, t, q, issue)
      <3>7. Change(v, w) /\ w.journal = Append(v.journal, entry)
        BY <3>2, <3>6, PassedChanges DEF Passed
      <3> HIDE DEF entry
      <3>8. Len(w.journal) = Len(v.journal) + 1
        BY <3>3, <3>7
      <3>9. w \in C
        BY <3>2, <3>7, ClosedStep
      <3> QED
        BY <1>1, <3>2, <3>3, <3>8, <3>9 DEF S
    <2> QED
      BY <2>1, <2>2
  <1> HIDE DEF S
  <1>5. V \in [ 1..(LastStage + 1) -> SUBSET S ]
    OBVIOUS
  <1>6. \A s \in 1..(LastStage + 1) : \A v : v \in V[s] <=> v \in S /\ Began(v, s)
    OBVIOUS
  <1> HIDE DEF V
  <1>7. d \in V[LastStage + 1]
    <2>1. LastStage + 1 \in 1..(LastStage + 1) /\ \A k \in Stages : ~(k >= LastStage + 1)
      BY <1>3
    <2> QED
      BY <1>2, <1>6, <2>1
  <1>8. ASSUME NEW s \in Stages, NEW v \in V[s + 1]
        PROVE  (IF take[s] > 0 THEN Issued(v, p, s, take[s], issue) ELSE v) \in V[s]
    <2>1. s \in 1..(LastStage + 1) /\ s + 1 \in 1..(LastStage + 1)
      BY <1>3
    <2>2. v \in S /\ Began(v, s + 1)
      BY <1>6, <2>1
    <2>3. CASE take[s] > 0
      <3>1. PICK w : w = Issued(v, p, s, take[s], issue)
        OBVIOUS
      <3>2. w \in S /\ (w # Failed => Len(w.journal) >= issue)
        BY <1>4, <2>2, <2>3, <3>1
      <3>3. w \in V[s]
        BY <1>6, <2>1, <3>2
      <3> QED
        BY <2>3, <3>1, <3>3
    <2>4. CASE ~(take[s] > 0)
      <3>1. Began(v, s)
        <4>1. \A k \in Stages : k >= s /\ take[k] > 0 => k >= s + 1
          BY <1>3, <2>4
        <4> QED
          BY <2>2, <4>1
      <3> QED
        BY <1>6, <2>1, <2>2, <2>4, <3>1
    <2> QED
      BY <2>3, <2>4
  <1>9. \A v \in S : \A s \in Stages : take[s] > 0 => Issued(v, p, s, take[s], issue) \in S
    BY <1>4
  <1>10. IssuedToStages(d, p, take, issue) \in V[1]
    <2> HIDE DEF Began
    <2> QED
      BY <1>2, <1>5, <1>7, <1>8, <1>9, IssuedToStagesKeeps
  <1>11. e \in S /\ Began(e, 1)
    BY <1>3, <1>6, <1>10
  <1>12. e \in C /\ Sound(e) /\ Len(e.journal) >= issue
    <2>1. \E k \in Stages : k >= 1 /\ take[k] > 0
      BY <1>3
    <2> QED
      BY <1>11, <2>1, ClosedSound DEF S
  <1>13. DOMAIN e.journal = 1..Len(e.journal) /\ Len(e.journal) \in Nat
    BY <1>12, DatabaseFields DEF Sound, Sane
  <1> QED
    BY <1>1, <1>12, <1>13

LEMMA IssueToWorkChanges ==
    ASSUME NEW S, Closed(S), db \in S, NEW p \in Positions, NEW required \in Nat, NEW excluded,
           IssueToWork(p, required, excluded)
    PROVE  \E c \in S : \E issue : SkippedFrom(c, db', issue)
  <1> DEFINE take == IssuePlan(db, required, excluded)
             taken == { s \in Stages : take[s] > 0 }
             issue == NextAction(db)
             x == IssuedToStages(db, p, take, issue)
             e == WithJumpedSkipped(x, p, First(taken), issue)
  <1>1. taken # {} /\ x # Failed /\ e # Failed /\ db' = e
    BY Committed DEF IssueToWork
  <1>2. \A s \in Stages : take[s] \in Nat
    BY ClosedSound, IssuePlanType
  <1>3. \E s \in Stages : take[s] > 0
    BY <1>1
  <1> HIDE DEF take, e, x, taken, issue
  <1>4. x \in S /\ issue \in DOMAIN x.journal
    BY <1>1, <1>2, <1>3, IssuedToStagesChanges DEF x, issue
  <1>5. SkippedFrom(x, e, issue)
    BY <1>1, <1>4, ClosedSound, JumpedSkippedSound DEF e
  <1> QED
    BY <1>1, <1>4, <1>5

(* The transfers of an issue that are left are cancelled up to the n-th      *)
(* action, and nothing else is touched.                                     *)
CancelledUpTo(d, v, left, n) ==
    /\ Sound(v) /\ Onward(d, v)
    /\ \A a \in DOMAIN d.journal :
         IF a \in left /\ a <= n THEN v.journal[a].transfer = "cancelled"
         ELSE v.journal[a] = d.journal[a]

LEMMA OneMoreCancelled ==
    ASSUME NEW d, Sound(d), NEW left, NEW n \in DOMAIN d.journal, n \in left,
           NEW v, CancelledUpTo(d, v, left, n - 1), DOMAIN v.journal = DOMAIN d.journal,
           NEW e, e = Cancelled(v, n), e # Failed
    PROVE  CancelledUpTo(d, e, left, n)
  <1>1. /\ v.journal[n].transfer = "accepted" /\ e = Reversed(v, n)
    BY DEF Cancelled
  <1>2. Sound(v) /\ Onward(d, v) /\ n \in DOMAIN v.journal
    BY DEF CancelledUpTo
  <1>3. TakenBack(v, e, n)
    BY <1>1, <1>2, ReversedTakesBack
  <1>4. /\ Sound(e) /\ Onward(v, e) /\ DOMAIN e.journal = DOMAIN v.journal
        /\ e.journal[n] = ReversedEntry(v, n)
        /\ \A b \in DOMAIN v.journal : b # n => e.journal[b] = v.journal[b]
    BY <1>3, TakenBackSound
  <1>5. e.journal[n].transfer = "cancelled"
    <2>1. v.journal[n] \in ActionRow
      BY <1>2, DatabaseFields DEF Sound, Sane
    <2>2. ReversedEntry(v, n).transfer = "cancelled"
      BY <1>1, <2>1 DEF ReversedEntry, CancelledIfAccepted, ActionRow
    <2> QED
      BY <1>4, <2>2
  <1>6. Onward(d, e)
    BY <1>2, <1>4, OnwardTwice
  <1>7. DOMAIN d.journal = 1..Len(d.journal) /\ Len(d.journal) \in Nat
    BY DatabaseFields DEF Sound, Sane
  <1>8. ASSUME NEW a \in DOMAIN d.journal
        PROVE  IF a \in left /\ a <= n THEN e.journal[a].transfer = "cancelled"
               ELSE e.journal[a] = d.journal[a]
    <2>1. CASE a = n
      BY <1>5, <1>7, <2>1
    <2>2. CASE a # n
      <3>1. e.journal[a] = v.journal[a]
        BY <1>4, <2>2
      <3>2. a <= n <=> a <= n - 1
        BY <1>7, <2>2
      <3>3. IF a \in left /\ a <= n - 1 THEN v.journal[a].transfer = "cancelled"
            ELSE v.journal[a] = d.journal[a]
        BY DEF CancelledUpTo
      <3> QED
        BY <3>1, <3>2, <3>3, Zenon
    <2> QED
      BY <2>1, <2>2
  <1> QED
    BY <1>4, <1>6, <1>8 DEF CancelledUpTo

(* The whole issue is taken back (c), and what it skipped is opened again. *)
IssueTakenBack(d, c, e, issue) ==
    /\ Sound(c) /\ Onward(d, c)
    /\ \A a \in DOMAIN d.journal : d.journal[a].issue = issue => c.journal[a].transfer = "cancelled"
    /\ RestoredFrom(c, e, SkippedTasks(c, issue))

LEMMA CancelIssueChanges ==
    ASSUME NEW S, Closed(S), db \in S, NEW issue, CancelIssue(issue)
    PROVE  \E c \in S : IssueTakenBack(db, c, db', issue)
  <1> DEFINE left == { a \in DOMAIN db.journal : /\ db.journal[a].issue = issue
                                                 /\ db.journal[a].transfer # "cancelled" }
             N == Len(db.journal)
             L == Like(S, db)
             Done(v, n) == v = Failed \/ CancelledUpTo(db, v, left, n)
             V == [ n \in 0..N |-> { v \in L : Done(v, n) } ]
             c == AllCancelled(db, left)
             e == Restored(c, SkippedTasks(c, issue))
  <1>0. Sound(db)
    BY ClosedSound
  <1>1. c # Failed /\ e # Failed /\ db' = e
    BY Committed DEF CancelIssue
  <1>2. N \in Nat /\ DOMAIN db.journal = 1..N
    BY <1>0, DatabaseFields DEF Sound, Sane
  <1>3. db \in L
    BY DEF Like, SameActions
  <1>4. \A v \in L : \A n \in left \cap (1..N) : Cancelled(v, n) \in L
    BY <1>2, CancelledKeeps
  <1>13. \A a \in DOMAIN db.journal : a \in left <=> /\ db.journal[a].issue = issue
                                                    /\ db.journal[a].transfer # "cancelled"
    OBVIOUS
  <1>14. \A v \in L : v = Failed \/ (v \in S /\ DOMAIN v.journal = DOMAIN db.journal)
    BY DEF Like, SameActions
  <1> HIDE DEF left, c, e, L, Done
  <1>5. V \in [ 0..N -> SUBSET L ] /\ \A n \in 0..N : \A v : v \in V[n] <=> v \in L /\ Done(v, n)
    OBVIOUS
  <1> HIDE DEF V
  <1>6. db \in V[0]
    <2>1. Onward(db, db)
      BY OnwardSame
    <2>2. \A a \in DOMAIN db.journal : ~(a <= 0)
      BY <1>2
    <2>3. Done(db, 0)
      BY <1>0, <2>1, <2>2 DEF Done, CancelledUpTo
    <2> QED
      BY <1>2, <1>3, <1>5, <2>3
  <1>7. ASSUME NEW n \in 1..N, NEW v \in V[n - 1]
        PROVE  (IF n \in left THEN Cancelled(v, n) ELSE v) \in V[n]
    <2>1. n \in 0..N /\ n - 1 \in 0..N /\ n \in DOMAIN db.journal
      BY <1>2
    <2>2. v \in L /\ Done(v, n - 1)
      BY <1>5, <2>1
    <2>3. CASE n \in left
      <3>1. PICK w : w = Cancelled(v, n)
        OBVIOUS
      <3>2. w \in L
        BY <1>4, <2>2, <2>3, <3>1
      <3>3. Done(w, n)
        <4>1. CASE w = Failed
          BY <4>1 DEF Done
        <4>2. CASE w # Failed
          <5>1. v # Failed
            BY <3>1, <4>2 DEF Cancelled
          <5>2. CancelledUpTo(db, v, left, n - 1) /\ DOMAIN v.journal = DOMAIN db.journal
            BY <1>14, <2>2, <5>1 DEF Done
          <5>3. CancelledUpTo(db, w, left, n)
            BY <1>0, <2>1, <2>3, <3>1, <4>2, <5>2, OneMoreCancelled
          <5> QED
            BY <5>3 DEF Done
        <4> QED
          BY <4>1, <4>2
      <3>4. w \in V[n]
        BY <1>5, <2>1, <3>2, <3>3
      <3> QED
        BY <2>3, <3>1, <3>4
    <2>4. CASE n \notin left
      <3>1. \A a \in DOMAIN db.journal : a \in left => (a <= n <=> a <= n - 1)
        BY <1>2, <2>4
      <3>2. Done(v, n)
        BY <2>2, <3>1 DEF Done, CancelledUpTo
      <3>3. v \in V[n]
        BY <1>5, <2>1, <2>2, <3>2
      <3> QED
        BY <2>4, <3>3
    <2> QED
      BY <2>3, <2>4
  <1>8. c \in V[N]
    BY <1>2, <1>3, <1>4, <1>5, <1>6, <1>7, AllCancelledKeeps DEF c
  <1>9. c \in S /\ CancelledUpTo(db, c, left, N)
    <2>1. c \in L /\ Done(c, N)
      BY <1>2, <1>5, <1>8
    <2> QED
      BY <1>1, <1>14, <2>1 DEF Done
  <1>10. Sound(c) /\ Onward(db, c)
    BY <1>9 DEF CancelledUpTo
  <1>15. ASSUME NEW a \in DOMAIN db.journal, db.journal[a].issue = issue
         PROVE  c.journal[a].transfer = "cancelled"
    <2>1. a <= N
      BY <1>2
    <2>2. CASE a \in left
      BY <1>9, <2>1, <2>2 DEF CancelledUpTo
    <2>3. CASE a \notin left
      BY <1>9, <1>13, <1>15, <2>3 DEF CancelledUpTo
    <2> QED
      BY <2>2, <2>3
  <1> DEFINE T == SkippedTasks(c, issue)
  <1>11. T \in SUBSET (DOMAIN c.tasks) /\ e = Restored(c, T)
    BY DEF SkippedTasks, e
  <1> HIDE DEF T
  <1>12. RestoredFrom(c, e, T)
    BY <1>10, <1>11, RestoredSound
  <1>16. IssueTakenBack(db, c, e, issue)
    BY <1>10, <1>12, <1>15 DEF IssueTakenBack, T
  <1> QED
    BY <1>1, <1>9, <1>16

(* The transfer that is superseded. *)
LEMMA AmendedSound ==
    ASSUME NEW d, Sound(d), NEW a \in DOMAIN d.journal, NEW e, e = AmendedAction(d, a), d # Failed
    PROVE  EntryChanged(d, e, a, [ d.journal[a] EXCEPT !.transfer = "amended" ])
  <1> DEFINE entry == [ d.journal[a] EXCEPT !.transfer = "amended" ]
  <1>1. e = [ d EXCEPT !.journal = [ d.journal EXCEPT ![a] = entry ] ]
    BY DEF AmendedAction
  <1>2. d.journal[a] \in ActionRow
    BY DatabaseFields DEF Sound, Sane
  <1>3. /\ entry \in ActionRow
        /\ entry.task = d.journal[a].task /\ entry.to = d.journal[a].to
        /\ entry.issue = d.journal[a].issue /\ entry.dependsOn = d.journal[a].dependsOn
    BY <1>2 DEF ActionRow, TransferStatus, Nullable
  <1> HIDE DEF entry
  <1>4. EntryChanged(d, e, a, entry)
    BY <1>1, <1>3, EntryReplaced
  <1> QED
    BY <1>4 DEF entry

(* A correction: the transfer is reversed, sent anew and superseded.         *)
Corrected(d, e) ==
    /\ \E r, x : Moves(d, r) /\ Moves(r, x) /\ Moves(x, e)
    /\ Shaped(d) /\ KeptOutOfJournal => Lives(d, e)

(* What is sent anew makes up for what the reversal took, up to what the     *)
(* receiving task has in work.                                               *)
LEMMA SentAnewLives ==
    ASSUME NEW d, Sound(d), Shaped(d), NEW a \in DOMAIN d.journal, d.journal[a].transfer = "accepted",
           NEW q \in Nat,
           q < d.journal[a].quantity => d.journal[a].quantity - q <= InWork(d, d.journal[a].to),
           NEW r, TakenBack(d, r, a), NEW x, NEW from, NEW t, Handover(r, x, from, t, q),
           d.journal[a].to # NULL => t = d.journal[a].to,
           NEW e, e.ledger = x.ledger
    PROVE  Lives(d, e)
  <1> SUFFICES ASSUME NEW u
               PROVE  \/ Used(e, u) <= Received(e, u)
                      \/ Used(e, u) - Received(e, u) <= Used(d, u) - Received(d, u)
    BY DEF Lives
  <1>1. /\ Used(r, u) <= Used(d, u) /\ Used(d, u) <= Completed(d, u) + Rejected(d, u)
        /\ Used(d, u) \in Nat /\ Used(r, u) \in Nat /\ Received(d, u) \in Nat
        /\ Received(r, u) \in Nat /\ Completed(d, u) \in Nat /\ Rejected(d, u) \in Nat
    BY TakenBackFigures
  <1>2. /\ Used(e, u) = Used(r, u)
        /\ Received(e, u) = Received(r, u) + (IF u = t THEN q ELSE 0)
    <2>1. /\ Net(e, {u}, "complete") = Net(x, {u}, "complete")
          /\ Net(e, {u}, "scrap") = Net(x, {u}, "scrap") /\ Received(e, u) = Received(x, u)
      BY SameLedger
    <2> QED
      BY <2>1 DEF Handover, Used
  <1>3. CASE Received(r, u) = Received(d, u)
    BY <1>1, <1>2, <1>3
  <1>4. CASE /\ d.journal[a].type = "transfer_send" /\ u = d.journal[a].to
             /\ d.journal[a].quantity \in Nat
             /\ Received(r, u) = Received(d, u) - d.journal[a].quantity
    <2>1. d.journal[a].to \in DOMAIN d.tasks
      BY <1>4 DEF Shaped, Entered
    <2>2. d.journal[a].to # NULL
      BY <2>1, NullIsNoValue, DatabaseFields DEF Sound, Sane
    <2>3. Received(e, u) = Received(d, u) - d.journal[a].quantity + q
      BY <1>2, <1>4, <2>2
    <2>4. CASE q < d.journal[a].quantity
      <3>1. d.journal[a].quantity - q <= Received(d, u) - Completed(d, u) - Rejected(d, u)
        BY <1>4, <2>4 DEF InWork
      <3> QED
        BY <1>1, <1>2, <1>4, <2>3, <3>1
    <2>5. CASE ~(q < d.journal[a].quantity)
      BY <1>1, <1>2, <1>4, <2>3, <2>5
    <2> QED
      BY <2>4, <2>5
  <1> QED
    BY <1>3, <1>4, TakenBackFigures

LEMMA CorrectTransferChanges ==
    ASSUME Sound(db), NEW a \in DOMAIN db.journal, NEW q \in Nat \ {0}, CorrectTransfer(a, q)
    PROVE  Corrected(db, db')
  <1> DEFINE from == db.journal[a].task
             to == db.journal[a].to
             r == Reversed(db, a)
             x == Sent(r, from, to, q, TRUE)
             e == AmendedAction(x, a)
  <1>1. r # Failed /\ from # NULL /\ e # Failed /\ db' = e
    BY Committed DEF CorrectTransfer
  <1>2. x # Failed
    BY <1>1 DEF AmendedAction
  <1> HIDE DEF r, x, e
  <1>3. TakenBack(db, r, a)
    BY <1>1, ReversedTakesBack DEF r
  <1>4. /\ Sound(r) /\ Onward(db, r) /\ DOMAIN r.journal = DOMAIN db.journal
        /\ r.journal[a] = ReversedEntry(db, a)
    BY <1>3, TakenBackSound
  <1>5. from \in DOMAIN r.tasks /\ to \in Nullable(DOMAIN r.tasks)
    <2>1. from \in Nullable(DOMAIN db.tasks) /\ to \in Nullable(DOMAIN db.tasks)
      BY DEF Sound, Sane, Typed, Refer
    <2> QED
      BY <1>1, <1>4, <2>1 DEF Onward, Nullable
  <1> HIDE DEF from, to
  <1>6. SentAway(r, x, from, to, q)
    BY <1>2, <1>4, <1>5, SentChanges DEF x
  <1>7. PICK t \in DOMAIN x.tasks :
          /\ x.journal = Append(r.journal, TransferEntry(from, t, q, NULL))
          /\ Handover(r, x, from, t, q) /\ (to # NULL => t = to)
    BY <1>6 DEF SentAway
  <1> DEFINE entry == TransferEntry(from, t, q, NULL)
  <1>8. Sound(x) /\ Moves(r, x) /\ x.journal = Append(r.journal, entry)
    BY <1>6, <1>7 DEF SentAway, Change, Moves
  <1> HIDE DEF entry
  <1>9. a \in DOMAIN x.journal /\ x.journal[a] = r.journal[a]
    <2>1. r.journal \in Seq(ActionRow) /\ Len(r.journal) \in Nat /\ DOMAIN r.journal = 1..Len(r.journal)
      BY <1>4, DatabaseFields DEF Sound, Sane
    <2> QED
      BY <1>4, <1>8, <2>1
  <1>10. EntryChanged(x, e, a, [ x.journal[a] EXCEPT !.transfer = "amended" ])
    BY <1>2, <1>8, <1>9, AmendedSound DEF e
  <1>11. x.journal[a].transfer # "accepted"
    <2>1. db.journal[a] \in ActionRow
      BY DatabaseFields DEF Sound, Sane
    <2>2. ReversedEntry(db, a).transfer # "accepted"
      BY <2>1 DEF ReversedEntry, CancelledIfAccepted, ActionRow
    <2> QED
      BY <1>4, <1>9, <2>2
  <1>12. Superseded(x, e, a)
    BY <1>10, <1>11 DEF Superseded
  <1>13. Sound(e) /\ SameLines(x, e) /\ Later(x, e)
    BY <1>8, <1>10, LaterSame DEF EntryChanged, SameLines, Sound, Sane
  <1>14. Moves(x, e)
    BY <1>9, <1>12, <1>13 DEF Moves
  <1>15. Moves(db, r)
    BY <1>3, TakenBackChanges
  <1>16. ASSUME Shaped(db), KeptOutOfJournal PROVE Lives(db, e)
    <2>1. e.ledger = x.ledger
      BY <1>10 DEF EntryChanged
    <2>2. /\ db.journal[a].transfer = "accepted"
          /\ q < db.journal[a].quantity => db.journal[a].quantity - q <= InWork(db, db.journal[a].to)
      BY DEF CorrectTransfer
    <2>3. db.journal[a].to # NULL => t = db.journal[a].to
      BY <1>7 DEF to
    <2> QED
      BY <1>3, <1>7, <1>16, <2>1, <2>2, <2>3, SentAnewLives
  <1> QED
    BY <1>1, <1>8, <1>14, <1>15, <1>16 DEF Corrected
----------------------------------------------------------------------------
(* The system.                                                              *)

(* The tasks of a released position, numbered position by position. *)
LEMMA TaskNumbers ==
    ASSUME NEW n \in 1..(NumPositions * LastStage)
    PROVE  /\ 1 + ((n - 1) % LastStage) \in Stages
           /\ 1 + ((n - 1) \div LastStage) \in Positions
           /\ n = LastStage * ((n - 1) \div LastStage) + ((n - 1) % LastStage) + 1
  <1> DEFINE L == LastStage
             m == n - 1
             k == m \div L
             r == m % L
  <1>1. L \in Nat \ {0} /\ NumPositions \in Nat /\ m \in Nat /\ m < NumPositions * L
    <2>1. NumPositions * LastStage \in Nat
      BY TaskFlowConstants
    <2> QED
      BY <2>1, TaskFlowConstants
  <1> HIDE DEF m, L
  <1>2. k \in Int /\ r \in 0..(L - 1) /\ m = L * k + r
    BY <1>1
  <1> HIDE DEF k, r
  <1>3. k >= 0
    <2> SUFFICES ASSUME k <= -1 PROVE FALSE
      BY <1>2
    <2>1. PICK j \in Nat : k = -1 - j
      <3>1. -1 - k \in Nat /\ k = -1 - (-1 - k)
        BY <1>2
      <3> QED
        BY <3>1
    <2>2. L * k = -L - L * j /\ L * j >= 0 /\ L * j \in Nat
      BY <1>1, <2>1
    <2> QED
      BY <1>1, <1>2, <2>2
  <1>4. k < NumPositions
    <2> SUFFICES ASSUME k >= NumPositions PROVE FALSE
      BY <1>1, <1>2
    <2>1. PICK j \in Nat : k = NumPositions + j
      <3>1. k - NumPositions \in Nat /\ k = NumPositions + (k - NumPositions)
        BY <1>1, <1>2
      <3> QED
        BY <3>1
    <2>2. L * k = NumPositions * L + L * j /\ L * j >= 0 /\ L * j \in Nat /\ NumPositions * L \in Nat
      BY <1>1, <2>1
    <2> QED
      BY <1>1, <1>2, <2>2
  <1>5. 1 + r \in 1..L /\ 1 + k \in 1..NumPositions
    BY <1>1, <1>2, <1>3, <1>4
  <1>6. n = m + 1
    BY DEF m
  <1>7. n = L * k + r + 1
    BY <1>2, <1>6
  <1> QED
    BY <1>5, <1>7 DEF L, k, r, m, Stages, Positions

(* What the store holds at first. *)
LEMMA StockedRows ==
    /\ 1 + LastStocked - FirstStocked \in Nat
    /\ \A n \in 1..(1 + LastStocked - FirstStocked) :
         /\ FirstStocked + n - 1 \in Stages
         /\ InitialStock(FirstStocked + n - 1) \in Nat \ {0}
  BY TaskFlowConstants DEF FirstStocked, LastStocked, InitialStock, Stages

LEMMA InitSound ==
    ASSUME Init
    PROVE  Sound(db)
  <1> DEFINE N == NumPositions * LastStage
             status(s) == IF s = 1 THEN "ready" ELSE "waiting_previous"
             task(n) == LET s == 1 + ((n - 1) % LastStage) IN
                        NewTask(1 + ((n - 1) \div LastStage), s, Planned, status(s))
             tasks == [ n \in 1..N |-> task(n) ]
             M == 1 + LastStocked - FirstStocked
             row(n) == InitialReceipt(FirstStocked + n - 1)
             ledger == [ n \in 1..M |-> row(n) ]
  <1>1. db = [ tasks |-> tasks, journal |-> << >>, ledger |-> ledger, reopened |-> {} ]
    BY DEF Init
  <1>2. ASSUME NEW n \in 1..N
        PROVE  /\ task(n) \in TaskRow /\ task(n).skippedBy = NULL
               /\ task(n).position = 1 + ((n - 1) \div LastStage)
               /\ task(n).stage = 1 + ((n - 1) % LastStage)
    <2>1. /\ 1 + ((n - 1) % LastStage) \in Stages
          /\ 1 + ((n - 1) \div LastStage) \in Positions
      BY TaskNumbers
    <2> DEFINE s == 1 + ((n - 1) % LastStage)
               p == 1 + ((n - 1) \div LastStage)
    <2>2. task(n) = NewTask(p, s, Planned, status(s))
      OBVIOUS
    <2>3. s \in Stages /\ p \in Positions
      BY <2>1
    <2> HIDE DEF s, p
    <2>4. status(s) \in WorkTaskStatus /\ Planned \in Nat
      BY TaskFlowConstants DEF WorkTaskStatus
    <2> HIDE DEF status, task
    <2>5. /\ task(n) \in TaskRow /\ task(n).skippedBy = NULL
          /\ task(n).position = p /\ task(n).stage = s
      BY <2>2, <2>3, <2>4 DEF NewTask, TaskRow, Nullable
    <2> QED
      BY <2>5 DEF s, p
  <1>3. ASSUME NEW n \in 1..M
        PROVE  /\ row(n) \in LedgerRow /\ row(n).task = NULL /\ row(n).action = NULL
               /\ row(n).reverses = NULL /\ row(n).from = NULL /\ row(n).to # NULL
    <2> DEFINE s == FirstStocked + n - 1
    <2>1. s \in Stages /\ InitialStock(s) \in Nat \ {0}
      BY StockedRows
    <2>2. row(n) = InitialReceipt(s)
      OBVIOUS
    <2> HIDE DEF s
    <2>3. StoreFor(s) \in Place
      BY <2>1, TaskFlowConstants DEF StoreFor, At, Place, Stages
    <2>4. StoreFor(s) # NULL
      BY <2>3, NullIsNoValue
    <2> DEFINE place == StoreFor(s)
               q == InitialStock(s)
    <2>5. row(n) = [ task |-> NULL, reason |-> "manual_in", quantity |-> q, from |-> NULL,
                     to |-> place, action |-> NULL, reverses |-> NULL ]
      BY <2>2 DEF InitialReceipt, Row
    <2>6. place \in Place /\ place # NULL /\ q \in Nat \ {0}
      BY <2>1, <2>3, <2>4
    <2> HIDE DEF place, q, row
    <2> QED
      BY <2>5, <2>6 DEF LedgerRow, Reasons, Nullable
  <1> HIDE DEF task, row
  <1>4. /\ tasks \in [ 1..N -> TaskRow ] /\ \A n \in 1..N : tasks[n] = task(n)
        /\ ledger \in [ 1..M -> LedgerRow ] /\ \A n \in 1..M : ledger[n] = row(n)
    BY <1>2, <1>3
  <1>5. N \in Nat /\ M \in Nat
    BY StockedRows, TaskFlowConstants
  <1> HIDE DEF tasks, ledger, N, M
  <1>6. tasks \in Seq(TaskRow) /\ ledger \in Seq(LedgerRow) /\ << >> \in Seq(ActionRow) /\ {} \in SUBSET Nat
    <2>1. tasks \in Seq(TaskRow)
      BY <1>4, <1>5, IsASeq
    <2>2. ledger \in Seq(LedgerRow)
      BY <1>4, <1>5, IsASeq
    <2> QED
      BY <2>1, <2>2
  <1>7. db \in Database
    <2>1. [ tasks |-> tasks, journal |-> << >>, ledger |-> ledger, reopened |-> {} ] \in Database
      BY <1>6, DatabaseOf
    <2> QED
      BY <1>1, <2>1, Zenon
  <1>8. /\ db.tasks = tasks /\ db.ledger = ledger /\ db.reopened = {}
        /\ DOMAIN db.journal = {} /\ DOMAIN db.tasks = 1..N /\ DOMAIN db.ledger = 1..M
    BY <1>1, <1>4
  <1>9. Refer(db)
    BY <1>2, <1>3, <1>4, <1>8 DEF Refer, Nullable
  <1>10. Reversals(db) = {}
    BY <1>3, <1>4, <1>8 DEF Reversals
  <1>11. Typed(db)
    BY <1>7, <1>9, <1>10 DEF Typed, Mirrored
  <1>12. OnePerPlace(db)
    BY <1>3, <1>4, <1>8 DEF OnePerPlace
  <1>13. OneOpen(db)
    <2> SUFFICES ASSUME NEW t \in 1..N, NEW u \in 1..N,
                        tasks[t].position = tasks[u].position, tasks[t].stage = tasks[u].stage
                 PROVE  t = u
      BY <1>8 DEF OneOpen
    <2> DEFINE k(n) == (n - 1) \div LastStage
               r(n) == (n - 1) % LastStage
    <2>1. 1 + k(t) = 1 + k(u) /\ 1 + r(t) = 1 + r(u)
      BY <1>2, <1>4
    <2>2. t \in Nat /\ u \in Nat /\ LastStage \in Nat \ {0}
      BY <1>5, TaskFlowConstants
    <2>3. /\ k(t) \in Int /\ k(u) \in Int /\ r(t) \in Int /\ r(u) \in Int
      BY <2>2
    <2>4. /\ t = LastStage * k(t) + r(t) + 1
          /\ u = LastStage * k(u) + r(u) + 1
      BY TaskNumbers DEF N
    <2> HIDE DEF k, r
    <2>5. k(t) = k(u) /\ r(t) = r(u)
      BY <2>1, <2>3
    <2> QED
      BY <2>4, <2>5
  <1>14. ReceivedInWork(db)
    <2> SUFFICES ASSUME NEW t \in DOMAIN db.tasks PROVE RowsOf(db, {t}, "transfer_receive") = {}
      BY DEF ReceivedInWork
    <2>1. t # NULL
      BY <1>5, <1>8, NullIsNoValue
    <2> QED
      BY <1>3, <1>4, <1>8, <2>1 DEF RowsOf
  <1>15. NoneNegative(db)
    <2> SUFFICES ASSUME NEW place \in Place PROVE OnHand(db, place) >= 0
      BY DEF NoneNegative
    <2> DEFINE P == {place}
               I == Arrivals(db, P)
    <2>1. Departures(db, P) = {}
      <3>1. place # NULL
        BY NullIsNoValue
      <3> QED
        BY <1>3, <1>4, <1>8, <3>1 DEF Departures
    <2>2. Stock(db, P) = Amount(db.ledger, I) - Amount(db.ledger, {})
      BY <2>1 DEF Stock
    <2>3. I \in SUBSET (DOMAIN db.ledger)
      BY DEF Arrivals
    <2> HIDE DEF I, P
    <2>4. Amount(db.ledger, I) \in Nat
      BY <1>11, <2>3, RowsCounted
    <2>5. Amount(db.ledger, {}) = 0
      BY AmountOfFew
    <2>6. Stock(db, P) >= 0
      BY <2>2, <2>4, <2>5
    <2> QED
      BY <2>6 DEF OnHand, P
  <1> QED
    BY <1>11, <1>12, <1>13, <1>14, <1>15 DEF Sound, Sane

(* Every request makes such changes, and an issue or its cancellation then   *)
(* skips stages or opens them again.                                         *)
LEMMA NextChanges ==
    ASSUME NEW S, Closed(S), db \in S, Next
    PROVE  \/ db' \in S \/ Corrected(db, db')
           \/ \E c \in S : \E issue : SkippedFrom(c, db', issue)
           \/ \E c \in S : \E issue : IssueTakenBack(db, c, db', issue)
  <1>1. Required \subseteq Nat \ {0} /\ Quantities \subseteq Nat \ {0} /\ Quantities \cup {0} \subseteq Nat
    BY TaskFlowConstants
  <1>2. ASSUME NEW p \in Positions, NEW required \in Required, NEW excluded \in SUBSET Stages,
               IssueToWork(p, required, excluded)
        PROVE  \E c \in S : \E issue : SkippedFrom(c, db', issue)
    BY <1>1, <1>2, IssueToWorkChanges
  <1>3. ASSUME NEW from \in DOMAIN db.tasks, NEW to \in Nullable(DOMAIN db.tasks),
               NEW q \in Quantities, NEW overPlan \in OverPlan, TransferSend(from, to, q, overPlan)
        PROVE  db' \in S
    BY <1>1, <1>3, TransferSendChanges
  <1>4. ASSUME NEW t \in DOMAIN db.tasks, NEW good \in Quantities \cup {0},
               NEW defect \in Quantities \cup {0}, NEW auto \in AutoTransfer,
               CompleteTask(t, good, defect, auto)
        PROVE  db' \in S
    <2>1. good \in Nat /\ defect \in Nat
      BY <1>1
    <2> QED
      BY <1>4, <2>1, CompleteTaskChanges
  <1>5. ASSUME NEW t \in DOMAIN db.tasks, NEW q \in Quantities, FinalRelease(t, q)
        PROVE  db' \in S
    BY <1>1, <1>5, FinalReleaseChanges
  <1>6. ASSUME NEW t \in DOMAIN db.tasks, NEW q \in Quantities, ReturnRemainder(t, q)
        PROVE  db' \in S
    BY <1>1, <1>6, ReturnRemainderChanges
  <1>7. ASSUME NEW p \in Positions, NEW s \in Stages, NEW q \in Quantities, PrepareSectionTask(p, s, q)
        PROVE  db' \in S
    BY <1>1, <1>7, PrepareChanges
  <1>8. ASSUME NEW a \in DOMAIN db.journal, ReverseAction(a)
        PROVE  db' \in S
    BY <1>8, ReverseActionChanges
  <1>9. ASSUME NEW a \in DOMAIN db.journal, CancelTransfer(a)
        PROVE  db' \in S
    BY <1>9, CancelTransferChanges
  <1>10. ASSUME NEW a \in DOMAIN db.journal, CancelIssue(a)
         PROVE  \E c \in S : \E issue : IssueTakenBack(db, c, db', issue)
    BY <1>10, CancelIssueChanges
  <1>11. ASSUME NEW a \in DOMAIN db.journal, NEW q \in Quantities, CorrectTransfer(a, q)
         PROVE  Corrected(db, db')
    BY <1>1, <1>11, ClosedSound, CorrectTransferChanges
  <1>12. CASE Operation
    BY <1>2, <1>3, <1>4, <1>5, <1>6, <1>7, <1>12, Zenon DEF Operation
  <1>13. CASE Correction
    BY <1>8, <1>9, <1>10, <1>11, <1>13, Zenon DEF Correction
  <1> QED
    BY <1>12, <1>13 DEF Next

(* The same of databases that no such change leaves at all, a correction    *)
(* being three of them.                                                     *)
LEMMA NextMoves ==
    ASSUME NEW S, ClosedUnderMoves(S), db \in S, Next
    PROVE  \/ db' \in S
           \/ \E c \in S : \E issue : SkippedFrom(c, db', issue)
           \/ \E c \in S : \E issue : IssueTakenBack(db, c, db', issue)
  <1>1. Closed(S)
    BY DEF Closed, ClosedUnderMoves, Change
  <1>2. Corrected(db, db') => db' \in S
    BY DEF Corrected, ClosedUnderMoves
  <1> QED
    BY <1>1, <1>2, NextChanges

(* A request that goes through commits. *)
LEMMA NextCommits ==
    ASSUME Next
    PROVE  Len(db'.journal) <= MaxActions /\ Len(db'.tasks) <= MaxTasks
  <1>1. CASE Operation
    BY <1>1, Committed DEF Operation, IssueToWork, TransferSend, CompleteTask, FinalRelease,
                           ReturnRemainder, PrepareSectionTask
  <1>2. CASE Correction
    BY <1>2, Committed DEF Correction, ReverseAction, CancelTransfer, CancelIssue, CorrectTransfer
  <1> QED
    BY <1>1, <1>2 DEF Next

(* Every request leaves a sound database. *)
LEMMA NextSound ==
    ASSUME Sound(db), Next
    PROVE  Sound(db')
  <1> DEFINE S == { v \in Database : Sound(v) }
  <1>1. \A v : v \in S <=> Sound(v)
    BY DEF Sound, Sane, Typed
  <1> HIDE DEF S
  <1>2. ClosedUnderMoves(S)
    BY <1>1 DEF ClosedUnderMoves, Moves
  <1>3. \/ db' \in S
        \/ \E c \in S : \E issue : SkippedFrom(c, db', issue)
        \/ \E c \in S : \E issue : IssueTakenBack(db, c, db', issue)
    BY <1>1, <1>2, NextMoves
  <1> QED
    BY <1>1, <1>3 DEF IssueTakenBack, RestoredFrom, SkippedFrom

----------------------------------------------------------------------------
(* Rows and actions still say the same of each other after a change.        *)

(* The ledger and the journal are the same. *)
LEMMA ShapedSame ==
    ASSUME NEW d, NEW e, Shaped(d), e.ledger = d.ledger, e.journal = d.journal,
           DOMAIN d.tasks \subseteq DOMAIN e.tasks,
           \A t \in DOMAIN d.tasks : e.tasks[t].stage = d.tasks[t].stage
    PROVE  Shaped(e)
  <1>1. Outlives(d, e)
    BY DEF Outlives
  <1>2. ASSUME NEW i \in DOMAIN e.ledger, e.ledger[i].reverses = NULL
        PROVE  Proper(e, i)
    <2>1. i \in DOMAIN d.ledger /\ Proper(d, i)
      BY <1>2 DEF Shaped
    <2> QED
      BY <1>1, <2>1, ProperOutlives
  <1>3. ASSUME NEW i \in DOMAIN e.ledger, e.ledger[i].reverses = NULL, e.ledger[i].action # NULL
        PROVE  i \in InForce(e) <=> e.journal[e.ledger[i].action].active = TRUE
    <2>1. InForce(e) = InForce(d)
      BY SameLedger
    <2> QED
      BY <1>3, <2>1 DEF Shaped
  <1>4. ASSUME NEW a \in DOMAIN e.journal PROVE Entered(e, a)
    <2>1. Entered(d, a)
      BY DEF Shaped
    <2> QED
      BY <2>1 DEF Entered, Paired
  <1> QED
    BY <1>2, <1>3, <1>4 DEF Shaped

(* Entries that say the same of the same action, and stand as it does. *)
Alike(x, y) ==
    /\ y.type = x.type /\ y.quantity = x.quantity /\ y.task = x.task /\ y.to = x.to
    /\ y.dependsOn = x.dependsOn
    /\ IF x.type = "transfer_send" THEN y.transfer = "accepted" <=> y.active
       ELSE y.transfer # "accepted"

(* An entry is as good as one that says the same and stands the same. *)
LEMMA EnteredOutlives ==
    ASSUME NEW d, NEW e, Outlives(d, e), NEW a, Entered(d, a), Alike(d.journal[a], e.journal[a]),
           \A i \in DOMAIN e.ledger \ DOMAIN d.ledger : e.ledger[i].action # a
    PROVE  Entered(e, a)
  <1>1. CASE d.journal[a].type = "transfer_send"
    <2>1. PICK i \in DOMAIN d.ledger :
            /\ Paired(d, i, "transfer_send", "transfer_receive")
            /\ d.ledger[i].action = a /\ d.ledger[i].quantity = d.journal[a].quantity
            /\ d.ledger[i].task = d.journal[a].task /\ d.ledger[i + 1].task = d.journal[a].to
            /\ \A j \in DOMAIN d.ledger : d.ledger[j].action = a => j \in { i, i + 1 }
      BY <1>1 DEF Entered
    <2>2. Paired(e, i, "transfer_send", "transfer_receive")
      BY <2>1, PairedOutlives
    <2>3. /\ i \in DOMAIN e.ledger /\ e.ledger[i] = d.ledger[i] /\ e.ledger[i + 1] = d.ledger[i + 1]
      BY <2>1 DEF Outlives, Paired
    <2>4. \A j \in DOMAIN e.ledger : e.ledger[j].action = a => j \in { i, i + 1 }
      BY <2>1 DEF Outlives
    <2>5. /\ e.ledger[i].action = a /\ e.ledger[i].quantity = e.journal[a].quantity
          /\ e.ledger[i].task = e.journal[a].task /\ e.ledger[i + 1].task = e.journal[a].to
      BY <2>1, <2>3 DEF Alike
    <2>6. /\ e.journal[a].type = "transfer_send" /\ e.journal[a].dependsOn = {}
          /\ e.journal[a].transfer = "accepted" <=> e.journal[a].active
          /\ e.journal[a].to \in DOMAIN e.tasks
      BY <1>1 DEF Entered, Alike, Outlives
    <2> QED
      BY <2>2, <2>3, <2>4, <2>5, <2>6 DEF Entered
  <1>2. CASE d.journal[a].type # "transfer_send"
    <2>1. e.journal[a].type # "transfer_send" /\ e.journal[a].transfer # "accepted"
      BY <1>2 DEF Entered, Alike
    <2>2. \A j \in DOMAIN e.ledger : e.ledger[j].action = a => e.ledger[j].reason \notin Handing
      BY <1>2 DEF Entered, Outlives
    <2> QED
      BY <2>1, <2>2 DEF Entered
  <1> QED
    BY <1>1, <1>2

(* An action is logged and posts its rows. *)
LEMMA ShapedPosted ==
    ASSUME NEW d, Sound(d), Shaped(d), NEW e, Sound(e), NEW entry, Posted(d, e, entry)
    PROVE  Shaped(e)
  <1> DEFINE a == NextAction(d)
  <1>1. /\ e.journal = Append(d.journal, entry) /\ entry.active = TRUE /\ Outlives(d, e) /\ Entered(e, a)
        /\ \A i \in DOMAIN e.ledger \ DOMAIN d.ledger :
             e.ledger[i].action = a /\ e.ledger[i].reverses = NULL /\ Proper(e, i)
    BY DEF Posted, Grows
  <1>2. /\ d.journal \in Seq(ActionRow) /\ Len(d.journal) \in Nat /\ DOMAIN d.journal = 1..Len(d.journal)
        /\ a = Len(d.journal) + 1
    BY DatabaseFields DEF Sound, Sane, NextAction
  <1>3. Refer(d) /\ Refer(e)
    BY DEF Sound, Sane, Typed
  <1>4. DOMAIN d.ledger = 1..Len(d.ledger) /\ Len(d.ledger) \in Nat
    BY DatabaseFields DEF Sound, Sane
  <1> HIDE DEF a
  <1>5. /\ DOMAIN e.journal = DOMAIN d.journal \cup {a} /\ e.journal[a] = entry
        /\ a \notin DOMAIN d.journal
        /\ \A b \in DOMAIN d.journal : e.journal[b] = d.journal[b]
    BY <1>1, <1>2
  <1>6. DOMAIN d.ledger \subseteq DOMAIN e.ledger /\ \A i \in DOMAIN d.ledger : e.ledger[i] = d.ledger[i]
    BY <1>1 DEF Outlives
  <1>7. \A i \in DOMAIN d.ledger : /\ d.ledger[i].action \in Nullable(DOMAIN d.journal)
                                   /\ d.ledger[i].reverses \in Nullable(1..(i - 1))
    BY <1>3 DEF Refer
  <1>8. ASSUME NEW i \in DOMAIN e.ledger, e.ledger[i].reverses = NULL PROVE Proper(e, i)
    <2>1. CASE i \in DOMAIN d.ledger
      <3>1. Proper(d, i)
        BY <1>6, <1>8, <2>1 DEF Shaped
      <3> QED
        BY <1>1, <2>1, <3>1, ProperOutlives
    <2>2. CASE i \notin DOMAIN d.ledger
      BY <1>1, <2>2
    <2> QED
      BY <2>1, <2>2
  <1>9. ASSUME NEW i \in DOMAIN e.ledger, e.ledger[i].reverses = NULL, e.ledger[i].action # NULL
        PROVE  i \in InForce(e) <=> e.journal[e.ledger[i].action].active = TRUE
    <2>1. CASE i \in DOMAIN d.ledger
      <3>1. e.ledger[i] = d.ledger[i] /\ d.ledger[i].action \in DOMAIN d.journal
        BY <1>6, <1>7, <1>9, <2>1 DEF Nullable
      <3>2. i \in InForce(d) <=> d.journal[d.ledger[i].action].active = TRUE
        BY <1>9, <2>1, <3>1 DEF Shaped
      <3>3. i \in InForce(e) <=> i \in InForce(d)
        <4>1. \A j \in DOMAIN e.ledger \ DOMAIN d.ledger : e.ledger[j].reverses # i
          <5>1. i # NULL
            BY <1>4, <2>1, NullIsNoValue
          <5> QED
            BY <1>1, <5>1
        <4> QED
          BY <1>6, <2>1, <4>1 DEF InForce
      <3> QED
        BY <1>5, <3>1, <3>2, <3>3
    <2>2. CASE i \notin DOMAIN d.ledger
      <3>1. \A j \in DOMAIN e.ledger : e.ledger[j].reverses # i
        <4> SUFFICES ASSUME NEW j \in DOMAIN e.ledger, e.ledger[j].reverses = i PROVE FALSE
          OBVIOUS
        <4>1. i \in Nat /\ i # NULL
          <5>1. i \in DOMAIN e.ledger /\ DOMAIN e.ledger = 1..Len(e.ledger) /\ Len(e.ledger) \in Nat
            BY DatabaseFields DEF Sound, Sane
          <5> QED
            BY <5>1, NullIsNoValue
        <4>2. j \in DOMAIN d.ledger
          BY <1>1, <4>1
        <4>3. i \in 1..(j - 1) /\ j \in 1..Len(d.ledger)
          BY <1>4, <1>6, <1>7, <4>1, <4>2 DEF Nullable
        <4> QED
          BY <1>4, <2>2, <4>3
      <3>2. i \in InForce(e)
        BY <1>9, <3>1 DEF InForce
      <3>3. e.ledger[i].action = a
        BY <1>1, <2>2
      <3> QED
        BY <1>1, <1>5, <3>2, <3>3
    <2> QED
      BY <2>1, <2>2
  <1>10. ASSUME NEW b \in DOMAIN e.journal PROVE Entered(e, b)
    <2>1. CASE b = a
      BY <1>1, <2>1
    <2>2. CASE b # a
      <3>1. b \in DOMAIN d.journal /\ e.journal[b] = d.journal[b]
        BY <1>5, <2>2
      <3>2. Entered(d, b)
        BY <3>1 DEF Shaped
      <3>3. Alike(d.journal[b], e.journal[b])
        BY <3>1, <3>2 DEF Entered, Alike
      <3>4. \A i \in DOMAIN e.ledger \ DOMAIN d.ledger : e.ledger[i].action # b
        BY <1>1, <2>2
      <3> QED
        BY <1>1, <3>1, <3>2, <3>3, <3>4, EnteredOutlives
    <2> QED
      BY <2>1, <2>2
  <1> QED
    BY <1>8, <1>9, <1>10 DEF Shaped

(* An action is reversed. *)
LEMMA ShapedTakenBack ==
    ASSUME NEW d, Sound(d), Shaped(d), NEW a \in DOMAIN d.journal, NEW e, TakenBack(d, e, a)
    PROVE  Shaped(e)
  <1> DEFINE G == Uncompensated(d, a)
  <1>1. PICK x : /\ Sound(x) /\ TookBack(d, x, Uncompensated(d, a))
                 /\ EntryChanged(x, e, a, ReversedEntry(d, a))
    BY DEF TakenBack
  <1>2. /\ Onward(d, x) /\ x.journal = d.journal
        /\ DOMAIN d.ledger \subseteq DOMAIN x.ledger
        /\ \A i \in DOMAIN d.ledger : x.ledger[i] = d.ledger[i]
        /\ \A i \in DOMAIN x.ledger \ DOMAIN d.ledger : x.ledger[i].reverses \in G
        /\ InForce(x) = InForce(d) \ G
    BY <1>1 DEF TookBack
  <1>3. /\ Sound(e) /\ e.tasks = x.tasks /\ e.ledger = x.ledger
        /\ DOMAIN e.journal = DOMAIN d.journal /\ e.journal[a] = ReversedEntry(d, a)
        /\ \A b \in DOMAIN d.journal : b # a => e.journal[b] = d.journal[b]
    BY <1>1, <1>2 DEF EntryChanged
  <1>4. InForce(e) = InForce(d) \ G
    BY <1>2, <1>3, SameLedger
  <1>5. Outlives(d, e)
    BY <1>2, <1>3 DEF Outlives, Onward
  <1>6. \A i \in G : i \in DOMAIN d.ledger /\ d.ledger[i].action = a /\ i # NULL
    <2>1. DOMAIN d.ledger = 1..Len(d.ledger)
      BY DatabaseFields DEF Sound, Sane
    <2> QED
      BY <2>1, NullIsNoValue DEF Uncompensated
  <1>7. \A i \in DOMAIN d.ledger :
          d.ledger[i].action = a /\ i \in InForce(d) => i \in G
    BY DEF Uncompensated, InForce
  <1> HIDE DEF G
  <1>8. \A i \in DOMAIN e.ledger \ DOMAIN d.ledger : e.ledger[i].reverses # NULL /\ e.ledger[i].action = NULL
    <2> SUFFICES ASSUME NEW i \in DOMAIN e.ledger \ DOMAIN d.ledger
                 PROVE  e.ledger[i].reverses # NULL /\ e.ledger[i].action = NULL
      OBVIOUS
    <2>1. e.ledger[i].reverses # NULL
      BY <1>2, <1>3, <1>6
    <2> DEFINE k == e.ledger[i].reverses
    <2>2. i \in Reversals(e)
      BY <2>1 DEF Reversals
    <2>3. e.ledger[i] = Mirror(e, k) /\ k \in DOMAIN e.ledger
      <3>1. e.ledger[i] = Mirror(e, k)
        BY <1>3, <2>2 DEF Sound, Sane, Typed, Mirrored
      <3>2. k \in DOMAIN d.ledger
        BY <1>2, <1>3, <1>6
      <3> QED
        BY <1>2, <1>3, <3>1, <3>2
    <2>4. Mirror(e, k).action = NULL
      <3>1. Typed(e)
        BY <1>3 DEF Sound, Sane
      <3> HIDE DEF k
      <3> QED
        BY <2>3, <3>1, MirrorIsRow
    <2> QED
      BY <2>1, <2>3, <2>4
  <1>9. \A i \in DOMAIN e.ledger : e.ledger[i].reverses = NULL => i \in DOMAIN d.ledger /\ e.ledger[i] = d.ledger[i]
    BY <1>2, <1>3, <1>8
  <1>10. ASSUME NEW i \in DOMAIN e.ledger, e.ledger[i].reverses = NULL PROVE Proper(e, i)
    <2>1. i \in DOMAIN d.ledger /\ Proper(d, i)
      BY <1>9, <1>10 DEF Shaped
    <2> QED
      BY <1>5, <2>1, ProperOutlives
  <1>11. ASSUME NEW i \in DOMAIN e.ledger, e.ledger[i].reverses = NULL, e.ledger[i].action # NULL
         PROVE  i \in InForce(e) <=> e.journal[e.ledger[i].action].active = TRUE
    <2> DEFINE b == e.ledger[i].action
    <2>1. i \in DOMAIN d.ledger /\ e.ledger[i] = d.ledger[i]
      BY <1>9, <1>11
    <2>2. i \in InForce(d) <=> d.journal[b].active = TRUE
      BY <1>11, <2>1 DEF Shaped
    <2>3. b \in DOMAIN d.journal
      BY <1>11, <2>1 DEF Sound, Sane, Typed, Refer, Nullable
    <2>4. CASE b = a
      <3>1. e.journal[b].active = FALSE
        <4>1. d.journal[a] \in ActionRow
          BY DatabaseFields DEF Sound, Sane
        <4> QED
          BY <1>3, <2>4, <4>1 DEF ReversedEntry, ActionRow
      <3>2. i \notin InForce(e)
        BY <1>4, <1>7, <2>1, <2>4
      <3> QED
        BY <3>1, <3>2
    <2>5. CASE b # a
      <3>1. i \notin G
        BY <1>6, <2>1, <2>5
      <3>2. e.journal[b] = d.journal[b]
        BY <1>3, <2>3, <2>5
      <3> QED
        BY <1>4, <2>2, <3>1, <3>2
    <2> QED
      BY <2>4, <2>5
  <1>12. ASSUME NEW b \in DOMAIN e.journal PROVE Entered(e, b)
    <2>1. b \in DOMAIN d.journal
      BY <1>3
    <2>2. Entered(d, b)
      BY <2>1 DEF Shaped
    <2>3. d.journal[b] \in ActionRow
      BY <2>1, DatabaseFields DEF Sound, Sane
    <2>4. Alike(d.journal[b], e.journal[b])
      <3>1. CASE b = a
        <4> DEFINE old == d.journal[a]
                   new == ReversedEntry(d, a)
        <4>1. /\ new.type = old.type /\ new.quantity = old.quantity /\ new.task = old.task /\ new.to = old.to
              /\ new.dependsOn = old.dependsOn /\ new.transfer = CancelledIfAccepted(old.transfer)
              /\ new.active = FALSE
          BY <2>3, <3>1 DEF ReversedEntry, ActionRow
        <4>2. new.transfer # "accepted"
          BY <4>1 DEF CancelledIfAccepted
        <4> HIDE DEF old, new
        <4>3. Alike(old, new)
          BY <4>1, <4>2 DEF Alike
        <4> QED
          BY <1>3, <3>1, <4>3 DEF old, new
      <3>2. CASE b # a
        BY <1>3, <2>1, <2>2, <3>2 DEF Entered, Alike
      <3> QED
        BY <3>1, <3>2
    <2>5. \A i \in DOMAIN e.ledger \ DOMAIN d.ledger : e.ledger[i].action # b
      <3>1. b # NULL
        <4>1. DOMAIN d.journal = 1..Len(d.journal)
          BY DatabaseFields DEF Sound, Sane
        <4> QED
          BY <2>1, <4>1, NullIsNoValue
      <3> QED
        BY <1>8, <3>1
    <2> QED
      BY <1>5, <2>2, <2>4, <2>5, EnteredOutlives
  <1> QED
    BY <1>10, <1>11, <1>12 DEF Shaped

(* A transfer is superseded. *)
LEMMA ShapedSuperseded ==
    ASSUME NEW d, Sound(d), Shaped(d), NEW a \in DOMAIN d.journal, NEW e, Superseded(d, e, a)
    PROVE  Shaped(e)
  <1> DEFINE entry == [ d.journal[a] EXCEPT !.transfer = "amended" ]
  <1>1. /\ d.journal[a].transfer # "accepted" /\ e.tasks = d.tasks /\ e.ledger = d.ledger
        /\ DOMAIN e.journal = DOMAIN d.journal /\ e.journal[a] = entry
        /\ \A b \in DOMAIN d.journal : b # a => e.journal[b] = d.journal[b]
    BY DEF Superseded, EntryChanged
  <1>2. d.journal[a] \in ActionRow
    BY DatabaseFields DEF Sound, Sane
  <1>3. /\ entry.type = d.journal[a].type /\ entry.quantity = d.journal[a].quantity
        /\ entry.task = d.journal[a].task /\ entry.to = d.journal[a].to
        /\ entry.dependsOn = d.journal[a].dependsOn
        /\ entry.active = d.journal[a].active /\ entry.transfer = "amended"
    BY <1>2 DEF ActionRow
  <1> HIDE DEF entry
  <1>4. \A b \in DOMAIN d.journal : e.journal[b].active = d.journal[b].active
    BY <1>1, <1>3
  <1>5. Outlives(d, e)
    BY <1>1 DEF Outlives
  <1>6. ASSUME NEW i \in DOMAIN e.ledger, e.ledger[i].reverses = NULL PROVE Proper(e, i)
    <2>1. i \in DOMAIN d.ledger /\ Proper(d, i)
      BY <1>1, <1>6 DEF Shaped
    <2> QED
      BY <1>5, <2>1, ProperOutlives
  <1>7. ASSUME NEW i \in DOMAIN e.ledger, e.ledger[i].reverses = NULL, e.ledger[i].action # NULL
        PROVE  i \in InForce(e) <=> e.journal[e.ledger[i].action].active = TRUE
    <2>1. InForce(e) = InForce(d) /\ e.ledger[i] = d.ledger[i] /\ i \in DOMAIN d.ledger
      BY <1>1, SameLedger
    <2>2. d.ledger[i].action \in DOMAIN d.journal
      BY <1>7, <2>1 DEF Sound, Sane, Typed, Refer, Nullable
    <2> QED
      BY <1>4, <1>7, <2>1, <2>2 DEF Shaped
  <1>8. ASSUME NEW b \in DOMAIN e.journal PROVE Entered(e, b)
    <2>1. Entered(d, b)
      BY <1>1 DEF Shaped
    <2>2. Alike(d.journal[b], e.journal[b])
      <3>1. CASE b = a
        BY <1>1, <1>3, <2>1, <3>1 DEF Entered, Alike
      <3>2. CASE b # a
        BY <1>1, <2>1, <3>2 DEF Entered, Alike
      <3> QED
        BY <3>1, <3>2
    <2>3. \A i \in DOMAIN e.ledger \ DOMAIN d.ledger : e.ledger[i].action # b
      BY <1>1
    <2> QED
      BY <1>5, <2>1, <2>2, <2>3, EnteredOutlives
  <1> QED
    BY <1>6, <1>7, <1>8 DEF Shaped

LEMMA ShapedChanged ==
    ASSUME NEW d, Sound(d), Shaped(d), NEW e, Moves(d, e)
    PROVE  Shaped(e)
  <1>1. Sound(e) /\ SameLines(d, e)
    BY DEF Moves
  <1>2. CASE e.journal = d.journal /\ e.ledger = d.ledger
    BY <1>1, <1>2, ShapedSame DEF SameLines
  <1>3. ASSUME NEW entry, Posted(d, e, entry) PROVE Shaped(e)
    BY <1>1, <1>3, ShapedPosted
  <1>4. ASSUME NEW a \in DOMAIN d.journal, TakenBack(d, e, a) PROVE Shaped(e)
    BY <1>4, ShapedTakenBack
  <1>5. ASSUME NEW a \in DOMAIN d.journal, Superseded(d, e, a) PROVE Shaped(e)
    BY <1>5, ShapedSuperseded
  <1> QED
    BY <1>2, <1>3, <1>4, <1>5, Zenon DEF Moves

LEMMA ShapedNext ==
    ASSUME Sound(db), Shaped(db), Next
    PROVE  Shaped(db')
  <1> DEFINE S == { v \in Database : Sound(v) /\ Shaped(v) }
  <1>1. \A v : v \in S <=> Sound(v) /\ Shaped(v)
    BY DEF Sound, Sane, Typed
  <1> HIDE DEF S
  <1>2. ClosedUnderMoves(S)
    <2>1. ASSUME NEW d \in S, NEW e, Moves(d, e) PROVE Sound(e) /\ Shaped(e)
      BY <1>1, <2>1, ShapedChanged DEF Moves
    <2> QED
      BY <1>1, <2>1 DEF ClosedUnderMoves
  <1>3. \/ db' \in S
        \/ \E c \in S : \E issue : SkippedFrom(c, db', issue)
        \/ \E c \in S : \E issue : IssueTakenBack(db, c, db', issue)
    BY <1>1, <1>2, NextMoves
  <1>4. ASSUME NEW c \in S, NEW issue, IssueTakenBack(db, c, db', issue) PROVE Shaped(db')
    <2>1. Shaped(c) /\ RestoredFrom(c, db', SkippedTasks(c, issue))
      BY <1>1, <1>4 DEF IssueTakenBack
    <2> DEFINE e == db'
    <2>2. RestoredFrom(c, e, SkippedTasks(c, issue))
      BY <2>1
    <2> HIDE DEF e
    <2>3. /\ e.journal = c.journal /\ e.ledger = c.ledger /\ DOMAIN e.tasks = DOMAIN c.tasks
          /\ \A t \in DOMAIN c.tasks : e.tasks[t].stage = c.tasks[t].stage
      BY <2>2 DEF RestoredFrom
    <2>4. Shaped(e)
      BY <2>1, <2>3, ShapedSame
    <2> QED
      BY <2>4 DEF e
  <1>5. ASSUME NEW c \in S, NEW issue, SkippedFrom(c, db', issue) PROVE Shaped(db')
    <2> DEFINE e == db'
    <2>1. Shaped(c) /\ SkippedFrom(c, e, issue)
      BY <1>1, <1>5
    <2> HIDE DEF e
    <2>2. /\ e.journal = c.journal /\ e.ledger = c.ledger /\ DOMAIN e.tasks = DOMAIN c.tasks
          /\ \A t \in DOMAIN c.tasks : e.tasks[t].stage = c.tasks[t].stage
      BY <2>1 DEF SkippedFrom
    <2>3. Shaped(e)
      BY <2>1, <2>2, ShapedSame
    <2> QED
      BY <2>3 DEF e
  <1> QED
    BY <1>1, <1>3, <1>4, <1>5

LEMMA ShapedInit ==
    ASSUME Init
    PROVE  Shaped(db)
  <1> DEFINE M == 1 + LastStocked - FirstStocked
  <1>1. DOMAIN db.journal = {} /\ DOMAIN db.ledger = 1..M
    BY DEF Init
  <1>2. ASSUME NEW n \in DOMAIN db.ledger
        PROVE  Stocked(db, n) /\ db.ledger[n].action = NULL
    <2> DEFINE s == FirstStocked + n - 1
    <2>1. s \in Stages
      BY <1>1, StockedRows
    <2>2. db.ledger[n] = InitialReceipt(s)
      BY <1>1, <1>2 DEF Init
    <2> HIDE DEF s
    <2>3. /\ db.ledger[n].reason = "manual_in" /\ db.ledger[n].task = NULL
          /\ db.ledger[n].from = NULL /\ db.ledger[n].to = StoreFor(s)
          /\ db.ledger[n].action = NULL
      BY <2>2 DEF InitialReceipt, Row
    <2> QED
      BY <2>1, <2>3 DEF Stocked
  <1> QED
    BY <1>1, <1>2 DEF Shaped, Proper

(* Between two requests. *)
FlowInv == Sound(db) /\ Len(db.journal) <= MaxActions /\ Len(db.tasks) <= MaxTasks

LEMMA FlowInit ==
    ASSUME Init
    PROVE  FlowInv
  <1>1. Sound(db)
    BY InitSound
  <1>2. NumPositions * LastStage \in Nat /\ NumPositions * LastStage <= MaxTasks /\ MaxActions \in Nat
    BY TaskFlowConstants
  <1>3. Len(db.journal) = 0 /\ DOMAIN db.tasks = 1..(NumPositions * LastStage)
    BY DEF Init
  <1>4. Len(db.tasks) \in Nat /\ DOMAIN db.tasks = 1..Len(db.tasks)
    BY <1>1, DatabaseFields DEF Sound, Sane
  <1>5. Len(db.tasks) = NumPositions * LastStage
    BY <1>2, <1>3, <1>4
  <1> QED
    BY <1>1, <1>2, <1>3, <1>5 DEF FlowInv

LEMMA FlowStep ==
    ASSUME FlowInv, [Next]_db
    PROVE  FlowInv'
  <1>1. CASE Next
    <2>1. Sound(db') /\ Len(db'.journal) <= MaxActions /\ Len(db'.tasks) <= MaxTasks
      BY <1>1, NextSound, NextCommits DEF FlowInv
    <2> QED
      BY <2>1 DEF FlowInv
  <1>2. CASE UNCHANGED db
    BY <1>2 DEF FlowInv
  <1> QED
    BY <1>1, <1>2

THEOREM FlowSound == Spec => []FlowInv
  <1>1. Init => FlowInv
    BY FlowInit
  <1>2. FlowInv /\ [Next]_db => FlowInv'
    BY FlowStep
  <1> QED
    BY <1>1, <1>2, PTL DEF Spec
(* The record of the journal and the ledger. *)
THEOREM FlowShaped == Spec => []Shaped(db)
  <1>1. Init => Shaped(db)
    BY ShapedInit
  <1>2. FlowInv /\ Shaped(db) /\ [Next]_db => Shaped(db)'
    <2> SUFFICES ASSUME FlowInv, Shaped(db), [Next]_db PROVE Shaped(db')
      OBVIOUS
    <2>1. CASE Next
      BY <2>1, ShapedNext DEF FlowInv
    <2>2. CASE UNCHANGED db
      BY <2>2
    <2> QED
      BY <2>1, <2>2
  <1> QED
    BY <1>1, <1>2, FlowSound, PTL DEF Spec
----------------------------------------------------------------------------
(* What the runs check.                                                     *)

LEMMA FlowTyped ==
    ASSUME FlowInv
    PROVE  TypeOK
  <1>1. Typed(db) /\ Refer(db) /\ Len(db.journal) <= MaxActions /\ Len(db.tasks) <= MaxTasks
    BY DEF FlowInv, Sound, Sane, Typed
  <1>2. /\ db.tasks \in Seq(TaskRow) /\ db.journal \in Seq(ActionRow) /\ db.ledger \in Seq(LedgerRow)
        /\ Len(db.tasks) \in Nat /\ DOMAIN db.tasks = 1..Len(db.tasks)
        /\ Len(db.journal) \in Nat /\ DOMAIN db.journal = 1..Len(db.journal)
        /\ Len(db.ledger) \in Nat /\ DOMAIN db.ledger = 1..Len(db.ledger)
        /\ \A t \in DOMAIN db.tasks : db.tasks[t] \in TaskRow
        /\ \A a \in DOMAIN db.journal : db.journal[a] \in ActionRow
        /\ \A i \in DOMAIN db.ledger : db.ledger[i] \in LedgerRow
    BY <1>1, DatabaseFields
  <1>3. MaxTasks \in Nat /\ MaxActions \in Nat
    BY TaskFlowConstants
  <1>4. DOMAIN db.tasks \subseteq TaskId /\ DOMAIN db.journal \subseteq ActionId
    BY <1>1, <1>2, <1>3 DEF TaskId, ActionId
  <1>5. \A t \in DOMAIN db.tasks : db.tasks[t] \in WorkTask
    <2> SUFFICES ASSUME NEW t \in DOMAIN db.tasks PROVE db.tasks[t] \in WorkTask
      OBVIOUS
    <2>1. db.tasks[t] \in TaskRow /\ db.tasks[t].skippedBy \in Nullable(ActionId)
      BY <1>1, <1>2, <1>4 DEF Refer, Nullable
    <2> QED
      BY <2>1 DEF TaskRow, WorkTask
  <1>6. \A a \in DOMAIN db.journal : db.journal[a] \in Action
    <2> SUFFICES ASSUME NEW a \in DOMAIN db.journal PROVE db.journal[a] \in Action
      OBVIOUS
    <2>1. /\ db.journal[a].task \in Nullable(TaskId) /\ db.journal[a].to \in Nullable(TaskId)
          /\ db.journal[a].issue \in Nullable(ActionId)
      BY <1>1, <1>4 DEF Refer, Nullable
    <2>2. db.journal[a].dependsOn \subseteq ActionId
      <3>1. db.journal[a].dependsOn \subseteq 1..(a - 1) /\ a \in 1..Len(db.journal)
        BY <1>1, <1>2 DEF Refer
      <3> QED
        BY <1>1, <1>2, <1>3, <3>1 DEF ActionId
    <2>3. db.journal[a] \in ActionRow
      BY <1>2
    <2> QED
      BY <2>1, <2>2, <2>3 DEF ActionRow, Action
  <1>7. \A i \in DOMAIN db.ledger : db.ledger[i] \in Transaction
    <2> SUFFICES ASSUME NEW i \in DOMAIN db.ledger PROVE db.ledger[i] \in Transaction
      OBVIOUS
    <2>1. /\ db.ledger[i].task \in Nullable(TaskId) /\ db.ledger[i].action \in Nullable(ActionId)
      BY <1>1, <1>4 DEF Refer, Nullable
    <2>2. db.ledger[i] \in LedgerRow
      BY <1>2
    <2> QED
      BY <2>1, <2>2 DEF LedgerRow, Transaction, Reasons
  <1>8. ASSUME NEW S, NEW R, NEW s \in Seq(R), \A i \in DOMAIN s : s[i] \in S PROVE s \in Seq(S)
    <2>1. s \in [ 1..Len(s) -> R ] /\ Len(s) \in Nat /\ DOMAIN s = 1..Len(s)
      BY <1>8, LenProperties
    <2>2. s \in [ 1..Len(s) -> S ]
      BY <1>8, <2>1
    <2> QED
      BY <2>1, <2>2
  <1>9. db.tasks \in Seq(WorkTask) /\ db.journal \in Seq(Action) /\ db.ledger \in Seq(Transaction)
    BY <1>2, <1>5, <1>6, <1>7, <1>8, Zenon
  <1>10. \A a \in DOMAIN db.journal : \A b \in db.journal[a].dependsOn : b < a
    <2> SUFFICES ASSUME NEW a \in DOMAIN db.journal, NEW b \in db.journal[a].dependsOn PROVE b < a
      OBVIOUS
    <2>1. b \in 1..(a - 1) /\ a \in Nat
      BY <1>1, <1>2 DEF Refer
    <2> QED
      BY <2>1
  <1>11. db.reopened \subseteq DOMAIN db.tasks
    BY <1>1 DEF Refer
  <1> QED
    BY <1>1, <1>9, <1>10, <1>11 DEF TypeOK

(* The tables keep their types, and every row names a task, an action or a  *)
(* transaction that exists: actions and compensations only earlier ones,    *)
(* which the order of a cascade rests on.                                   *)
THEOREM FlowTypes == Spec => []TypeOK
  <1>1. FlowInv => TypeOK
    BY FlowTyped
  <1> QED
    BY <1>1, FlowSound, PTL

(* No group of material is ever taken below zero, whatever is completed,    *)
(* transferred, cancelled, corrected or reversed, in whatever order.        *)
THEOREM FlowNeverNegative == Spec => []NothingNegative
  <1>1. FlowInv => NothingNegative
    BY DEF FlowInv, Sound, NoneNegative, NothingNegative
  <1> QED
    BY <1>1, FlowSound, PTL

LEMMA FlowOneOpen ==
    ASSUME FlowInv
    PROVE  OneOpenTaskPerLine
  <1>1. OneOpen(db)
    BY DEF FlowInv, Sound, Sane
  <1> SUFFICES ASSUME NEW p \in Positions, NEW s \in Stages,
                      NEW t \in OpenTasks(db, p, s) \ db.reopened,
                      NEW u \in OpenTasks(db, p, s) \ db.reopened
               PROVE  t = u
    BY DEF OneOpenTaskPerLine
  <1>2. /\ t \in DOMAIN db.tasks /\ db.tasks[t].position = p /\ db.tasks[t].stage = s /\ IsOpen(db, t)
        /\ u \in DOMAIN db.tasks /\ db.tasks[u].position = p /\ db.tasks[u].stage = s /\ IsOpen(db, u)
    BY DEF OpenTasks, TasksOnLine
  <1> QED
    BY <1>1, <1>2 DEF OneOpen

(* Whichever of plan generation, transfer_send, the issue and               *)
(* prepare_section_task creates a task, no line gets a second open one,     *)
(* except by the cancellation of an issue that skipped its stage.           *)
THEOREM LineHasOneOpenTask == Spec => []OneOpenTaskPerLine
  <1>1. FlowInv => OneOpenTaskPerLine
    BY FlowOneOpen
  <1> QED
    BY <1>1, FlowSound, PTL

LEMMA FlowReceivedInWork ==
    ASSUME FlowInv
    PROVE  ReceivedIsInWork
  <1>1. Typed(db) /\ ReceivedInWork(db)
    BY DEF FlowInv, Sound, Sane
  <1> SUFFICES ASSUME NEW t \in DOMAIN db.tasks \ db.reopened, Gross(db, {t}, "transfer_receive") > 0
               PROVE  db.tasks[t].status \notin { "waiting_previous", "ready" }
    BY DEF ReceivedIsInWork
  <1>2. RowsOf(db, {t}, "transfer_receive") # {}
    <2> SUFFICES ASSUME RowsOf(db, {t}, "transfer_receive") = {} PROVE FALSE
      OBVIOUS
    <2>1. Amount(db.ledger, {}) = 0
      BY AmountOfFew
    <2>2. Gross(db, {t}, "transfer_receive") = 0
      BY <2>1 DEF Gross
    <2> QED
      BY <2>2
  <1> QED
    BY <1>1, <1>2 DEF ReceivedInWork, Early

(* A task that material has come to is in work or further, and stays so     *)
(* when the material is taken back: a transfer never leaves its receiver    *)
(* waiting.                                                                 *)
THEOREM ReceiverIsInWork == Spec => []ReceivedIsInWork
  <1>1. FlowInv => ReceivedIsInWork
    BY FlowReceivedInWork
  <1> QED
    BY <1>1, FlowSound, PTL
----------------------------------------------------------------------------
(* Skipped stages.                                                          *)

LEMMA FlowReopens ==
    ASSUME FlowInv, Next
    PROVE  \A t \in DOMAIN db.tasks : Reopens(t) =>
             \A a \in DOMAIN db.journal :
                db.journal[a].issue = db.tasks[t].skippedBy => db'.journal[a].transfer = "cancelled"
  <1> SUFFICES ASSUME NEW t \in DOMAIN db.tasks, Reopens(t), NEW a \in DOMAIN db.journal,
                      db.journal[a].issue = db.tasks[t].skippedBy
               PROVE  db'.journal[a].transfer = "cancelled"
    OBVIOUS
  <1> DEFINE Kept(v) == Sound(v) /\ SameLines(db, v)
             S == { v \in Database : Kept(v) }
  <1>1. \A v : v \in S <=> Sound(v) /\ SameLines(db, v)
    BY DEF Sound, Sane, Typed
  <1>2. Sound(db) /\ SameLines(db, db)
    BY DEF FlowInv, SameLines
  <1> HIDE DEF S
  <1>3. ClosedUnderMoves(S)
    <2>1. ASSUME NEW d \in S, NEW e, Moves(d, e) PROVE Sound(e) /\ SameLines(db, e)
      <3>1. SameLines(db, d) /\ SameLines(d, e) /\ Sound(e)
        BY <1>1, <2>1 DEF Moves
      <3> QED
        BY <3>1 DEF SameLines
    <2> QED
      BY <1>1, <2>1 DEF ClosedUnderMoves
  <1>4. \/ db' \in S
        \/ \E c \in S : \E issue : SkippedFrom(c, db', issue)
        \/ \E c \in S : \E issue : IssueTakenBack(db, c, db', issue)
    BY <1>1, <1>2, <1>3, NextMoves
  <1>5. CASE db' \in S
    <2>1. SameLines(db, db')
      BY <1>1, <1>5
    <2> QED
      BY <2>1 DEF SameLines, Reopens
  <1>6. ASSUME NEW c \in S, NEW issue, IssueTakenBack(db, c, db', issue)
        PROVE  db'.journal[a].transfer = "cancelled"
    <2> DEFINE T == SkippedTasks(c, issue)
    <2>1. /\ Onward(db, c) /\ RestoredFrom(c, db', T)
          /\ \A b \in DOMAIN db.journal : db.journal[b].issue = issue => c.journal[b].transfer = "cancelled"
      BY <1>6 DEF IssueTakenBack
    <2>2. /\ t \in DOMAIN c.tasks /\ c.tasks[t].status = "skipped"
          /\ c.tasks[t].skippedBy = db.tasks[t].skippedBy
      BY <2>1 DEF Onward, Reopens
    <2>3. t \in T
      BY <2>1, <2>2 DEF RestoredFrom, Reopens
    <2>4. db.tasks[t].skippedBy = issue
      BY <2>2, <2>3 DEF SkippedTasks
    <2> QED
      BY <2>1, <2>4 DEF RestoredFrom
  <1>7. ASSUME NEW c \in S, NEW issue, SkippedFrom(c, db', issue)
        PROVE  db'.journal[a].transfer = "cancelled"
    <2>1. t \in DOMAIN c.tasks /\ c.tasks[t].status = "skipped"
      BY <1>1, <1>7 DEF SameLines, Reopens
    <2>2. db'.tasks[t].status = "skipped"
      BY <1>7, <2>1 DEF SkippedFrom
    <2> QED
      BY <2>2 DEF Reopens
  <1> QED
    BY <1>4, <1>5, <1>6, <1>7

(* A skipped stage is opened again only by the cancellation of the issue    *)
(* that skipped it, and only when nothing of that issue is left: no task    *)
(* action, transfer, correction or reversal opens it, nor does another issue*)
(* that jumped the same stage.                                              *)
THEOREM SkippedUntilItsIssueGoes == Spec => ReopensWithItsIssue
  <1>1. FlowInv /\ [Next]_db =>
          [ \A t \in DOMAIN db.tasks : Reopens(t) =>
              \A a \in DOMAIN db.journal :
                 db.journal[a].issue = db.tasks[t].skippedBy => db'.journal[a].transfer = "cancelled" ]_db
    BY FlowReopens
  <1> QED
    BY <1>1, FlowSound, PTL DEF Spec, ReopensWithItsIssue
----------------------------------------------------------------------------
(* Plans and portions.                                                      *)

(* A task that is partly worked had something made or scrapped, and as long *)
(* as no portion is sent on, plans cover what is received.                  *)
Budgeted(d) ==
    \A t \in DOMAIN d.tasks :
        /\ d.tasks[t].status = "partially_completed" => Completed(d, t) + Rejected(d, t) > 0
        /\ Unsent => Received(d, t) <= d.tasks[t].planned


(* A task that no row says receives has received nothing. *)
LEMMA NothingReceived ==
    ASSUME NEW d, Sound(d), NEW t, RowsOf(d, {t}, "transfer_receive") = {}
    PROVE  Received(d, t) = 0
  <1>1. Gross(d, {t}, "transfer_receive") = 0
    BY AmountOfFew DEF Gross
  <1>2. /\ Net(d, {t}, "transfer_receive") \in Nat
        /\ Net(d, {t}, "transfer_receive") <= Gross(d, {t}, "transfer_receive")
    BY NetInForce DEF Sound, Sane
  <1> QED
    BY <1>1, <1>2 DEF Received

LEMMA LaterBudgeted ==
    ASSUME NEW d, Sound(d), Budgeted(d), NEW e, Sound(e), Later(d, e)
    PROVE  Budgeted(e)
  <1> SUFFICES ASSUME NEW t \in DOMAIN e.tasks
               PROVE  /\ e.tasks[t].status = "partially_completed" => Completed(e, t) + Rejected(e, t) > 0
                      /\ Unsent => Received(e, t) <= e.tasks[t].planned
    BY DEF Budgeted
  <1>1. CASE t \in DOMAIN d.tasks
    <2>1. /\ d.tasks[t].status = "partially_completed" => Completed(d, t) + Rejected(d, t) > 0
          /\ Unsent => Received(d, t) <= d.tasks[t].planned
      BY <1>1 DEF Budgeted
    <2>2. /\ e.tasks[t].status = "partially_completed" =>
               d.tasks[t].status = "partially_completed" \/ Completed(e, t) + Rejected(e, t) > 0
          /\ Completed(d, t) <= Completed(e, t) /\ Rejected(d, t) <= Rejected(e, t)
          /\ Unsent => /\ d.tasks[t].planned <= e.tasks[t].planned
                       /\ Received(e, t) <= Received(d, t) \/ Received(e, t) <= e.tasks[t].planned
      BY <1>1 DEF Later, Settles
    <2>3. /\ Completed(d, t) \in Nat /\ Rejected(d, t) \in Nat /\ Received(d, t) \in Nat
          /\ d.tasks[t].planned \in Nat
      BY <1>1, FiguresType DEF Sound, Sane
    <2>4. /\ Completed(e, t) \in Nat /\ Rejected(e, t) \in Nat /\ Received(e, t) \in Nat
          /\ e.tasks[t].planned \in Nat
      BY FiguresType DEF Sound, Sane
    <2> QED
      BY <2>1, <2>2, <2>3, <2>4
  <1>2. CASE t \notin DOMAIN d.tasks
    BY <1>2 DEF Later
  <1> QED
    BY <1>1, <1>2

(* Tasks are skipped or opened again. *)
LEMMA MarkedBudgeted ==
    ASSUME NEW d, Sound(d), Budgeted(d), NEW e, e.ledger = d.ledger, DOMAIN e.tasks = DOMAIN d.tasks,
           \A t \in DOMAIN d.tasks :
             /\ e.tasks[t].planned = d.tasks[t].planned
             /\ e.tasks[t].status = "partially_completed" => d.tasks[t].status = "partially_completed"
    PROVE  Budgeted(e)
  <1>1. \A t : /\ Received(e, t) = Received(d, t)
               /\ Completed(e, t) = Completed(d, t) /\ Rejected(e, t) = Rejected(d, t)
    BY SameLedger DEF Sound, Sane
  <1> QED
    BY <1>1 DEF Budgeted

(* What a request does before it skips stages or opens them again. *)
Until(S) ==
    \A v : v \in S <=> Sound(v) /\ SameLines(db, v) /\ Later(db, v)

LEMMA UntilClosed ==
    ASSUME NEW S, Until(S), Sound(db)
    PROVE  ClosedUnderMoves(S) /\ db \in S
  <1>1. ASSUME NEW d \in S, NEW e, Moves(d, e) PROVE e \in S
    <2>1. /\ Sound(d) /\ SameLines(db, d) /\ Later(db, d)
          /\ Sound(e) /\ SameLines(d, e) /\ Later(d, e)
      BY <1>1 DEF Until, Moves
    <2>2. Later(db, e)
      BY <2>1, LaterTwice DEF Sound, Sane
    <2>3. SameLines(db, e)
      BY <2>1 DEF SameLines
    <2> QED
      BY <2>1, <2>2, <2>3 DEF Until
  <1>2. SameLines(db, db) /\ Later(db, db)
    BY LaterSame DEF SameLines, Sound, Sane
  <1> QED
    BY <1>1, <1>2 DEF ClosedUnderMoves, Until

LEMMA UntilExists == \E S : Until(S)
  <1> DEFINE S == { v \in Database : Sound(v) /\ SameLines(db, v) /\ Later(db, v) }
  <1>1. Until(S)
    BY DEF Sound, Sane, Typed, Until
  <1> QED
    BY <1>1

LEMMA NextBudgeted ==
    ASSUME Sound(db), Budgeted(db), Next
    PROVE  Budgeted(db')
  <1>1. PICK S : Until(S)
    BY UntilExists
  <1>2. ClosedUnderMoves(S) /\ db \in S
    BY <1>1, UntilClosed
  <1>3. \/ db' \in S
        \/ \E c \in S : \E issue : SkippedFrom(c, db', issue)
        \/ \E c \in S : \E issue : IssueTakenBack(db, c, db', issue)
    BY <1>2, NextMoves
  <1>4. ASSUME NEW c \in S PROVE Sound(c) /\ Budgeted(c)
    <2>1. Sound(c) /\ Later(db, c)
      BY <1>1 DEF Until
    <2> QED
      BY <2>1, LaterBudgeted
  <1>5. ASSUME NEW c \in S, NEW issue, SkippedFrom(c, db', issue) PROVE Budgeted(db')
    <2> DEFINE e == db'
    <2>1. SkippedFrom(c, e, issue)
      BY <1>5
    <2> HIDE DEF e
    <2>2. /\ e.ledger = c.ledger /\ DOMAIN e.tasks = DOMAIN c.tasks
          /\ \A t \in DOMAIN c.tasks :
               /\ e.tasks[t].planned = c.tasks[t].planned
               /\ e.tasks[t].status = "partially_completed" => c.tasks[t].status = "partially_completed"
      BY <2>1 DEF SkippedFrom
    <2>3. Budgeted(e)
      BY <1>4, <2>2, MarkedBudgeted
    <2> QED
      BY <2>3 DEF e
  <1>6. ASSUME NEW c \in S, NEW issue, IssueTakenBack(db, c, db', issue) PROVE Budgeted(db')
    <2> DEFINE e == db'
    <2>1. RestoredFrom(c, e, SkippedTasks(c, issue))
      BY <1>6 DEF IssueTakenBack
    <2> HIDE DEF e
    <2>2. /\ e.ledger = c.ledger /\ DOMAIN e.tasks = DOMAIN c.tasks
          /\ \A t \in DOMAIN c.tasks :
               /\ e.tasks[t].planned = c.tasks[t].planned
               /\ e.tasks[t].status = "partially_completed" => c.tasks[t].status = "partially_completed"
      BY <2>1 DEF RestoredFrom, Early
    <2>3. Budgeted(e)
      BY <1>4, <2>2, MarkedBudgeted
    <2> QED
      BY <2>3 DEF e
  <1> QED
    BY <1>3, <1>4, <1>5, <1>6

LEMMA InitBudgeted ==
    ASSUME Init
    PROVE  Budgeted(db)
  <1>0. Sound(db)
    BY InitSound
  <1> SUFFICES ASSUME NEW t \in DOMAIN db.tasks
               PROVE  /\ db.tasks[t].status # "partially_completed"
                      /\ Received(db, t) <= db.tasks[t].planned
    BY DEF Budgeted
  <1>1. db.tasks[t].status # "partially_completed"
    BY DEF Init, NewTask
  <1>2. RowsOf(db, {t}, "transfer_receive") = {}
    <2>1. \A n \in DOMAIN db.ledger : db.ledger[n].reason = "manual_in"
      BY DEF Init, InitialReceipt, Row
    <2> QED
      BY <2>1 DEF RowsOf
  <1>3. Received(db, t) = 0
    BY <1>0, <1>2, NothingReceived
  <1>4. db.tasks[t].planned \in Nat
    BY <1>0, FiguresType DEF Sound, Sane
  <1> QED
    BY <1>1, <1>3, <1>4

(* A task that is partly worked had something made or scrapped, and plans   *)
(* cover what is received.                                                  *)
THEOREM FlowBudgeted == Spec => []Budgeted(db)
  <1>1. Init => Budgeted(db)
    BY InitBudgeted
  <1>2. FlowInv /\ Budgeted(db) /\ [Next]_db => Budgeted(db)'
    <2> SUFFICES ASSUME FlowInv, Budgeted(db), [Next]_db PROVE Budgeted(db')
      OBVIOUS
    <2>1. CASE Next
      BY <2>1, NextBudgeted DEF FlowInv
    <2>2. CASE UNCHANGED db
      BY <2>2
    <2> QED
      BY <2>1, <2>2
  <1> QED
    BY <1>1, <1>2, FlowSound, PTL DEF Spec

(* No task has received more than it plans, whatever is sent over the plan,  *)
(* corrected, cancelled or reversed, unless a portion that is sent on across *)
(* storage groups has set the plan of the task that receives it.             *)
THEOREM PlansAreExpanded ==
    ASSUME Unsent
    PROVE  Spec => []PlanCoversReceipts
  <1>1. Budgeted(db) => PlanCoversReceipts
    BY DEF Budgeted, PlanCoversReceipts
  <1> QED
    BY <1>1, FlowBudgeted, PTL

LEMMA FlowSkips ==
    ASSUME FlowInv, Budgeted(db), Next
    PROVE  \A t \in DOMAIN db.tasks \ db.reopened :
             Skips(t) /\ Received(db', t) > 0 =>
                \/ Completed(db', t) + Rejected(db', t) > 0
                \/ TasksOnLine(db', db.tasks[t].position, db.tasks[t].stage) # {t}
  <1> SUFFICES ASSUME NEW t \in DOMAIN db.tasks \ db.reopened, Skips(t), Received(db', t) > 0,
                      TasksOnLine(db', db.tasks[t].position, db.tasks[t].stage) = {t}
               PROVE  Completed(db', t) + Rejected(db', t) > 0
    OBVIOUS
  <1> DEFINE e == db'
             p == db.tasks[t].position
             s == db.tasks[t].stage
  <1>0. Sound(db)
    BY DEF FlowInv
  <1>1. PICK S : Until(S)
    BY UntilExists
  <1>2. ClosedUnderMoves(S) /\ db \in S
    BY <1>0, <1>1, UntilClosed
  <1>3. \/ e \in S
        \/ \E c \in S : \E issue : SkippedFrom(c, e, issue)
        \/ \E c \in S : \E issue : IssueTakenBack(db, c, e, issue)
    BY <1>2, NextMoves
  <1>4. /\ db.tasks[t].status # "skipped" /\ e.tasks[t].status = "skipped"
        /\ Received(e, t) > 0 /\ TasksOnLine(e, p, s) = {t}
    BY DEF Skips
  <1> HIDE DEF e
  <1>5. ASSUME NEW c \in S
        PROVE  /\ Sound(c) /\ Budgeted(c) /\ t \in DOMAIN c.tasks /\ t \notin c.reopened
               /\ c.tasks[t].position = p /\ c.tasks[t].stage = s /\ c.tasks[t].status # "skipped"
    <2>1. Sound(c) /\ SameLines(db, c) /\ Later(db, c)
      BY <1>1 DEF Until
    <2>2. Budgeted(c)
      BY <1>0, <2>1, LaterBudgeted
    <2> QED
      BY <1>4, <2>1, <2>2 DEF SameLines, Later, Settles
  <1>6. ~(e \in S)
    BY <1>4, <1>5
  <1>7. ASSUME NEW c \in S, NEW issue, IssueTakenBack(db, c, e, issue) PROVE FALSE
    <2>1. RestoredFrom(c, e, SkippedTasks(c, issue))
      BY <1>7 DEF IssueTakenBack
    <2> QED
      BY <1>4, <1>5, <2>1 DEF RestoredFrom, Early
  <1>8. ASSUME NEW c \in S, NEW issue, SkippedFrom(c, e, issue)
        PROVE  Completed(e, t) + Rejected(e, t) > 0
    <2>1. TasksOnLine(c, p, s) = {t}
      BY <1>4, <1>8 DEF SkippedFrom, TasksOnLine
    <2>2. ~KeepsItsStage(c.tasks[t].status)
      BY <1>4, <1>5, <1>8, <2>1 DEF SkippedFrom
    <2>3. c.tasks[t].status \in WorkTaskStatus
      BY <1>5, DatabaseFields DEF Sound, Sane, TaskRow
    <2>4. /\ Received(e, t) = Received(c, t)
          /\ Completed(e, t) = Completed(c, t) /\ Rejected(e, t) = Rejected(c, t)
      BY <1>5, <1>8, SameLedger DEF SkippedFrom, Sound, Sane
    <2>5. RowsOf(c, {t}, "transfer_receive") # {}
      <3>1. Received(c, t) # 0
        BY <1>4, <2>4
      <3> QED
        BY <1>5, <3>1, NothingReceived
    <2>6. c.tasks[t].status \notin Early
      BY <1>5, <2>5 DEF Sound, Sane, ReceivedInWork
    <2>7. c.tasks[t].status = "partially_completed"
      BY <2>2, <2>3, <2>6 DEF KeepsItsStage, WorkTaskStatus, Early, ClosedStatus
    <2> QED
      BY <1>5, <2>4, <2>7 DEF Budgeted
  <1>9. Completed(e, t) + Rejected(e, t) > 0
    BY <1>3, <1>6, <1>7, <1>8
  <1> QED
    BY <1>9 DEF e

(* An issue skips a task that material came to only when a part of it was    *)
(* completed or scrapped, or when the line has a second task, whatever has   *)
(* been transferred, cancelled, corrected or reversed before.                *)
THEOREM NoMaterialIsWrittenOff == Spec => OnlyPartlyWorkedIsSkipped
  <1>1. FlowInv /\ Budgeted(db) /\ [Next]_db =>
          [ \A t \in DOMAIN db.tasks \ db.reopened :
              Skips(t) /\ Received(db', t) > 0 =>
                 \/ Completed(db', t) + Rejected(db', t) > 0
                 \/ TasksOnLine(db', db.tasks[t].position, db.tasks[t].stage) # {t} ]_db
    BY FlowSkips
  <1> QED
    BY <1>1, FlowSound, FlowBudgeted, PTL DEF Spec, OnlyPartlyWorkedIsSkipped
----------------------------------------------------------------------------
(* What is used up has been received.                                       *)

Fed(d) == \A t : Used(d, t) <= Received(d, t)

LEMMA LivesFed ==
    ASSUME NEW d, Typed(d), Fed(d), NEW e, Typed(e), Lives(d, e)
    PROVE  Fed(e)
  <1> SUFFICES ASSUME NEW t PROVE Used(e, t) <= Received(e, t)
    BY DEF Fed
  <1>1. /\ Used(d, t) \in Nat /\ Received(d, t) \in Nat
        /\ Used(e, t) \in Nat /\ Received(e, t) \in Nat
    BY UsedType
  <1>2. /\ Used(d, t) <= Received(d, t)
        /\ \/ Used(e, t) <= Received(e, t)
           \/ Used(e, t) - Received(e, t) <= Used(d, t) - Received(d, t)
    BY DEF Fed, Lives
  <1> QED
    BY <1>1, <1>2

LEMMA NextFed ==
    ASSUME KeptOutOfJournal, Sound(db), Shaped(db), Fed(db), Next
    PROVE  Fed(db')
  <1> DEFINE S == { v \in Database : Sound(v) /\ Shaped(v) /\ Fed(v) }
  <1>1. \A v : v \in S <=> Sound(v) /\ Shaped(v) /\ Fed(v)
    BY DEF Sound, Sane, Typed
  <1> HIDE DEF S
  <1>2. Closed(S)
    <2>1. ASSUME NEW d \in S, NEW e, Change(d, e) PROVE e \in S
      <3>1. Sound(d) /\ Shaped(d) /\ Fed(d) /\ Sound(e) /\ Moves(d, e) /\ Lives(d, e)
        BY <1>1, <2>1 DEF Change, Moves
      <3>2. Shaped(e)
        BY <3>1, ShapedChanged
      <3>3. Fed(e)
        BY <3>1, LivesFed DEF Sound, Sane
      <3> QED
        BY <1>1, <3>1, <3>2, <3>3
    <2> QED
      BY <1>1, <2>1 DEF Closed
  <1>3. \/ db' \in S \/ Corrected(db, db')
        \/ \E c \in S : \E issue : SkippedFrom(c, db', issue)
        \/ \E c \in S : \E issue : IssueTakenBack(db, c, db', issue)
    BY <1>1, <1>2, NextChanges
  <1> DEFINE e == db'
  <1>4. Sound(e)
    BY NextSound
  <1> HIDE DEF e
  <1>5. ASSUME NEW c \in S, e.ledger = c.ledger PROVE Fed(e)
    <2>1. Sound(c) /\ Fed(c)
      BY <1>1
    <2> QED
      BY <1>4, <1>5, <2>1, LivesSame, LivesFed DEF Sound, Sane
  <1>6. ASSUME Corrected(db, e) PROVE Fed(e)
    BY <1>4, <1>6, LivesFed DEF Corrected, Sound, Sane
  <1>7. ASSUME NEW c \in S, NEW issue, SkippedFrom(c, e, issue) PROVE Fed(e)
    BY <1>5, <1>7 DEF SkippedFrom
  <1>8. ASSUME NEW c \in S, NEW issue, IssueTakenBack(db, c, e, issue) PROVE Fed(e)
    BY <1>5, <1>8 DEF IssueTakenBack, RestoredFrom
  <1>9. Fed(e)
    BY <1>1, <1>3, <1>6, <1>7, <1>8 DEF e
  <1> QED
    BY <1>9 DEF e

LEMMA InitFed ==
    ASSUME Init
    PROVE  Fed(db)
  <1>1. Typed(db)
    BY InitSound DEF Sound, Sane
  <1> SUFFICES ASSUME NEW t PROVE Used(db, t) <= Received(db, t)
    BY DEF Fed
  <1>2. \A n \in DOMAIN db.ledger : db.ledger[n].reason = "manual_in"
    BY DEF Init, InitialReceipt, Row
  <1>3. ASSUME NEW reason, reason # "manual_in" PROVE Gross(db, {t}, reason) = 0
    <2>1. RowsOf(db, {t}, reason) = {}
      BY <1>2, <1>3 DEF RowsOf
    <2> QED
      BY <2>1, AmountOfFew DEF Gross
  <1>4. /\ Net(db, {t}, "complete") \in Nat /\ Net(db, {t}, "complete") <= Gross(db, {t}, "complete")
        /\ Net(db, {t}, "scrap") \in Nat /\ Net(db, {t}, "scrap") <= Gross(db, {t}, "scrap")
    BY <1>1, NetInForce
  <1>5. Gross(db, {t}, "complete") = 0 /\ Gross(db, {t}, "scrap") = 0
    BY <1>3
  <1>6. Used(db, t) = 0 /\ Received(db, t) \in Nat
    BY <1>1, <1>4, <1>5, UsedType DEF Used
  <1> QED
    BY <1>6

LEMMA FlowFed ==
    ASSUME KeptOutOfJournal
    PROVE  Spec => []Fed(db)
  <1>1. Init => Fed(db)
    BY InitFed
  <1>2. FlowInv /\ Shaped(db) /\ Fed(db) /\ [Next]_db => Fed(db)'
    <2> SUFFICES ASSUME FlowInv, Shaped(db), Fed(db), [Next]_db PROVE Fed(db')
      OBVIOUS
    <2>1. CASE Next
      BY <2>1, NextFed DEF FlowInv
    <2>2. CASE UNCHANGED db
      BY <2>2
    <2> QED
      BY <2>1, <2>2
  <1> QED
    BY <1>1, <1>2, FlowSound, FlowShaped, PTL DEF Spec

(* No task that returned nothing has used up more than it has received,      *)
(* whatever portions, cancels, corrections and reversals have come before,   *)
(* as long as transfers are not reversed from the journal.                   *)
THEOREM MaterialIsReceivedFirst ==
    ASSUME KeptOutOfJournal
    PROVE  Spec => []WorkedOnlyWhatWasReceived
  <1>1. FlowInv /\ Fed(db) => WorkedOnlyWhatWasReceived
    <2> SUFFICES ASSUME FlowInv, Fed(db), NEW t \in DOMAIN db.tasks, Net(db, {t}, "return_to_stock") = 0
                 PROVE  Spent(db, {t}) <= Received(db, t)
      BY DEF WorkedOnlyWhatWasReceived
    <2>1. Spent(db, {t}) = Used(db, t) + 0 /\ Used(db, t) <= Received(db, t)
      BY DEF Spent, Used, Fed
    <2>2. Used(db, t) \in Nat
      BY UsedType DEF FlowInv, Sound, Sane
    <2> QED
      BY <2>1, <2>2
  <1> QED
    BY <1>1, FlowSound, FlowFed, PTL
----------------------------------------------------------------------------
(* A transfer and its rows.                                                 *)

LEMMA NetOfOneRow ==
    ASSUME Typed(db), NEW a, NEW reason, NEW k \in DOMAIN db.ledger, db.ledger[k].reverses = NULL,
           \A j \in DOMAIN db.ledger :
              db.ledger[j].reason = reason /\ db.ledger[j].action = a <=> j = k
    PROVE  NetOfTransfer(a, reason) = IF k \in InForce(db) THEN db.ledger[k].quantity ELSE 0
  <1> DEFINE sent == { i \in DOMAIN db.ledger :
                         db.ledger[i].reason = reason /\ db.ledger[i].action = a }
             undone == { i \in Reversals(db) : db.ledger[i].reverses \in {k} }
  <1>1. sent = {k}
    OBVIOUS
  <1>2. NetOfTransfer(a, reason) = Amount(db.ledger, {k}) - Amount(db.ledger, undone)
    BY <1>1 DEF NetOfTransfer
  <1>3. Amount(db.ledger, undone) = Amount(db.ledger, Undone(db, {k}))
    BY AmountUndone
  <1>4. db.ledger[k].quantity \in Nat
    BY DatabaseFields DEF LedgerRow
  <1>5. Amount(db.ledger, {k}) = db.ledger[k].quantity /\ Amount(db.ledger, {}) = 0
    BY <1>4, AmountOfFew
  <1> HIDE DEF undone
  <1>6. CASE k \in InForce(db)
    <2>1. Undone(db, {k}) = {}
      BY <1>6 DEF Undone, InForce, Reversals
    <2>2. NetOfTransfer(a, reason) = db.ledger[k].quantity - 0
      BY <1>2, <1>3, <1>5, <2>1
    <2> QED
      BY <1>4, <1>6, <2>2
  <1>7. CASE k \notin InForce(db)
    <2>1. PICK j \in DOMAIN db.ledger : db.ledger[j].reverses = k
      BY <1>7 DEF InForce
    <2>2. k # NULL
      <3>1. DOMAIN db.ledger = 1..Len(db.ledger)
        BY DatabaseFields
      <3> QED
        BY <3>1, NullIsNoValue
    <2>3. Undone(db, {k}) = {k}
      BY <2>1, <2>2 DEF Undone, Reversals
    <2>4. NetOfTransfer(a, reason) = db.ledger[k].quantity - db.ledger[k].quantity
      BY <1>2, <1>3, <1>5, <2>3
    <2> QED
      BY <1>4, <1>7, <2>4
  <1> QED
    BY <1>6, <1>7

(* Only a row that compensates nothing names an action. *)
LEMMA DirectRows ==
    ASSUME NEW d, Typed(d), NEW i \in DOMAIN d.ledger, d.ledger[i].action # NULL
    PROVE  d.ledger[i].reverses = NULL
  <1> SUFFICES ASSUME d.ledger[i].reverses # NULL PROVE FALSE
    OBVIOUS
  <1> DEFINE k == d.ledger[i].reverses
  <1>1. i \in Reversals(d)
    BY DEF Reversals
  <1>2. d.ledger[i] = Mirror(d, k)
    BY <1>1 DEF Typed, Mirrored
  <1>3. k \in DOMAIN d.ledger
    <2>1. DOMAIN d.ledger = 1..Len(d.ledger) /\ Len(d.ledger) \in Nat
      BY DatabaseFields
    <2>2. k \in Nullable(1..(i - 1))
      BY DEF Typed, Refer
    <2> HIDE DEF k
    <2>3. k \in 1..(i - 1)
      <3>1. k # NULL
        BY DEF k
      <3> QED
        BY <2>2, <3>1 DEF Nullable
    <2> QED
      BY <2>1, <2>3
  <1> HIDE DEF k
  <1>4. Mirror(d, k).action = NULL
    BY <1>3, MirrorIsRow
  <1> QED
    BY <1>2, <1>4

LEMMA FlowMatches ==
    ASSUME FlowInv, Shaped(db)
    PROVE  TransferMatchesLedger
  <1> SUFFICES ASSUME NEW a \in DOMAIN db.journal, db.journal[a].type = "transfer_send"
               PROVE  LET net == IF db.journal[a].transfer = "accepted"
                                 THEN db.journal[a].quantity ELSE 0 IN
                      /\ NetOfTransfer(a, "transfer_send") = net
                      /\ NetOfTransfer(a, "transfer_receive") = net
    BY DEF TransferMatchesLedger
  <1>1. Typed(db) /\ db.journal[a] \in ActionRow
    BY DatabaseFields DEF FlowInv, Sound, Sane
  <1>2. /\ DOMAIN db.ledger = 1..Len(db.ledger) /\ Len(db.ledger) \in Nat
        /\ DOMAIN db.journal = 1..Len(db.journal)
    BY <1>1, DatabaseFields
  <1>3. Entered(db, a)
    BY DEF Shaped
  <1>4. PICK i \in DOMAIN db.ledger :
          /\ Paired(db, i, "transfer_send", "transfer_receive")
          /\ db.ledger[i].action = a /\ db.ledger[i].quantity = db.journal[a].quantity
          /\ \A j \in DOMAIN db.ledger : db.ledger[j].action = a => j \in { i, i + 1 }
    BY <1>3 DEF Entered
  <1>5. /\ i + 1 \in DOMAIN db.ledger /\ db.ledger[i + 1].action = a
        /\ db.ledger[i + 1].quantity = db.journal[a].quantity
        /\ db.ledger[i].reason = "transfer_send" /\ db.ledger[i + 1].reason = "transfer_receive"
    BY <1>4 DEF Paired
  <1>6. a # NULL
    BY <1>2, NullIsNoValue
  <1>7. db.ledger[i].reverses = NULL /\ db.ledger[i + 1].reverses = NULL
    BY <1>1, <1>4, <1>5, <1>6, DirectRows
  <1>8. /\ i \in InForce(db) <=> db.journal[a].active = TRUE
        /\ i + 1 \in InForce(db) <=> db.journal[a].active = TRUE
    BY <1>4, <1>5, <1>6, <1>7 DEF Shaped
  <1>9. db.journal[a].transfer = "accepted" <=> db.journal[a].active = TRUE
    BY <1>1, <1>3 DEF Entered, ActionRow
  <1> DEFINE next == i + 1
  <1>10. next \in DOMAIN db.ledger /\ db.ledger[next].reverses = NULL
    BY <1>5, <1>7
  <1>11. /\ \A j \in DOMAIN db.ledger :
              db.ledger[j].reason = "transfer_send" /\ db.ledger[j].action = a <=> j = i
         /\ \A j \in DOMAIN db.ledger :
              db.ledger[j].reason = "transfer_receive" /\ db.ledger[j].action = a <=> j = next
    BY <1>4, <1>5
  <1>12. /\ next \in InForce(db) <=> db.journal[a].transfer = "accepted"
         /\ i \in InForce(db) <=> db.journal[a].transfer = "accepted"
         /\ db.ledger[next].quantity = db.journal[a].quantity
    BY <1>5, <1>8, <1>9
  <1> HIDE DEF next
  <1>13. NetOfTransfer(a, "transfer_send") = IF i \in InForce(db) THEN db.ledger[i].quantity ELSE 0
    BY <1>1, <1>7, <1>11, NetOfOneRow
  <1>14. NetOfTransfer(a, "transfer_receive")
           = IF next \in InForce(db) THEN db.ledger[next].quantity ELSE 0
    BY <1>1, <1>10, <1>11, NetOfOneRow
  <1> QED
    BY <1>4, <1>12, <1>13, <1>14

(* A transfer that counts as accepted is in the ledger with its full        *)
(* quantity, sent and received, and of a cancelled or amended one nothing   *)
(* is in force, whichever way it was taken back and whatever was sent since.*)
THEOREM TransfersAreInTheLedger == Spec => []TransferMatchesLedger
  <1>1. FlowInv /\ Shaped(db) => TransferMatchesLedger
    BY FlowMatches
  <1> QED
    BY <1>1, FlowSound, FlowShaped, PTL
----------------------------------------------------------------------------
(* Where the rows of a stage come from and go to.                           *)

(* What lies in the section of a stage unworked. *)
Unworked(s) == { At(s, done) : done \in 0..(s - 1) }

(* The places of a stage are its own. *)
OwnPlaces(s, k) ==
    /\ NULL \notin Unworked(s) /\ NULL # Output(s)
    /\ Input(k) \in Unworked(s) <=> k = s
    /\ Output(k) \notin Unworked(s) /\ StoreFor(k) \notin Unworked(s)
    /\ ScrapStore(k) \notin Unworked(s) /\ FinishedGoods \notin Unworked(s)
    /\ Output(k) = Output(s) <=> k = s
    /\ Input(k) # Output(s) /\ StoreFor(k) # Output(s)
    /\ ScrapStore(k) # Output(s) /\ FinishedGoods # Output(s)
    /\ \A done \in 0..(k - 1) : (At(k, done) \in Unworked(s) <=> k = s) /\ At(k, done) # Output(s)

LEMMA PlacesAreOwn ==
    ASSUME NEW s \in Stages, NEW k \in Stages
    PROVE  OwnPlaces(s, k)
  <1>1. s \in 1..LastStage /\ k \in 1..LastStage /\ LastStage \in Nat
    BY TaskFlowConstants DEF Stages
  <1>2. \A section, done : At(section, done) \in Unworked(s) <=> section = s /\ done \in 0..(s - 1)
    BY DEF Unworked, At
  <1>3. \A a, b, x, y : At(a, b) = At(x, y) <=> a = x /\ b = y
    BY DEF At
  <1>4. Unworked(s) \subseteq Place /\ Output(s) \in Place
    BY <1>1 DEF Unworked, Output, At, Place
  <1>5. NULL \notin Unworked(s) /\ NULL # Output(s)
    BY <1>4, NullIsNoValue
  <1>6. /\ Input(k) \in Unworked(s) <=> k = s
        /\ Output(k) \notin Unworked(s) /\ StoreFor(k) \notin Unworked(s)
        /\ ScrapStore(k) \notin Unworked(s) /\ FinishedGoods \notin Unworked(s)
    BY <1>1, <1>2 DEF Input, Output, StoreFor, ScrapStore, FinishedGoods
  <1>7. /\ Output(k) = Output(s) <=> k = s
        /\ Input(k) # Output(s) /\ StoreFor(k) # Output(s)
        /\ ScrapStore(k) # Output(s) /\ FinishedGoods # Output(s)
    BY <1>1, <1>3 DEF Input, Output, StoreFor, ScrapStore, FinishedGoods
  <1>8. \A done \in 0..(k - 1) : (At(k, done) \in Unworked(s) <=> k = s) /\ At(k, done) # Output(s)
    BY <1>1, <1>2, <1>3 DEF Output
  <1> QED
    BY <1>5, <1>6, <1>7, <1>8 DEF OwnPlaces

(* What a row brings to a stage and takes from it says what the row is. *)
Sided(i, s) ==
    LET row == db.ledger[i] IN
    /\ row.to \in Unworked(s) <=> row.reason = "transfer_send" /\ StageOf(db, i + 1) = s
    /\ row.from \in Unworked(s) <=>
         row.task \in TasksOf(s) /\ row.reason \in { "scrap", "return_to_stock", "transform_consume" }
    /\ row.to = Output(s) <=> row.task \in TasksOf(s) /\ row.reason = "complete"
    /\ row.from = Output(s) <=>
         row.task \in TasksOf(s) /\ row.reason \in { "transfer_send", "final_release" }

LEMMA ProperSided ==
    ASSUME Typed(db), NEW i \in DOMAIN db.ledger, Proper(db, i), NEW s \in Stages
    PROVE  Sided(i, s)
  <1> DEFINE row == db.ledger[i]
             k == StageOf(db, i)
  <1>1. \A t \in DOMAIN db.tasks : db.tasks[t].stage \in Stages /\ (t \in TasksOf(s) <=> db.tasks[t].stage = s)
    BY DatabaseFields DEF TaskRow, TasksOf
  <1>2. NULL \notin TasksOf(s)
    <2>1. DOMAIN db.tasks = 1..Len(db.tasks)
      BY DatabaseFields
    <2> QED
      BY <2>1, NullIsNoValue DEF TasksOf
  <1>3. row.task \in DOMAIN db.tasks => k \in Stages /\ (row.task \in TasksOf(s) <=> k = s)
    BY <1>1 DEF StageOf
  <1>4. i \in Nat /\ (i - 1) + 1 = i
    BY DatabaseFields
  <1>5. LastStage \in Stages
    BY TaskFlowConstants DEF Stages
  <1>6. NULL \notin Unworked(s) /\ NULL # Output(s)
    BY PlacesAreOwn DEF OwnPlaces
  <1> HIDE DEF k
  <1>7. CASE Stocked(db, i)
    <2>1. PICK n \in Stages : row.to = StoreFor(n)
      BY <1>7 DEF Stocked
    <2>2. row.reason = "manual_in" /\ row.task = NULL /\ row.from = NULL
      BY <1>7 DEF Stocked
    <2>3. OwnPlaces(s, n)
      BY PlacesAreOwn
    <2> QED
      BY <1>2, <2>1, <2>2, <2>3 DEF Sided, OwnPlaces
  <1>8. CASE Scrapped(db, i)
    <2>1. /\ row.reason = "scrap" /\ row.task \in DOMAIN db.tasks
          /\ row.from = Input(k) /\ row.to = ScrapStore(k)
      BY <1>8 DEF Scrapped, k
    <2>2. OwnPlaces(s, k)
      BY <1>3, <2>1, PlacesAreOwn
    <2> QED
      BY <1>3, <2>1, <2>2 DEF Sided, OwnPlaces
  <1>9. CASE Released(db, i)
    <2>1. /\ row.reason = "final_release" /\ row.task \in DOMAIN db.tasks /\ k = LastStage
          /\ row.from = Output(LastStage) /\ row.to = FinishedGoods
      BY <1>9 DEF Released, k
    <2>2. OwnPlaces(s, LastStage)
      BY <1>5, PlacesAreOwn
    <2> QED
      BY <1>3, <2>1, <2>2 DEF Sided, OwnPlaces
  <1>10. CASE Returned(db, i)
    <2>1. /\ row.reason = "return_to_stock" /\ row.task \in DOMAIN db.tasks
          /\ row.from = Input(k) /\ row.to = NULL
      BY <1>10 DEF Returned, k
    <2>2. OwnPlaces(s, k)
      BY <1>3, <2>1, PlacesAreOwn
    <2> QED
      BY <1>3, <2>1, <2>2 DEF Sided, OwnPlaces
  <1>11. CASE Handed(db, i)
    <2> DEFINE n == StageOf(db, i + 1)
    <2>1. /\ row.reason = "transfer_send" /\ db.ledger[i + 1].task \in DOMAIN db.tasks
          /\ \E done \in 0..(n - 1) : row.to = At(n, done)
          /\ \/ row.task = NULL /\ \E m \in Stages : row.from = StoreFor(m)
             \/ row.task \in DOMAIN db.tasks /\ row.from = Output(k)
      BY <1>11 DEF Handed, Paired, k
    <2>2. n \in Stages
      BY <1>1, <2>1 DEF StageOf
    <2> HIDE DEF n
    <2>3. (row.to \in Unworked(s) <=> n = s) /\ row.to # Output(s)
      <3>1. OwnPlaces(s, n)
        BY <2>2, PlacesAreOwn
      <3>2. PICK done \in 0..(n - 1) : row.to = At(n, done)
        BY <2>1
      <3> QED
        BY <3>1, <3>2 DEF OwnPlaces
    <2>4. row.from \notin Unworked(s) /\ (row.from = Output(s) <=> row.task \in TasksOf(s))
      <3>1. CASE row.task = NULL /\ \E m \in Stages : row.from = StoreFor(m)
        <4>1. PICK m \in Stages : row.from = StoreFor(m)
          BY <3>1
        <4>2. OwnPlaces(s, m)
          BY PlacesAreOwn
        <4> QED
          BY <1>2, <3>1, <4>1, <4>2 DEF OwnPlaces
      <3>2. CASE row.task \in DOMAIN db.tasks /\ row.from = Output(k)
        <4>1. OwnPlaces(s, k)
          BY <1>3, <3>2, PlacesAreOwn
        <4> QED
          BY <1>3, <3>2, <4>1 DEF OwnPlaces
      <3> QED
        BY <2>1, <3>1, <3>2
    <2> QED
      BY <2>1, <2>3, <2>4 DEF Sided, n
  <1>12. CASE Handed(db, i - 1)
    <2>1. row.reason = "transfer_receive" /\ row.from = NULL /\ row.to = NULL
      BY <1>4, <1>12, Zenon DEF Handed, Paired
    <2> QED
      BY <1>6, <2>1 DEF Sided
  <1>13. CASE Made(db, i)
    <2>1. /\ row.reason = "transform_consume" /\ row.task \in DOMAIN db.tasks
          /\ row.from = Input(k) /\ row.to = NULL
      BY <1>13 DEF Made, Paired, k
    <2>2. OwnPlaces(s, k)
      BY <1>3, <2>1, PlacesAreOwn
    <2> QED
      BY <1>3, <2>1, <2>2 DEF Sided, OwnPlaces
  <1>14. CASE Made(db, i - 1)
    <2>1. /\ row.reason = "complete" /\ row.task \in DOMAIN db.tasks
          /\ row.from = NULL /\ row.to = Output(k)
      <3>1. /\ db.ledger[i].reason = "complete" /\ db.ledger[i].task = db.ledger[i - 1].task
            /\ db.ledger[i - 1].task \in DOMAIN db.tasks
            /\ db.ledger[i].from = NULL /\ db.ledger[i].to = Output(StageOf(db, i - 1))
        BY <1>4, <1>14, Zenon DEF Made, Paired
      <3>2. StageOf(db, i - 1) = k
        BY <3>1 DEF StageOf, k
      <3> QED
        BY <3>1, <3>2
    <2>2. OwnPlaces(s, k)
      BY <1>3, <2>1, PlacesAreOwn
    <2> QED
      BY <1>3, <2>1, <2>2 DEF Sided, OwnPlaces
  <1> QED
    BY <1>7, <1>8, <1>9, <1>10, <1>11, <1>12, <1>13, <1>14, Zenon DEF Proper

(* A row of a pair has its other half beside it. *)
LEMMA OtherHalf ==
    ASSUME NEW d, Typed(d), NEW i \in DOMAIN d.ledger, Proper(d, i)
    PROVE  /\ d.ledger[i].reason = "transfer_send" => Handed(d, i)
           /\ d.ledger[i].reason = "transfer_receive" => Handed(d, i - 1)
           /\ d.ledger[i].reason = "transform_consume" => Made(d, i)
           /\ d.ledger[i].reason = "complete" => Made(d, i - 1)
  <1>1. (i - 1) + 1 = i
    BY DatabaseFields
  <1>2. /\ Handed(d, i) => d.ledger[i].reason = "transfer_send"
        /\ Made(d, i) => d.ledger[i].reason = "transform_consume"
    BY DEF Handed, Made, Paired
  <1>3. /\ Handed(d, i - 1) => d.ledger[i].reason = "transfer_receive"
        /\ Made(d, i - 1) => d.ledger[i].reason = "complete"
    BY <1>1, Zenon DEF Handed, Made, Paired
  <1> QED
    BY <1>2, <1>3 DEF Proper, Stocked, Scrapped, Released, Returned

(* The two rows of a pair are in force together. *)
LEMMA HalvesInForce ==
    ASSUME NEW d, Typed(d), Shaped(d), NEW i, NEW first, NEW second, Paired(d, i, first, second)
    PROVE  i \in InForce(d) <=> i + 1 \in InForce(d)
  <1> DEFINE next == i + 1
  <1>1. /\ i \in DOMAIN d.ledger /\ next \in DOMAIN d.ledger
        /\ d.ledger[next].action = d.ledger[i].action /\ d.ledger[i].action # NULL
    BY DEF Paired
  <1> HIDE DEF next
  <1>2. d.ledger[i].reverses = NULL /\ d.ledger[next].reverses = NULL
    BY <1>1, DirectRows
  <1>3. i \in InForce(d) <=> next \in InForce(d)
    BY <1>1, <1>2 DEF Shaped
  <1> QED
    BY <1>3 DEF next

(* The second rows sum up to the first ones. *)
LEMMA AmountOfHalves ==
    ASSUME NEW d, Typed(d), NEW I \in SUBSET (DOMAIN d.ledger), NEW J \in SUBSET (DOMAIN d.ledger),
           \A i \in I : i + 1 \in J /\ d.ledger[i + 1].quantity = d.ledger[i].quantity,
           \A j \in J : j - 1 \in I
    PROVE  Amount(d.ledger, I) = Amount(d.ledger, J)
  <1> DEFINE f == [ i \in I |-> i + 1 ]
  <1>1. DOMAIN d.ledger = 1..Len(d.ledger) /\ Len(d.ledger) \in Nat
    BY DatabaseFields
  <1>2. I \subseteq Int /\ J \subseteq Int
    BY <1>1
  <1>3. \A j \in J : (j - 1) \in I /\ (j - 1) + 1 = j
    BY <1>2
  <1>4. \A i, k \in I : i + 1 = k + 1 => i = k
    BY <1>2
  <1>5. f \in [ I -> J ] /\ \A i \in I : f[i] = i + 1
    OBVIOUS
  <1> HIDE DEF f
  <1>6. \A j \in J : \E i \in I : f[i] = j
    BY <1>3, <1>5
  <1>7. f \in Bijection(I, J)
    BY <1>4, <1>5, <1>6 DEF Bijection, Injection, Surjection, IsInjective
  <1>8. \A i \in I : d.ledger[f[i]].quantity = d.ledger[i].quantity
    BY <1>5
  <1>9. Counted(d.ledger, I)
    BY RowsCounted
  <1> QED
    BY <1>7, <1>8, <1>9, AmountOfMatched

(* The rows in force of the tasks of a stage. *)
Standing(s, reason) == RowsOf(db, TasksOf(s), reason) \cap InForce(db)

LEMMA StandingIsRows ==
    ASSUME NEW s, NEW reason, NEW i
    PROVE  i \in Standing(s, reason) <=>
             /\ i \in InForce(db) /\ i \in DOMAIN db.ledger
             /\ db.ledger[i].task \in TasksOf(s) /\ db.ledger[i].reason = reason
  BY DEF Standing, RowsOf

(* What was received is what came to the section, and what was consumed is  *)
(* what was completed.                                                      *)
LEMMA HalvesOfStage ==
    ASSUME Typed(db), Shaped(db), NEW s \in Stages
    PROVE  /\ Amount(db.ledger, Arrivals(db, Unworked(s)) \cap InForce(db))
                = Amount(db.ledger, Standing(s, "transfer_receive"))
           /\ Amount(db.ledger, Standing(s, "transform_consume"))
                = Amount(db.ledger, Standing(s, "complete"))
  <1> DEFINE In == Arrivals(db, Unworked(s)) \cap InForce(db)
             Got == Standing(s, "transfer_receive")
             Taken == Standing(s, "transform_consume")
             Done == Standing(s, "complete")
  <1>1. DOMAIN db.ledger = 1..Len(db.ledger) /\ Len(db.ledger) \in Nat
    BY DatabaseFields
  <1>2. ASSUME NEW i \in InForce(db) PROVE i \in DOMAIN db.ledger /\ Proper(db, i) /\ Sided(i, s)
    <2>1. i \in DOMAIN db.ledger /\ db.ledger[i].reverses = NULL
      BY <1>2 DEF InForce
    <2>2. Proper(db, i)
      BY <2>1 DEF Shaped
    <2> QED
      BY <2>1, <2>2, ProperSided
  <1>3. \A i : i \in In <=> /\ i \in InForce(db) /\ db.ledger[i].reason = "transfer_send"
                            /\ StageOf(db, i + 1) = s
    BY <1>2 DEF Arrivals, Sided
  <1>4. \A i : i \in TasksOf(s) <=> i \in DOMAIN db.tasks /\ db.tasks[i].stage = s
    BY DEF TasksOf
  <1>5. /\ In \in SUBSET (DOMAIN db.ledger) /\ Got \in SUBSET (DOMAIN db.ledger)
        /\ Taken \in SUBSET (DOMAIN db.ledger) /\ Done \in SUBSET (DOMAIN db.ledger)
    BY StandingIsRows DEF Arrivals
  <1> HIDE DEF In, Got, Taken, Done
  <1>6. ASSUME NEW i \in In
        PROVE  i + 1 \in Got /\ db.ledger[i + 1].quantity = db.ledger[i].quantity
    <2>1. /\ i \in InForce(db) /\ i \in DOMAIN db.ledger /\ Proper(db, i) /\ StageOf(db, i + 1) = s
          /\ db.ledger[i].reason = "transfer_send"
      BY <1>2, <1>3
    <2>2. Handed(db, i)
      BY <2>1, OtherHalf
    <2>3. /\ Paired(db, i, "transfer_send", "transfer_receive") /\ i + 1 \in DOMAIN db.ledger
          /\ db.ledger[i + 1].task \in DOMAIN db.tasks /\ db.ledger[i + 1].reason = "transfer_receive"
          /\ db.ledger[i + 1].quantity = db.ledger[i].quantity
      BY <2>2 DEF Handed, Paired
    <2>4. i + 1 \in InForce(db)
      BY <2>1, <2>3, HalvesInForce
    <2>5. db.ledger[i + 1].task \in TasksOf(s)
      BY <1>4, <2>1, <2>3 DEF StageOf
    <2> QED
      BY <2>3, <2>4, <2>5, StandingIsRows DEF Got
  <1>7. ASSUME NEW j \in Got PROVE j - 1 \in In
    <2> DEFINE i == j - 1
    <2>1. /\ j \in InForce(db) /\ j \in DOMAIN db.ledger /\ Proper(db, j)
          /\ db.ledger[j].task \in TasksOf(s) /\ db.ledger[j].reason = "transfer_receive"
      BY <1>2, StandingIsRows DEF Got
    <2>2. j = i + 1
      BY <1>1, <2>1
    <2>3. Handed(db, i)
      BY <2>1, OtherHalf
    <2> HIDE DEF i
    <2>4. Paired(db, i, "transfer_send", "transfer_receive") /\ db.ledger[i].reason = "transfer_send"
      BY <2>3 DEF Handed, Paired
    <2>5. i \in InForce(db)
      BY <2>1, <2>2, <2>4, HalvesInForce
    <2>6. StageOf(db, i + 1) = s
      BY <1>4, <2>1, <2>2 DEF StageOf
    <2>7. i \in In
      BY <1>3, <2>4, <2>5, <2>6
    <2> QED
      BY <2>7 DEF i
  <1>8. Amount(db.ledger, In) = Amount(db.ledger, Got)
    BY <1>5, <1>6, <1>7, AmountOfHalves
  <1>9. ASSUME NEW i \in Taken
        PROVE  i + 1 \in Done /\ db.ledger[i + 1].quantity = db.ledger[i].quantity
    <2>1. /\ i \in InForce(db) /\ i \in DOMAIN db.ledger /\ Proper(db, i)
          /\ db.ledger[i].task \in TasksOf(s) /\ db.ledger[i].reason = "transform_consume"
      BY <1>2, StandingIsRows DEF Taken
    <2>2. Made(db, i)
      BY <2>1, OtherHalf
    <2>3. /\ Paired(db, i, "transform_consume", "complete") /\ i + 1 \in DOMAIN db.ledger
          /\ db.ledger[i + 1].task = db.ledger[i].task /\ db.ledger[i + 1].reason = "complete"
          /\ db.ledger[i + 1].quantity = db.ledger[i].quantity
      BY <2>2 DEF Made, Paired
    <2>4. i + 1 \in InForce(db)
      BY <2>1, <2>3, HalvesInForce
    <2> QED
      BY <2>1, <2>3, <2>4, StandingIsRows DEF Done
  <1>10. ASSUME NEW j \in Done PROVE j - 1 \in Taken
    <2> DEFINE i == j - 1
    <2>1. /\ j \in InForce(db) /\ j \in DOMAIN db.ledger /\ Proper(db, j)
          /\ db.ledger[j].task \in TasksOf(s) /\ db.ledger[j].reason = "complete"
      BY <1>2, StandingIsRows DEF Done
    <2>2. j = i + 1
      BY <1>1, <2>1
    <2>3. Made(db, i)
      BY <2>1, OtherHalf
    <2> HIDE DEF i
    <2>4. /\ Paired(db, i, "transform_consume", "complete") /\ db.ledger[i].reason = "transform_consume"
          /\ i \in DOMAIN db.ledger /\ db.ledger[i + 1].task = db.ledger[i].task
      BY <2>3 DEF Made, Paired
    <2>5. i \in InForce(db)
      BY <2>1, <2>2, <2>4, HalvesInForce
    <2>6. i \in Taken
      BY <2>1, <2>2, <2>4, <2>5, StandingIsRows DEF Taken
    <2> QED
      BY <2>6 DEF i
  <1>11. Amount(db.ledger, Taken) = Amount(db.ledger, Done)
    BY <1>5, <1>9, <1>10, AmountOfHalves
  <1> QED
    BY <1>8, <1>11 DEF In, Got, Taken, Done

(* What a stage lost of the unworked, and what it got and gave of the worked. *)
LEMMA SidesOfStage ==
    ASSUME Typed(db), Shaped(db), NEW s \in Stages
    PROVE  /\ Amount(db.ledger, Departures(db, Unworked(s)) \cap InForce(db))
                = Amount(db.ledger, Standing(s, "scrap")) + Amount(db.ledger, Standing(s, "return_to_stock"))
                    + Amount(db.ledger, Standing(s, "transform_consume"))
           /\ Amount(db.ledger, Arrivals(db, {Output(s)}) \cap InForce(db))
                = Amount(db.ledger, Standing(s, "complete"))
           /\ Amount(db.ledger, Departures(db, {Output(s)}) \cap InForce(db))
                = Amount(db.ledger, Standing(s, "transfer_send"))
                    + Amount(db.ledger, Standing(s, "final_release"))
  <1> DEFINE A == Standing(s, "scrap")
             B == Standing(s, "return_to_stock")
             C == Standing(s, "transform_consume")
             D == Standing(s, "transfer_send")
             E == Standing(s, "final_release")
  <1>1. ASSUME NEW i \in InForce(db) PROVE i \in DOMAIN db.ledger /\ Sided(i, s)
    <2>1. i \in DOMAIN db.ledger /\ db.ledger[i].reverses = NULL
      BY <1>1 DEF InForce
    <2>2. Proper(db, i)
      BY <2>1 DEF Shaped
    <2> QED
      BY <2>1, <2>2, ProperSided
  <1>2. Departures(db, Unworked(s)) \cap InForce(db) = (A \cup B) \cup C
    BY <1>1, StandingIsRows DEF Departures, Sided
  <1>3. Arrivals(db, {Output(s)}) \cap InForce(db) = Standing(s, "complete")
    BY <1>1, StandingIsRows DEF Arrivals, Sided
  <1>4. Departures(db, {Output(s)}) \cap InForce(db) = D \cup E
    BY <1>1, StandingIsRows DEF Departures, Sided
  <1>5. A \cap B = {} /\ (A \cup B) \cap C = {} /\ D \cap E = {}
    BY StandingIsRows
  <1>6. /\ A \in SUBSET (DOMAIN db.ledger) /\ B \in SUBSET (DOMAIN db.ledger)
        /\ C \in SUBSET (DOMAIN db.ledger) /\ D \in SUBSET (DOMAIN db.ledger)
        /\ E \in SUBSET (DOMAIN db.ledger)
    BY StandingIsRows
  <1> HIDE DEF A, B, C, D, E
  <1>7. A \cup B \in SUBSET (DOMAIN db.ledger)
    BY <1>6
  <1>8. /\ Counted(db.ledger, A) /\ Counted(db.ledger, B) /\ Counted(db.ledger, C)
        /\ Counted(db.ledger, D) /\ Counted(db.ledger, E) /\ Counted(db.ledger, A \cup B)
    BY <1>6, <1>7, RowsCounted
  <1>9. Amount(db.ledger, A \cup B) = Amount(db.ledger, A) + Amount(db.ledger, B)
    BY <1>5, <1>8, AmountOfDisjoint
  <1>10. Amount(db.ledger, (A \cup B) \cup C) = Amount(db.ledger, A \cup B) + Amount(db.ledger, C)
    BY <1>5, <1>8, AmountOfDisjoint
  <1>11. Amount(db.ledger, D \cup E) = Amount(db.ledger, D) + Amount(db.ledger, E)
    BY <1>5, <1>8, AmountOfDisjoint
  <1> QED
    BY <1>2, <1>3, <1>4, <1>9, <1>10, <1>11 DEF A, B, C, D, E

LEMMA FlowStockOfTasks ==
    ASSUME FlowInv, Shaped(db)
    PROVE  StockIsThatOfTheTasks
  <1> SUFFICES ASSUME NEW s \in Stages
               PROVE  /\ Net(db, TasksOf(s), "transfer_receive") - Spent(db, TasksOf(s))
                           = Stock(db, { At(s, done) : done \in 0..(s - 1) })
                      /\ Net(db, TasksOf(s), "complete") - Net(db, TasksOf(s), "transfer_send")
                           - Net(db, TasksOf(s), "final_release") = OnHand(db, Output(s))
    BY DEF StockIsThatOfTheTasks
  <1>1. Typed(db)
    BY DEF FlowInv, Sound, Sane
  <1> DEFINE sum(reason) == Amount(db.ledger, Standing(s, reason))
             U == Unworked(s)
             W == {Output(s)}
             came(P) == Amount(db.ledger, Arrivals(db, P) \cap InForce(db))
             went(P) == Amount(db.ledger, Departures(db, P) \cap InForce(db))
  <1>2. \A reason : Net(db, TasksOf(s), reason) = sum(reason) /\ sum(reason) \in Nat
    BY <1>1, NetInForce DEF Standing
  <1>3. NULL \notin U /\ NULL \notin W
    BY PlacesAreOwn DEF OwnPlaces
  <1>4. /\ came(U) = sum("transfer_receive") /\ sum("transform_consume") = sum("complete")
    BY <1>1, HalvesOfStage
  <1>5. /\ went(U) = sum("scrap") + sum("return_to_stock") + sum("transform_consume")
        /\ came(W) = sum("complete")
        /\ went(W) = sum("transfer_send") + sum("final_release")
    BY <1>1, SidesOfStage
  <1>6. OnHand(db, Output(s)) = Stock(db, W) /\ { At(s, done) : done \in 0..(s - 1) } = U
    BY DEF OnHand, Unworked
  <1>8. Spent(db, TasksOf(s)) = sum("complete") + sum("scrap") + sum("return_to_stock")
    BY <1>2 DEF Spent
  <1> HIDE DEF U, W
  <1>7. Stock(db, U) = came(U) - went(U) /\ Stock(db, W) = came(W) - went(W)
    BY <1>1, <1>3, StockInForce
  <1> HIDE DEF sum, came, went
  <1>9. /\ sum("transfer_receive") \in Nat /\ sum("complete") \in Nat /\ sum("scrap") \in Nat
        /\ sum("return_to_stock") \in Nat /\ sum("transform_consume") \in Nat
        /\ sum("transfer_send") \in Nat /\ sum("final_release") \in Nat
    BY <1>2
  <1>10. sum("transfer_receive") - Spent(db, TasksOf(s)) = Stock(db, U)
    BY <1>4, <1>5, <1>7, <1>8, <1>9
  <1>11. sum("complete") - sum("transfer_send") - sum("final_release") = Stock(db, W)
    BY <1>5, <1>7, <1>9
  <1>12. /\ Net(db, TasksOf(s), "transfer_receive") = sum("transfer_receive")
         /\ Net(db, TasksOf(s), "complete") = sum("complete")
         /\ Net(db, TasksOf(s), "transfer_send") = sum("transfer_send")
         /\ Net(db, TasksOf(s), "final_release") = sum("final_release")
    BY <1>2
  <1>13. Net(db, TasksOf(s), "transfer_receive") - Spent(db, TasksOf(s))
           = Stock(db, { At(s, done) : done \in 0..(s - 1) })
    BY <1>6, <1>10, <1>12, Zenon
  <1>14. Net(db, TasksOf(s), "complete") - Net(db, TasksOf(s), "transfer_send")
           - Net(db, TasksOf(s), "final_release") = OnHand(db, Output(s))
    BY <1>6, <1>11, <1>12, Zenon
  <1> QED
    BY <1>13, <1>14

(* What the tasks of a stage have received and not used up lies in its      *)
(* section unworked, and what they completed and have not passed on lies    *)
(* there worked: the ledger by tasks and the ledger by places never part,   *)
(* although a transfer may jump stages and every row may be taken back.     *)
THEOREM StockBelongsToTasks == Spec => []StockIsThatOfTheTasks
  <1>1. FlowInv /\ Shaped(db) => StockIsThatOfTheTasks
    BY FlowStockOfTasks
  <1> QED
    BY <1>1, FlowSound, FlowShaped, PTL
=============================================================================
