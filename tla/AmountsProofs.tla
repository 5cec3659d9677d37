--------------------------- MODULE AmountsProofs ---------------------------
(***************************************************************************)
(* How the sum of a sequence of amounts changes with one of them, and      *)
(* induction over positions.  The library's induction theorems take the    *)
(* property as an operator; here a property is the set of the positions it *)
(* holds at, and the step of a recursive function is a function itself.    *)
(***************************************************************************)
EXTENDS Amounts, FiniteSetTheorems, WellFoundedInduction, TLAPS

----------------------------------------------------------------------------
(* Induction.                                                               *)

(* Among numbers there is a least one. *)
LEMMA Least ==
    ASSUME NEW T \in SUBSET Nat, T # {}
    PROVE  \E m \in T : \A k \in T : m <= k
  <1> DEFINE R == OpToRel(<, Nat)
  <1>1. IsWellFoundedOn(R, Nat)
    BY NatLessThanWellFounded
  <1>2. PICK m \in T : \A k \in T : ~(<<k, m>> \in R)
    BY <1>1, WFMin
  <1>3. \A k \in Nat : \A j \in Nat : k < j => << k, j >> \in R
    BY DEF OpToRel
  <1> HIDE DEF R
  <1>4. ASSUME NEW k \in T PROVE m <= k
    <2>1. k \in Nat /\ m \in Nat /\ ~(<< k, m >> \in R)
      BY <1>2
    <2>2. ~(k < m)
      BY <1>3, <2>1
    <2> QED
      BY <2>1, <2>2
  <1> QED
    BY <1>2, <1>4

(* What holds at 0 and passes from each position to the next holds at all. *)
LEMMA Upwards ==
    ASSUME NEW n \in Nat, NEW T, 0 \in T, \A i \in 1..n : i - 1 \in T => i \in T
    PROVE  0..n \subseteq T
  <1> DEFINE U == (0..n) \ T
  <1>1. SUFFICES ASSUME U # {} PROVE FALSE
    OBVIOUS
  <1>2. U \in SUBSET Nat
    OBVIOUS
  <1>3. PICK m \in U : \A k \in U : m <= k
    <2> HIDE DEF U
    <2> QED
      BY <1>1, <1>2, Least
  <1>4. m \in 1..n /\ m - 1 \notin U
    BY <1>3
  <1> QED
    BY <1>3, <1>4

(* The values g after each of n applications of the step R to x. *)
Chained(g, n, S, x, R) ==
    g \in [ 0..n -> S ] /\ g[0] = x /\ \A i \in 1..n : g[i] = R[<< g[i - 1], i >>]

(* A step can be applied n times. *)
LEMMA Chain ==
    ASSUME NEW n \in Nat, NEW S, NEW x \in S, NEW R \in [ S \X (1..n) -> S ]
    PROVE  \E g : Chained(g, n, S, x, R)
  <1> DEFINE IsChain(m, g) == Chained(g, m, S, x, R)
             T == { m \in 0..n : \E g : IsChain(m, g) }
  <1>1. 0 \in T
    <2> DEFINE g == [ i \in 0..0 |-> x ]
    <2>1. g \in [ 0..0 -> S ] /\ g[0] = x /\ 1..0 = {}
      OBVIOUS
    <2> HIDE DEF g
    <2>2. IsChain(0, g)
      BY <2>1 DEF Chained
    <2> QED
      BY <2>2
  <1>2. ASSUME NEW m \in 1..n, m - 1 \in T
        PROVE  m \in T
    <2>1. PICK g : IsChain(m - 1, g)
      BY <1>2
    <2> USE DEF Chained
    <2> DEFINE h == [ i \in 0..m |-> IF i = m THEN R[<< g[m - 1], m >>] ELSE g[i] ]
    <2>2. g[m - 1] \in S /\ R[<< g[m - 1], m >>] \in S
      BY <2>1
    <2>3. h \in [ 0..m -> S ]
      BY <2>1, <2>2
    <2>4. h[0] = x
      <3>1. 0 \in 0..m /\ 0 # m /\ g[0] = x
        BY <2>1
      <3> QED
        BY <3>1
    <2>5. \A i \in 1..m : h[i] = R[<< h[i - 1], i >>]
      BY <2>1
    <2> HIDE DEF h
    <2>6. IsChain(m, h)
      BY <2>3, <2>4, <2>5
    <2> QED
      BY <2>6
  <1> HIDE DEF T
  <1>3. n \in T
    BY <1>1, <1>2, Upwards
  <1> QED
    BY <1>3 DEF T

(* Downwards. *)
LEMMA Downwards ==
    ASSUME NEW n \in Nat, NEW T, n + 1 \in T, \A i \in 1..n : i + 1 \in T => i \in T
    PROVE  1..(n + 1) \subseteq T
  <1> DEFINE U == { i \in 0..n : n + 1 - i \in T }
  <1>1. 0 \in U
    <2>1. n + 1 - 0 = n + 1 /\ 0 \in 0..n
      OBVIOUS
    <2> QED
      BY <2>1
  <1>2. ASSUME NEW i \in 1..n, i - 1 \in U PROVE i \in U
    <2>1. n + 1 - (i - 1) \in T
      BY <1>2
    <2>2. n + 1 - i \in 1..n /\ n + 1 - (i - 1) = (n + 1 - i) + 1 /\ i \in 0..n
      OBVIOUS
    <2>3. n + 1 - i \in T
      BY <2>1, <2>2
    <2> QED
      BY <2>2, <2>3
  <1> HIDE DEF U
  <1>3. 0..n \subseteq U
    BY <1>1, <1>2, Upwards
  <1>4. ASSUME NEW k \in 1..(n + 1) PROVE k \in T
    <2>1. n + 1 - k \in 0..n /\ n + 1 - (n + 1 - k) = k
      OBVIOUS
    <2>2. n + 1 - k \in U
      BY <1>3, <2>1
    <2>3. n + 1 - (n + 1 - k) \in T
      BY <2>2 DEF U
    <2> QED
      BY <2>1, <2>3
  <1> QED
    BY <1>4

ChainedDown(g, n, S, x, R) ==
    g \in [ 1..(n + 1) -> S ] /\ g[n + 1] = x /\ \A i \in 1..n : g[i] = R[<< g[i + 1], i >>]

LEMMA ChainDown ==
    ASSUME NEW n \in Nat, NEW S, NEW x \in S, NEW R \in [ S \X (1..n) -> S ]
    PROVE  \E g : ChainedDown(g, n, S, x, R)
  <1> DEFINE Q == [ p \in S \X (1..n) |-> R[<< p[1], n + 1 - p[2] >>] ]
  <1>1. \A i \in 1..n : n + 1 - i \in 1..n
    OBVIOUS
  <1>2. Q \in [ S \X (1..n) -> S ]
    <2> SUFFICES ASSUME NEW p \in S \X (1..n) PROVE R[<< p[1], n + 1 - p[2] >>] \in S
      OBVIOUS
    <2>1. p[1] \in S /\ p[2] \in 1..n
      OBVIOUS
    <2>2. n + 1 - p[2] \in 1..n
      BY <1>1, <2>1
    <2>3. << p[1], n + 1 - p[2] >> \in S \X (1..n)
      BY <2>1, <2>2
    <2> QED
      BY <2>3
  <1>3. \A v \in S, i \in 1..n : Q[<< v, i >>] = R[<< v, n + 1 - i >>]
    OBVIOUS
  <1> HIDE DEF Q
  <1>4. PICK h : Chained(h, n, S, x, Q)
    BY <1>2, Chain
  <1>5. h \in [ 0..n -> S ] /\ h[0] = x /\ \A i \in 1..n : h[i] = Q[<< h[i - 1], i >>]
    BY <1>4 DEF Chained
  <1> DEFINE g == [ i \in 1..(n + 1) |-> h[n + 1 - i] ]
  <1>6. g \in [ 1..(n + 1) -> S ]
    <2>1. \A i \in 1..(n + 1) : n + 1 - i \in 0..n
      OBVIOUS
    <2> QED
      BY <1>5, <2>1
  <1>7. g[n + 1] = x
    <2>1. n + 1 \in 1..(n + 1) /\ n + 1 - (n + 1) = 0
      OBVIOUS
    <2> QED
      BY <1>5, <2>1
  <1>8. ASSUME NEW i \in 1..n PROVE g[i] = R[<< g[i + 1], i >>]
    <2> DEFINE j == n + 1 - i
    <2>1. /\ j \in 1..n /\ i \in 1..(n + 1) /\ i + 1 \in 1..(n + 1)
          /\ n + 1 - (i + 1) = j - 1 /\ n + 1 - j = i /\ j - 1 \in 0..n
      OBVIOUS
    <2>2. g[i] = h[j] /\ g[i + 1] = h[j - 1]
      BY <2>1
    <2> HIDE DEF g, j
    <2>3. h[j] = Q[<< h[j - 1], j >>] /\ h[j - 1] \in S
      BY <1>5, <2>1
    <2>4. Q[<< h[j - 1], j >>] = R[<< h[j - 1], n + 1 - j >>]
      BY <1>3, <2>1, <2>3
    <2> QED
      BY <2>1, <2>2, <2>3, <2>4
  <1> HIDE DEF g
  <1> QED
    BY <1>6, <1>7, <1>8 DEF ChainedDown

----------------------------------------------------------------------------
(* Sums.                                                                    *)

(* The units of one number, under one name, are as many as the number says. *)
LEMMA ColumnSize ==
    ASSUME NEW x, NEW m \in Nat
    PROVE  IsFiniteSet({x} \X (1..m)) /\ Cardinality({x} \X (1..m)) = m
  <1>1. IsFiniteSet({x}) /\ Cardinality({x}) = 1
    BY FS_Singleton
  <1>2. IsFiniteSet(1..m) /\ Cardinality(1..m) = m
    BY FS_Interval
  <1>3. /\ IsFiniteSet({x} \X (1..m))
        /\ Cardinality({x} \X (1..m)) = Cardinality({x}) * Cardinality(1..m)
    BY <1>1, <1>2, FS_Product, Zenon
  <1>4. 1 * m = m
    OBVIOUS
  <1> QED
    BY <1>1, <1>2, <1>3, <1>4, Zenon

(* Adding up the rows of a table gives a number. *)
LEMMA TotalFinite ==
    ASSUME NEW n \in Nat, NEW amounts \in [ 1..n -> Nat ]
    PROVE  IsFiniteSet(Tally(amounts)) /\ Total(amounts) \in Nat
  <1> DEFINE columns == { {b} \X (1..amounts[b]) : b \in DOMAIN amounts }
             f == [ b \in 1..n |-> {b} \X (1..amounts[b]) ]
  <1>1. IsFiniteSet(1..n)
    BY FS_Interval
  <1>2. f \in Surjection(1..n, columns)
    BY DEF Surjection
  <1>3. IsFiniteSet(columns)
    BY <1>1, <1>2, FS_Surjection
  <1>4. \A c \in columns : IsFiniteSet(c)
    <2> SUFFICES ASSUME NEW b \in 1..n PROVE IsFiniteSet({b} \X (1..amounts[b]))
      OBVIOUS
    <2>1. amounts[b] \in Nat
      OBVIOUS
    <2> QED
      BY <2>1, ColumnSize, Zenon
  <1>5. IsFiniteSet(UNION columns)
    BY <1>3, <1>4, FS_UNION
  <1> QED
    BY <1>5, FS_CardinalityType DEF Tally, Total

(* Two functions that agree but for the numbers of b, which the first does  *)
(* not have: their sums differ by that number.                              *)
LEMMA TotalWithout ==
    ASSUME NEW n \in Nat, NEW fewer \in [ 1..n -> Nat ],
           NEW m \in Nat, NEW more \in [ 1..m -> Nat ], n <= m,
           NEW b \in 1..m, b \in 1..n => fewer[b] = 0,
           \A c \in (1..m) \ {b} : c \in 1..n /\ more[c] = fewer[c]
    PROVE  Total(more) = Total(fewer) + more[b]
  <1> DEFINE column == {b} \X (1..more[b])
  <1>1. Tally(more) = Tally(fewer) \cup column
    BY DEF Tally
  <1>2. Tally(fewer) \cap column = {}
    BY DEF Tally
  <1>3. IsFiniteSet(Tally(fewer)) /\ IsFiniteSet(column) /\ Cardinality(column) = more[b]
    BY TotalFinite, ColumnSize
  <1>4. Cardinality(Tally(fewer) \cup column) =
            Cardinality(Tally(fewer)) + Cardinality(column) - Cardinality({})
    BY <1>2, <1>3, FS_Union
  <1> QED
    BY <1>1, <1>3, <1>4, FS_EmptySet, TotalFinite DEF Total

(* One number more at the end. *)
LEMMA TotalExtended ==
    ASSUME NEW n \in Nat, NEW fewer \in [ 1..n -> Nat ], NEW more \in [ 1..(n + 1) -> Nat ],
           \A c \in 1..n : more[c] = fewer[c]
    PROVE  Total(more) = Total(fewer) + more[n + 1]
  <1>1. /\ n + 1 \in Nat /\ n <= n + 1 /\ n + 1 \in 1..(n + 1)
        /\ n + 1 \in 1..n => fewer[n + 1] = 0
        /\ \A c \in (1..(n + 1)) \ {n + 1} : c \in 1..n /\ more[c] = fewer[c]
    OBVIOUS
  <1> QED
    BY <1>1, TotalWithout

(* One number taken out. *)
LEMMA TotalZeroed ==
    ASSUME NEW n \in Nat, NEW fewer \in [ 1..n -> Nat ], NEW more \in [ 1..n -> Nat ],
           NEW b \in 1..n, fewer[b] = 0, \A c \in (1..n) \ {b} : more[c] = fewer[c]
    PROVE  Total(more) = Total(fewer) + more[b]
  <1>1. n <= n /\ (b \in 1..n => fewer[b] = 0)
    OBVIOUS
  <1>2. \A c \in (1..n) \ {b} : c \in 1..n /\ more[c] = fewer[c]
    OBVIOUS
  <1> QED
    BY <1>1, <1>2, TotalWithout, Zenon

(* Nothing after b. *)
LEMMA TotalUpTo ==
    ASSUME NEW n \in Nat, NEW amounts \in [ 1..n -> Nat ], NEW b \in 1..n,
           \A c \in 1..n : c > b => amounts[c] = 0,
           NEW prefix \in [ 1..(b - 1) -> Nat ], \A c \in 1..(b - 1) : prefix[c] = amounts[c]
    PROVE  /\ Total(amounts) = Total(prefix) + amounts[b]
           /\ Total(prefix) \in Nat
  <1> DEFINE column == {b} \X (1..amounts[b])
  <1>1. Tally(amounts) = Tally(prefix) \cup column
    BY DEF Tally
  <1>2. Tally(prefix) \cap column = {}
    BY DEF Tally
  <1>3. b - 1 \in Nat /\ amounts[b] \in Nat
    OBVIOUS
  <1>4. IsFiniteSet(Tally(prefix)) /\ Total(prefix) \in Nat
    BY <1>3, TotalFinite
  <1>5. IsFiniteSet(column) /\ Cardinality(column) = amounts[b]
    BY <1>3, ColumnSize
  <1>6. Cardinality(Tally(prefix) \cup column) =
            Cardinality(Tally(prefix)) + Cardinality(column) - Cardinality({})
    BY <1>2, <1>4, <1>5, FS_Union
  <1> QED
    BY <1>1, <1>3, <1>4, <1>5, <1>6, FS_EmptySet DEF Total

(* The sum over a table of one row. *)
LEMMA TotalOfOne ==
    ASSUME NEW amounts \in [ 1..1 -> Nat ]
    PROVE  Total(amounts) = amounts[1]
  <1>1. Tally(amounts) = {1} \X (1..amounts[1])
    BY DEF Tally
  <1>2. amounts[1] \in Nat
    OBVIOUS
  <1> QED
    BY <1>1, <1>2, ColumnSize DEF Total
=============================================================================
