------------------------ MODULE ImportHistoryProofs ------------------------
(***************************************************************************)
(* The invariants of ImportHistory, for every value of its constants.      *)
(***************************************************************************)
EXTENDS ImportHistory, AmountsProofs, SequenceTheorems

----------------------------------------------------------------------------
(* Types.                                                                   *)

(* What an import clears and pours are quantities, and it clears no more than there is. *)
LEMMA RowTypes ==
    ASSUME TypeOK, NEW location \in Locations, NEW sheet \in Sheets, NEW clears \in BOOLEAN,
           NEW overrides \in [ Qualities -> Nullable(Locations) ]
    PROVE  /\ ClearedBy(location, sheet, clears) \in [ Key -> Nat ]
           /\ PouredBy(location, sheet, overrides) \in [ Key -> Nat ]
           /\ \A k \in Key : ClearedBy(location, sheet, clears)[k] <= onHand[k] \/
                             ClearedBy(location, sheet, clears)[k] = 0
  BY ImportHistoryConstants DEF TypeOK, ClearedBy, PouredBy, Key

(* Overrides say for each quality where its rows go, or nothing. *)
LEMMA OverridesType ==
    \A overrides \in Overrides \cup {NoOverrides} : overrides \in [ Qualities -> Nullable(Locations) ]
  BY ImportHistoryConstants DEF NoOverrides, Nullable

(* The batch that an import adds. *)
Added(location, sheet, overrides, clears) ==
    [ location |-> location, clears |-> clears, status |-> "applied", hidden |-> FALSE, active |-> TRUE,
      cleared |-> ClearedBy(location, sheet, clears), poured |-> PouredBy(location, sheet, overrides) ]

(* What an import enters in the history is a batch. *)
LEMMA AddedType ==
    ASSUME TypeOK, NEW location \in Locations, NEW sheet \in Sheets, NEW clears \in BOOLEAN,
           NEW overrides \in [ Qualities -> Nullable(Locations) ]
    PROVE  Added(location, sheet, overrides, clears) \in Batch
  BY RowTypes DEF Added, Batch, Nullable

(* A batch of the history has a batch's type. *)
LEMMA BatchType ==
    ASSUME TypeOK
    PROVE  /\ Len(batches) \in Nat /\ DOMAIN batches = 1..Len(batches)
           /\ \A b \in DOMAIN batches : batches[b] \in Batch
  BY LenProperties, ElementOfSeq DEF TypeOK

(* A history starts well-typed. *)
LEMMA TypeInit == Init => TypeOK
  <1> SUFFICES ASSUME NEW active \in BOOLEAN, NEW place \in Moved,
                      LET rows == [ Nothing EXCEPT ![place] = 1 ] IN
                      /\ outside = Nothing /\ before = << Nothing >>
                      /\ batches = << Legacy(rows, active) >>
                      /\ onHand = IF active THEN rows ELSE Nothing
               PROVE  TypeOK
    BY DEF Init
  <1>1. Nothing \in [ Key -> Nat ] /\ [ Nothing EXCEPT ![place] = 1 ] \in [ Key -> Nat ]
    BY DEF Nothing
  <1>2. Legacy([ Nothing EXCEPT ![place] = 1 ], active) \in Batch
    BY <1>1 DEF Legacy, Batch, Nullable
  <1>3. onHand \in [ Key -> Int ] /\ outside \in [ Key -> Int ]
    BY <1>1
  <1>4. batches \in Seq(Batch) /\ Len(batches) = 1
    BY <1>2
  <1>5. before \in Seq([ Key -> Int ]) /\ Len(before) = 1
    BY <1>1
  <1> QED
    BY <1>3, <1>4, <1>5 DEF TypeOK

(* Imports, rollbacks, reversals and other movements keep it so. *)
LEMMA TypeStep == TypeOK /\ [Next]_vars => TypeOK'
  <1> SUFFICES ASSUME TypeOK, [Next]_vars PROVE TypeOK'
    OBVIOUS
  <1>1. ASSUME NEW location \in Locations, NEW sheet \in Sheets,
               NEW overrides \in Overrides \cup {NoOverrides}, NEW clears \in BOOLEAN,
               Import(location, sheet, overrides, clears)
        PROVE  TypeOK'
    <2> DEFINE cleared == ClearedBy(location, sheet, clears)
               poured == PouredBy(location, sheet, overrides)
    <2>1. overrides \in [ Qualities -> Nullable(Locations) ]
      BY OverridesType
    <2>2. cleared \in [ Key -> Nat ] /\ poured \in [ Key -> Nat ]
      BY <2>1, RowTypes
    <2>3. Added(location, sheet, overrides, clears) \in Batch
      BY <2>1, AddedType
    <2>4. batches' = Append(batches, Added(location, sheet, overrides, clears))
      BY <1>1 DEF Import, Added
    <2>5. batches' \in Seq(Batch) /\ Len(batches') = Len(batches) + 1
      BY <2>3, <2>4, AppendProperties DEF TypeOK
    <2>6. onHand' = [ k \in Key |-> onHand[k] - cleared[k] + poured[k] ] /\ outside' = outside
      BY <1>1 DEF Import
    <2>7. onHand' \in [ Key -> Int ] /\ outside' \in [ Key -> Int ]
      BY <2>2, <2>6 DEF TypeOK
    <2>8. before' = Append(before, [ k \in Key |-> onHand[k] - outside[k] ])
      BY <1>1 DEF Import
    <2>9. [ k \in Key |-> onHand[k] - outside[k] ] \in [ Key -> Int ]
      BY DEF TypeOK
    <2>10. before' \in Seq([ Key -> Int ]) /\ Len(before') = Len(before) + 1
      BY <2>8, <2>9, AppendProperties DEF TypeOK
    <2> QED
      BY <2>5, <2>7, <2>10 DEF TypeOK
  <1>2. ASSUME NEW b \in DOMAIN batches, RollBack(b) \/ ReverseFromJournal(b) \/ Hide(b)
        PROVE  TypeOK'
    <2>1. batches[b] \in Batch /\ b \in 1..Len(batches)
      BY BatchType
    <2>2. \E new \in Batch : batches' = [ batches EXCEPT ![b] = new ]
      <3>1. CASE RollBack(b)
        <4>1. [ batches[b] EXCEPT !.active = FALSE, !.status = "rolled_back" ] \in Batch
          BY <2>1 DEF Batch
        <4> QED
          BY <3>1, <4>1 DEF RollBack
      <3>2. CASE ReverseFromJournal(b)
        <4>1. [ batches[b] EXCEPT !.active = FALSE ] \in Batch
          BY <2>1 DEF Batch
        <4> QED
          BY <3>2, <4>1 DEF ReverseFromJournal
      <3>3. CASE Hide(b)
        <4>1. [ batches[b] EXCEPT !.hidden = TRUE ] \in Batch
          BY <2>1 DEF Batch
        <4> QED
          BY <3>3, <4>1 DEF Hide
      <3> QED
        BY <1>2, <3>1, <3>2, <3>3
    <2>3. batches' \in Seq(Batch) /\ Len(batches') = Len(batches)
      BY <2>1, <2>2, ExceptSeq DEF TypeOK
    <2>4. Compensated(batches[b]) \in [ Key -> Int ]
      BY <2>1 DEF TypeOK, Compensated, Batch
    <2>5. onHand' \in [ Key -> Int ]
      BY <1>2, <2>4 DEF TypeOK, RollBack, ReverseFromJournal, Hide
    <2>6. UNCHANGED << outside, before >>
      BY <1>2 DEF RollBack, ReverseFromJournal, Hide
    <2> QED
      BY <2>3, <2>5, <2>6 DEF TypeOK
  <1>3. ASSUME NEW k \in Moved, NEW quantity \in Quantities, Withdraw(k, quantity) \/ Receive(k, quantity)
        PROVE  TypeOK'
    BY <1>3, ImportHistoryConstants DEF TypeOK, Withdraw, Receive, Key
  <1>4. CASE UNCHANGED vars
    BY <1>4 DEF vars, TypeOK
  <1> QED
    BY <1>1, <1>2, <1>3, <1>4 DEF Next

(* For every set of sections, files and other movements the history holds   *)
(* well-typed batches, and every balance is an integer.                     *)
THEOREM TypeCorrect == Spec => []TypeOK
  BY TypeInit, TypeStep, PTL DEF Spec

----------------------------------------------------------------------------
(* Balances and batches in force.                                           *)

(* The sums of what the batches in force did are numbers. *)
LEMMA InForceTypes ==
    ASSUME TypeOK, NEW k \in Key
    PROVE  /\ PouredInForce(k) \in [ 1..Len(batches) -> Nat ]
           /\ ClearedInForce(k) \in [ 1..Len(batches) -> Nat ]
           /\ Total(PouredInForce(k)) \in Nat /\ Total(ClearedInForce(k)) \in Nat
           /\ onHand[k] \in Int /\ outside[k] \in Int
  <1>1. /\ PouredInForce(k) \in [ 1..Len(batches) -> Nat ]
        /\ ClearedInForce(k) \in [ 1..Len(batches) -> Nat ]
    BY BatchType DEF PouredInForce, ClearedInForce, InForce, Batch
  <1> QED
    BY <1>1, BatchType, TotalFinite DEF TypeOK

(* An import adds its rows to what is in force. *)
LEMMA ImportAdds ==
    ASSUME TypeOK, TypeOK', NEW new \in Batch, batches' = Append(batches, new), ~RolledBack(new),
           NEW k \in Key
    PROVE  /\ Total(PouredInForce(k))' = Total(PouredInForce(k)) + new.poured[k]
           /\ Total(ClearedInForce(k))' = Total(ClearedInForce(k)) + new.cleared[k]
  <1> DEFINE n == Len(batches)
  <1>1. /\ n \in Nat /\ Len(batches') = n + 1 /\ DOMAIN batches' = 1..(n + 1)
        /\ DOMAIN batches = 1..n
        /\ batches'[n + 1] = new /\ \A c \in 1..n : batches'[c] = batches[c]
    BY AppendProperties, LenProperties DEF TypeOK
  <1>2. /\ PouredInForce(k) \in [ 1..n -> Nat ] /\ PouredInForce(k)' \in [ 1..(n + 1) -> Nat ]
        /\ ClearedInForce(k) \in [ 1..n -> Nat ] /\ ClearedInForce(k)' \in [ 1..(n + 1) -> Nat ]
    <2>1. \A c \in 1..(n + 1) : batches'[c] \in Batch
      BY <1>1, ElementOfSeq DEF TypeOK
    <2>2. \A c \in 1..(n + 1) : batches'[c].poured[k] \in Nat /\ batches'[c].cleared[k] \in Nat
      BY <2>1 DEF Batch
    <2>3. PouredInForce(k)' \in [ 1..(n + 1) -> Nat ] /\ ClearedInForce(k)' \in [ 1..(n + 1) -> Nat ]
      BY <1>1, <2>2 DEF PouredInForce, ClearedInForce, InForce
    <2>4. PouredInForce(k) \in [ 1..n -> Nat ] /\ ClearedInForce(k) \in [ 1..n -> Nat ]
      BY InForceTypes
    <2> QED
      BY <2>3, <2>4
  <1>3. /\ PouredInForce(k)'[n + 1] = new.poured[k] /\ ClearedInForce(k)'[n + 1] = new.cleared[k]
        /\ \A c \in 1..n : PouredInForce(k)'[c] = PouredInForce(k)[c]
        /\ \A c \in 1..n : ClearedInForce(k)'[c] = ClearedInForce(k)[c]
    BY <1>1 DEF PouredInForce, ClearedInForce, InForce
  <1> HIDE DEF n
  <1>4. Total(PouredInForce(k)') = Total(PouredInForce(k)) + PouredInForce(k)'[n + 1]
    BY <1>1, <1>2, <1>3, TotalExtended
  <1>5. Total(ClearedInForce(k)') = Total(ClearedInForce(k)) + ClearedInForce(k)'[n + 1]
    BY <1>1, <1>2, <1>3, TotalExtended
  <1>6. /\ Total(PouredInForce(k))' = Total(PouredInForce(k)')
        /\ Total(ClearedInForce(k))' = Total(ClearedInForce(k)')
    BY DEF Total, Tally
  <1> QED
    BY <1>3, <1>4, <1>5, <1>6

(* A batch that is no longer in force takes its rows out. *)
LEMMA UndoneTakesOut ==
    ASSUME TypeOK, TypeOK', NEW b \in DOMAIN batches, ~RolledBack(batches[b]),
           DOMAIN batches' = DOMAIN batches, RolledBack(batches[b])',
           \A c \in DOMAIN batches \ {b} : batches'[c] = batches[c],
           NEW k \in Key
    PROVE  /\ Total(PouredInForce(k))' \in Nat /\ Total(ClearedInForce(k))' \in Nat
           /\ Total(PouredInForce(k)) = Total(PouredInForce(k))' + batches[b].poured[k]
           /\ Total(ClearedInForce(k)) = Total(ClearedInForce(k))' + batches[b].cleared[k]
  <1> DEFINE n == Len(batches)
  <1>1. /\ n \in Nat /\ b \in 1..n /\ DOMAIN batches = 1..n /\ DOMAIN batches' = 1..n
        /\ \A c \in (1..n) \ {b} : batches'[c] = batches[c]
    BY BatchType
  <1>2. /\ PouredInForce(k) \in [ 1..n -> Nat ] /\ PouredInForce(k)' \in [ 1..n -> Nat ]
        /\ ClearedInForce(k) \in [ 1..n -> Nat ] /\ ClearedInForce(k)' \in [ 1..n -> Nat ]
    <2>1. \A c \in 1..n : batches'[c] \in Batch
      BY <1>1, LenProperties, ElementOfSeq DEF TypeOK
    <2>2. \A c \in 1..n : batches'[c].poured[k] \in Nat /\ batches'[c].cleared[k] \in Nat
      BY <2>1 DEF Batch
    <2>3. PouredInForce(k)' \in [ 1..n -> Nat ] /\ ClearedInForce(k)' \in [ 1..n -> Nat ]
      BY <1>1, <2>2 DEF PouredInForce, ClearedInForce, InForce
    <2>4. PouredInForce(k) \in [ 1..n -> Nat ] /\ ClearedInForce(k) \in [ 1..n -> Nat ]
      BY InForceTypes
    <2> QED
      BY <2>3, <2>4
  <1>3. /\ PouredInForce(k)'[b] = 0 /\ PouredInForce(k)[b] = batches[b].poured[k]
        /\ ClearedInForce(k)'[b] = 0 /\ ClearedInForce(k)[b] = batches[b].cleared[k]
        /\ \A c \in (1..n) \ {b} : PouredInForce(k)[c] = PouredInForce(k)'[c]
        /\ \A c \in (1..n) \ {b} : ClearedInForce(k)[c] = ClearedInForce(k)'[c]
    BY <1>1 DEF PouredInForce, ClearedInForce, InForce
  <1> HIDE DEF n
  <1>5. Total(PouredInForce(k)) = Total(PouredInForce(k)') + PouredInForce(k)[b]
    BY <1>1, <1>2, <1>3, TotalZeroed
  <1>6. Total(ClearedInForce(k)) = Total(ClearedInForce(k)') + ClearedInForce(k)[b]
    BY <1>1, <1>2, <1>3, TotalZeroed
  <1>7. /\ Total(PouredInForce(k))' = Total(PouredInForce(k)')
        /\ Total(ClearedInForce(k))' = Total(ClearedInForce(k)')
    BY DEF Total, Tally
  <1>8. Total(PouredInForce(k)') \in Nat /\ Total(ClearedInForce(k)') \in Nat
    BY <1>1, <1>2, TotalFinite
  <1> QED
    BY <1>3, <1>5, <1>6, <1>7, <1>8

(* What is inductive: the types, the balances by their imports, and that no *)
(* balance is negative, without which a clearing could not be told from a   *)
(* balance that has nothing to clear.                                       *)
HistoryInv == TypeOK /\ StockIsOfImportsInForce /\ NothingNegative

(* At first there are no batches and the stock is what it was. *)
LEMMA HistoryInvInit == Init => HistoryInv
  <1> SUFFICES ASSUME NEW active \in BOOLEAN, NEW place \in Moved,
                      LET rows == [ Nothing EXCEPT ![place] = 1 ] IN
                      /\ outside = Nothing /\ before = << Nothing >>
                      /\ batches = << Legacy(rows, active) >>
                      /\ onHand = IF active THEN rows ELSE Nothing,
                      TypeOK
               PROVE  StockIsOfImportsInForce /\ NothingNegative
    BY TypeInit DEF Init, HistoryInv
  <1> DEFINE rows == [ Nothing EXCEPT ![place] = 1 ]
  <1>1. place \in Key /\ rows \in [ Key -> Nat ] /\ Nothing \in [ Key -> Nat ]
    BY ImportHistoryConstants DEF Nothing, Key
  <1>2. NothingNegative
    BY <1>1 DEF NothingNegative, Nothing
  <1>3. ASSUME NEW k \in Key
        PROVE  onHand[k] = outside[k] + Total(PouredInForce(k)) - Total(ClearedInForce(k))
    <2>1. DOMAIN batches = 1..1 /\ Len(batches) = 1
      OBVIOUS
    <2>2. /\ batches[1].poured[k] = rows[k] /\ batches[1].cleared[k] = 0
          /\ RolledBack(batches[1]) <=> ~active
      BY DEF Legacy, Nothing, RolledBack
    <2>3. /\ PouredInForce(k) \in [ 1..1 -> Nat ] /\ ClearedInForce(k) \in [ 1..1 -> Nat ]
      BY <2>1, InForceTypes
    <2>4. /\ PouredInForce(k)[1] = IF active THEN rows[k] ELSE 0
          /\ ClearedInForce(k)[1] = 0
      BY <2>1, <2>2 DEF PouredInForce, ClearedInForce, InForce
    <2>5. /\ Total(PouredInForce(k)) = PouredInForce(k)[1]
          /\ Total(ClearedInForce(k)) = ClearedInForce(k)[1]
      BY <2>3, TotalOfOne
    <2> QED
      BY <1>1, <2>4, <2>5 DEF Nothing
  <1> QED
    BY <1>2, <1>3 DEF StockIsOfImportsInForce

(* An import moves the stock by what its own batch records. *)
LEMMA InvImport ==
    ASSUME HistoryInv, TypeOK',
           NEW location \in Locations, NEW sheet \in Sheets,
           NEW overrides \in Overrides \cup {NoOverrides}, NEW clears \in BOOLEAN,
           Import(location, sheet, overrides, clears)
    PROVE  StockIsOfImportsInForce' /\ NothingNegative'
  <1> DEFINE cleared == ClearedBy(location, sheet, clears)
             poured == PouredBy(location, sheet, overrides)
             new == Added(location, sheet, overrides, clears)
  <1>1. overrides \in [ Qualities -> Nullable(Locations) ] /\ TypeOK
    BY OverridesType DEF HistoryInv
  <1>2. /\ cleared \in [ Key -> Nat ] /\ poured \in [ Key -> Nat ]
        /\ \A k \in Key : cleared[k] <= onHand[k] \/ cleared[k] = 0
    BY <1>1, RowTypes
  <1>3. new \in Batch /\ ~RolledBack(new)
    BY <1>1, AddedType DEF Added, RolledBack
  <1>4. /\ batches' = Append(batches, new) /\ outside' = outside
        /\ onHand' = [ k \in Key |-> onHand[k] - cleared[k] + poured[k] ]
    BY <1>1 DEF Import, Added
  <1>5. new.cleared = cleared /\ new.poured = poured
    BY DEF Added
  <1> HIDE DEF cleared, poured, new
  <1>6. ASSUME NEW k \in Key
        PROVE  /\ onHand'[k] = outside'[k] + Total(PouredInForce(k))' - Total(ClearedInForce(k))'
               /\ onHand'[k] >= 0
    <2>1. /\ Total(PouredInForce(k))' = Total(PouredInForce(k)) + poured[k]
          /\ Total(ClearedInForce(k))' = Total(ClearedInForce(k)) + cleared[k]
      BY <1>1, <1>3, <1>4, <1>5, ImportAdds
    <2>2. /\ onHand[k] = outside[k] + Total(PouredInForce(k)) - Total(ClearedInForce(k))
          /\ onHand[k] >= 0
      BY DEF HistoryInv, StockIsOfImportsInForce, NothingNegative
    <2>3. /\ Total(PouredInForce(k)) \in Nat /\ Total(ClearedInForce(k)) \in Nat
          /\ onHand[k] \in Int /\ outside[k] \in Int
      BY <1>1, InForceTypes
    <2>4. /\ onHand'[k] = onHand[k] - cleared[k] + poured[k] /\ outside'[k] = outside[k]
          /\ cleared[k] \in Nat /\ poured[k] \in Nat
          /\ cleared[k] <= onHand[k] \/ cleared[k] = 0
      BY <1>2, <1>4
    <2> QED
      BY <2>1, <2>2, <2>3, <2>4
  <1> QED
    BY <1>6 DEF StockIsOfImportsInForce, NothingNegative

(* Both ways of taking an import back. *)
LEMMA InvReversal ==
    ASSUME HistoryInv, TypeOK', NEW b \in DOMAIN batches, ~RolledBack(batches[b]),
           Covered(batches[b]), onHand' = Compensated(batches[b]), outside' = outside,
           DOMAIN batches' = DOMAIN batches, RolledBack(batches[b])',
           \A c \in DOMAIN batches \ {b} : batches'[c] = batches[c]
    PROVE  StockIsOfImportsInForce' /\ NothingNegative'
  <1>1. TypeOK /\ batches[b] \in Batch
    BY BatchType DEF HistoryInv
  <1>2. ASSUME NEW k \in Key
        PROVE  /\ onHand'[k] = outside'[k] + Total(PouredInForce(k))' - Total(ClearedInForce(k))'
               /\ onHand'[k] >= 0
    <2>1. /\ Total(PouredInForce(k))' \in Nat /\ Total(ClearedInForce(k))' \in Nat
          /\ Total(PouredInForce(k)) = Total(PouredInForce(k))' + batches[b].poured[k]
          /\ Total(ClearedInForce(k)) = Total(ClearedInForce(k))' + batches[b].cleared[k]
      BY <1>1, UndoneTakesOut
    <2>2. /\ onHand[k] = outside[k] + Total(PouredInForce(k)) - Total(ClearedInForce(k))
          /\ onHand[k] >= 0
      BY DEF HistoryInv, StockIsOfImportsInForce, NothingNegative
    <2>3. /\ onHand[k] \in Int /\ outside[k] \in Int
          /\ batches[b].poured[k] \in Nat /\ batches[b].cleared[k] \in Nat
      BY <1>1, InForceTypes DEF Batch
    <2>4. /\ onHand'[k] = onHand[k] - batches[b].poured[k] + batches[b].cleared[k]
          /\ batches[b].poured[k] > 0 => onHand[k] >= batches[b].poured[k]
      BY DEF Compensated, Covered
    <2> QED
      BY <2>1, <2>2, <2>3, <2>4
  <1> QED
    BY <1>2 DEF StockIsOfImportsInForce, NothingNegative

(* Every step keeps the stock that of the batches in force. *)
LEMMA HistoryInvStep == HistoryInv /\ [Next]_vars => HistoryInv'
  <1> SUFFICES ASSUME HistoryInv, [Next]_vars, TypeOK'
               PROVE  StockIsOfImportsInForce' /\ NothingNegative'
    BY TypeStep DEF HistoryInv
  <1>1. CASE \E location \in Locations, sheet \in Sheets,
                overrides \in Overrides \cup {NoOverrides}, clears \in BOOLEAN :
                Import(location, sheet, overrides, clears)
    BY <1>1, InvImport
  <1>2. ASSUME NEW b \in DOMAIN batches, RollBack(b)
        PROVE  StockIsOfImportsInForce' /\ NothingNegative'
    <2>1. /\ ~RolledBack(batches[b]) /\ Covered(batches[b])
          /\ onHand' = Compensated(batches[b]) /\ outside' = outside
      BY <1>2 DEF RollBack, RollbackAllowed, NotBlocked
    <2>2. /\ DOMAIN batches' = DOMAIN batches /\ RolledBack(batches[b])'
          /\ \A c \in DOMAIN batches \ {b} : batches'[c] = batches[c]
      BY <1>2, BatchType DEF RollBack, RolledBack, HistoryInv, Batch
    <2> QED
      BY <2>1, <2>2, InvReversal
  <1>3. ASSUME NEW b \in DOMAIN batches, ReverseFromJournal(b)
        PROVE  StockIsOfImportsInForce' /\ NothingNegative'
    <2>1. /\ ~RolledBack(batches[b]) /\ Covered(batches[b])
          /\ onHand' = Compensated(batches[b]) /\ outside' = outside
      BY <1>3 DEF ReverseFromJournal, NotBlocked
    <2>2. /\ DOMAIN batches' = DOMAIN batches /\ RolledBack(batches[b])'
          /\ \A c \in DOMAIN batches \ {b} : batches'[c] = batches[c]
      BY <1>3, BatchType DEF ReverseFromJournal, RolledBack, HistoryInv, Batch
    <2> QED
      BY <2>1, <2>2, InvReversal
  <1>4. ASSUME NEW b \in DOMAIN batches, Hide(b)
        PROVE  StockIsOfImportsInForce' /\ NothingNegative'
    <2>1. onHand' = onHand /\ outside' = outside /\ DOMAIN batches' = DOMAIN batches
      BY <1>4 DEF Hide
    <2>2. \A c \in DOMAIN batches : /\ batches'[c].poured = batches[c].poured
                                    /\ batches'[c].cleared = batches[c].cleared
                                    /\ RolledBack(batches[c])' = RolledBack(batches[c])
      BY <1>4, BatchType DEF Hide, RolledBack, HistoryInv, Batch
    <2>3. ASSUME NEW k \in Key
          PROVE  PouredInForce(k)' = PouredInForce(k) /\ ClearedInForce(k)' = ClearedInForce(k)
      BY <2>1, <2>2 DEF PouredInForce, ClearedInForce, InForce
    <2> QED
      BY <2>1, <2>3 DEF HistoryInv, StockIsOfImportsInForce, NothingNegative, Total, Tally
  <1>5. ASSUME NEW place \in Moved, NEW quantity \in Quantities,
               Withdraw(place, quantity) \/ Receive(place, quantity)
        PROVE  StockIsOfImportsInForce' /\ NothingNegative'
    <2>1. /\ batches' = batches /\ place \in Key /\ quantity \in Nat
          /\ onHand \in [ Key -> Int ] /\ outside \in [ Key -> Int ]
      BY <1>5, ImportHistoryConstants DEF Withdraw, Receive, HistoryInv, TypeOK, Key
    <2>2. \A k \in Key : /\ onHand'[k] - onHand[k] = outside'[k] - outside[k]
                         /\ onHand[k] >= 0 => onHand'[k] >= 0
                         /\ onHand'[k] \in Int /\ outside'[k] \in Int
      BY <1>5, <2>1 DEF Withdraw, Receive
    <2>3. ASSUME NEW k \in Key
          PROVE  /\ Total(PouredInForce(k))' = Total(PouredInForce(k))
                 /\ Total(ClearedInForce(k))' = Total(ClearedInForce(k))
                 /\ Total(PouredInForce(k)) \in Nat /\ Total(ClearedInForce(k)) \in Nat
      <3>1. PouredInForce(k)' = PouredInForce(k) /\ ClearedInForce(k)' = ClearedInForce(k)
        BY <2>1 DEF PouredInForce, ClearedInForce, InForce, RolledBack
      <3> QED
        BY <3>1, InForceTypes DEF HistoryInv, Total, Tally
    <2>4. ASSUME NEW k \in Key
          PROVE  /\ onHand'[k] = outside'[k] + Total(PouredInForce(k))' - Total(ClearedInForce(k))'
                 /\ onHand'[k] >= 0
      <3>1. /\ onHand[k] = outside[k] + Total(PouredInForce(k)) - Total(ClearedInForce(k))
            /\ onHand[k] >= 0
        BY DEF HistoryInv, StockIsOfImportsInForce, NothingNegative
      <3>2. onHand[k] \in Int /\ outside[k] \in Int
        BY <2>1
      <3> QED
        BY <2>2, <2>3, <3>1, <3>2
    <2> QED
      BY <2>4 DEF StockIsOfImportsInForce, NothingNegative
  <1>6. CASE UNCHANGED vars
    BY <1>6 DEF vars, HistoryInv, StockIsOfImportsInForce, NothingNegative, Total, Tally,
                PouredInForce, ClearedInForce, InForce, RolledBack
  <1> QED
    BY <1>1, <1>2, <1>3, <1>4, <1>5, <1>6 DEF Next

(* In every reachable state, and for any number of imports, every balance   *)
(* is what moved outside of imports plus what the history calls in force,   *)
(* whether a batch was rolled back from the history or from the journal.     *)
THEOREM BalancesOfImports == Spec => []StockIsOfImportsInForce
  <1>1. HistoryInv => StockIsOfImportsInForce
    BY DEF HistoryInv
  <1> QED
    BY <1>1, HistoryInvInit, HistoryInvStep, PTL DEF Spec

(* Rolling back never overdraws a balance, whatever files, overrides and    *)
(* columns sent rows where.                                                 *)
THEOREM NeverOverdrawn == Spec => []NothingNegative
  <1>1. HistoryInv => NothingNegative
    BY DEF HistoryInv
  <1> QED
    BY <1>1, HistoryInvInit, HistoryInvStep, PTL DEF Spec

(* The button of any list and the gate of the server agree on every batch,  *)
(* legacy, hidden and rolled-back ones included.                            *)
THEOREM ButtonCorrect == Spec => []ButtonTellsTheTruth
  <1>1. ASSUME TypeOK PROVE ButtonTellsTheTruth
    <2> SUFFICES ASSUME NEW location \in Nullable(Locations), NEW withHidden \in BOOLEAN,
                        NEW b \in Listed(location, withHidden)
                 PROVE  CanRollback(Listed(location, withHidden), b) <=> RollbackAllowed(b)
      BY DEF ButtonTellsTheTruth
    <2>1. /\ b \in DOMAIN batches
          /\ \A n \in DOMAIN batches : n \in Int /\ batches[n] \in Batch
      BY <1>1, BatchType DEF Listed
    <2>2. \A n \in DOMAIN batches :
              /\ batches[n].status = "applied" \/ batches[n].status = "rolled_back"
              /\ batches[n].active \in BOOLEAN
      BY <2>1 DEF Batch
    <2>3. \A n \in DOMAIN batches :
              (batches[n].location = batches[b].location /\ ~batches[n].hidden)
              => n \in Listed(location, withHidden)
      BY DEF Listed
    <2>4. LastLive(Listed(location, withHidden), b) <=> ~batches[b].hidden /\ ~NewerLive(b)
      BY <2>1, <2>2, <2>3 DEF LastLive, NewerLive, RolledBack, Listed
    <2> QED
      BY <2>4 DEF CanRollback, RollbackAllowed, NotBlocked
  <1> QED
    BY <1>1, TypeCorrect, PTL

----------------------------------------------------------------------------
(* Order.                                                                   *)

PouredBefore(b, k) == [ n \in 1..(b - 1) |-> InForce(n, batches[n].poured[k]) ]
ClearedBefore(b, k) == [ n \in 1..(b - 1) |-> InForce(n, batches[n].cleared[k]) ]

(* A batch that may still be rolled back, at a balance that no import of    *)
(* another section and no hidden batch has touched.                         *)
Own(b, k) ==
    /\ ~RolledBack(batches[b]) /\ ~batches[b].hidden
    /\ k[1] = batches[b].location /\ OwnImportsOnly(b, k)

(* What was there before such a batch is what the earlier ones put there,   *)
(* and none of them has been rolled back since: the order of rollbacks is   *)
(* needed for this.                                                         *)
EarlierStillThere ==
    \A b \in DOMAIN batches, k \in Key :
        Own(b, k) => before[b][k] = Total(PouredBefore(b, k)) - Total(ClearedBefore(b, k))

OrderInv == HistoryInv /\ EarlierStillThere

(* At first there is no batch to be earlier. *)
LEMMA OrderInvInit == Init => EarlierStillThere
  <1> SUFFICES ASSUME Init, NEW b \in DOMAIN batches, NEW k \in Key PROVE ~Own(b, k)
    BY DEF EarlierStillThere
  <1>1. batches[b].location = NULL
    BY DEF Init, Legacy
  <1>2. k[1] \in Locations
    BY DEF Key
  <1> QED
    BY <1>1, <1>2, ImportHistoryConstants DEF Own

(* An import leaves what earlier batches found as it was. *)
LEMMA OrderImport ==
    ASSUME OrderInv, HistoryInv',
           NEW location \in Locations, NEW sheet \in Sheets,
           NEW overrides \in Overrides \cup {NoOverrides}, NEW clears \in BOOLEAN,
           Import(location, sheet, overrides, clears)
    PROVE  EarlierStillThere'
  <1> DEFINE n == Len(batches)
             new == Added(location, sheet, overrides, clears)
  <1>1. TypeOK /\ overrides \in [ Qualities -> Nullable(Locations) ]
    BY OverridesType DEF OrderInv, HistoryInv
  <1>2. new \in Batch /\ batches' = Append(batches, new)
    BY <1>1, AddedType DEF Import, Added
  <1>3. before' = Append(before, [ k \in Key |-> onHand[k] - outside[k] ])
    BY DEF Import
  <1>4. [ k \in Key |-> onHand[k] - outside[k] ] \in [ Key -> Int ]
    BY <1>1 DEF TypeOK
  <1>5. /\ n \in Nat /\ DOMAIN batches = 1..n /\ DOMAIN batches' = 1..(n + 1)
        /\ \A c \in 1..n : batches'[c] = batches[c]
    BY <1>1, <1>2, AppendProperties, LenProperties DEF TypeOK
  <1>6. /\ \A c \in 1..n : before'[c] = before[c]
        /\ before'[n + 1] = [ k \in Key |-> onHand[k] - outside[k] ]
    BY <1>1, <1>3, <1>4, AppendProperties DEF TypeOK
  <1> HIDE DEF n, new
  <1> SUFFICES ASSUME NEW b \in 1..(n + 1), NEW k \in Key, Own(b, k)'
               PROVE  before'[b][k] = Total(PouredBefore(b, k))' - Total(ClearedBefore(b, k))'
    BY <1>5 DEF EarlierStillThere
  <1>7. CASE b \in 1..n
    <2>1. Own(b, k)
      BY <1>5, <1>7 DEF Own, OwnImportsOnly, Touches, RolledBack
    <2>2. /\ PouredBefore(b, k)' = PouredBefore(b, k)
          /\ ClearedBefore(b, k)' = ClearedBefore(b, k)
      BY <1>5, <1>7 DEF PouredBefore, ClearedBefore, InForce, RolledBack
    <2>3. before[b][k] = Total(PouredBefore(b, k)) - Total(ClearedBefore(b, k))
      BY <1>5, <1>7, <2>1 DEF OrderInv, EarlierStillThere
    <2> QED
      BY <1>6, <1>7, <2>2, <2>3 DEF Total, Tally
  <1>8. CASE b = n + 1
    <2>1. PouredBefore(b, k)' = PouredInForce(k) /\ ClearedBefore(b, k)' = ClearedInForce(k)
      BY <1>5, <1>8 DEF PouredBefore, ClearedBefore, PouredInForce, ClearedInForce, InForce, RolledBack
    <2>2. /\ Total(PouredBefore(b, k))' = Total(PouredInForce(k))
          /\ Total(ClearedBefore(b, k))' = Total(ClearedInForce(k))
      BY <2>1 DEF Total, Tally
    <2>3. onHand[k] = outside[k] + Total(PouredInForce(k)) - Total(ClearedInForce(k))
      BY DEF OrderInv, HistoryInv, StockIsOfImportsInForce
    <2>4. before'[b][k] = onHand[k] - outside[k]
      BY <1>6, <1>8
    <2> QED
      BY <1>1, <2>2, <2>3, <2>4, InForceTypes
  <1> QED
    BY <1>5, <1>7, <1>8

(* A batch that is taken back has touched no balance of a later one's own,   *)
(* or the later one would hold it back.                                     *)
LEMMA OrderReversal ==
    ASSUME OrderInv, NEW c \in DOMAIN batches, NotBlocked(c), before' = before,
           DOMAIN batches' = DOMAIN batches, RolledBack(batches[c])',
           \A n \in DOMAIN batches \ {c} : batches'[n] = batches[n],
           batches'[c].location = batches[c].location, batches'[c].hidden = batches[c].hidden,
           batches'[c].poured = batches[c].poured, batches'[c].cleared = batches[c].cleared
    PROVE  EarlierStillThere'
  <1> SUFFICES ASSUME NEW b \in DOMAIN batches, NEW k \in Key, Own(b, k)'
               PROVE  before[b][k] = Total(PouredBefore(b, k))' - Total(ClearedBefore(b, k))'
    BY DEF EarlierStillThere
  <1>1. /\ \A n \in DOMAIN batches : n \in Nat \ {0} /\ batches[n] \in Batch
        /\ \A n \in 1..b : n \in DOMAIN batches
    BY BatchType DEF OrderInv, HistoryInv
  <1>2. b # c
    BY DEF Own
  <1>3. Own(b, k)
    BY <1>2 DEF Own, OwnImportsOnly, Touches, RolledBack
  <1>4. ASSUME c < b, Touches(batches[c], k) PROVE FALSE
    <2>1. batches[c].location = batches[b].location
      BY <1>3, <1>4 DEF Own, OwnImportsOnly
    <2>2. batches[c].location # NULL
      BY <1>3, <2>1, ImportHistoryConstants DEF Own, Key
    <2>3. batches[b].status = "applied" /\ batches[b].active /\ ~batches[b].hidden
      BY <1>1, <1>3 DEF Own, RolledBack, Batch
    <2> QED
      BY <1>1, <1>4, <2>1, <2>2, <2>3 DEF NotBlocked, NewerLive
  <1>5. ASSUME NEW n \in 1..(b - 1)
        PROVE  /\ InForce(n, batches[n].poured[k])' = InForce(n, batches[n].poured[k])
               /\ InForce(n, batches[n].cleared[k])' = InForce(n, batches[n].cleared[k])
    <2>1. n \in DOMAIN batches /\ n < b
      BY <1>1
    <2>2. CASE n # c
      BY <2>1, <2>2 DEF InForce, RolledBack
    <2>3. CASE n = c
      <3>1. batches[c].poured[k] = 0 /\ batches[c].cleared[k] = 0
        BY <1>1, <1>4, <2>1, <2>3 DEF Touches, Batch
      <3> QED
        BY <2>3, <3>1 DEF InForce
    <2> QED
      BY <2>2, <2>3
  <1>6. PouredBefore(b, k)' = PouredBefore(b, k) /\ ClearedBefore(b, k)' = ClearedBefore(b, k)
    BY <1>5 DEF PouredBefore, ClearedBefore
  <1>7. before[b][k] = Total(PouredBefore(b, k)) - Total(ClearedBefore(b, k))
    BY <1>3 DEF OrderInv, EarlierStillThere
  <1> QED
    BY <1>6, <1>7 DEF Total, Tally

(* Both ways of taking an import back, as the lemmas above need them. *)
LEMMA UndoingStep ==
    ASSUME OrderInv, NEW c \in DOMAIN batches, RollBack(c) \/ ReverseFromJournal(c)
    PROVE  /\ NotBlocked(c) /\ onHand' = Compensated(batches[c])
           /\ outside' = outside /\ before' = before
           /\ DOMAIN batches' = DOMAIN batches /\ RolledBack(batches[c])'
           /\ \A n \in DOMAIN batches \ {c} : batches'[n] = batches[n]
           /\ batches'[c].location = batches[c].location /\ batches'[c].hidden = batches[c].hidden
           /\ batches'[c].poured = batches[c].poured /\ batches'[c].cleared = batches[c].cleared
  <1>1. batches[c] \in Batch
    BY BatchType DEF OrderInv, HistoryInv
  <1>2. CASE RollBack(c)
    BY <1>1, <1>2 DEF RollBack, RollbackAllowed, RolledBack, Batch
  <1>3. CASE ReverseFromJournal(c)
    BY <1>1, <1>3 DEF ReverseFromJournal, RolledBack, Batch
  <1> QED
    BY <1>2, <1>3

(* Every step keeps what earlier batches found. *)
LEMMA OrderInvStep == OrderInv /\ [Next]_vars => OrderInv'
  <1> SUFFICES ASSUME OrderInv, [Next]_vars, HistoryInv'
               PROVE  EarlierStillThere'
    BY HistoryInvStep DEF OrderInv
  <1>1. CASE \E location \in Locations, sheet \in Sheets,
                overrides \in Overrides \cup {NoOverrides}, clears \in BOOLEAN :
                Import(location, sheet, overrides, clears)
    BY <1>1, OrderImport
  <1>2. ASSUME NEW b \in DOMAIN batches, RollBack(b) \/ ReverseFromJournal(b)
        PROVE  EarlierStillThere'
    BY <1>2, UndoingStep, OrderReversal
  <1>3. ASSUME NEW b \in DOMAIN batches, Hide(b)
        PROVE  EarlierStillThere'
    <2>1. /\ DOMAIN batches' = DOMAIN batches /\ before' = before /\ batches'[b].hidden
          /\ \A n \in DOMAIN batches \ {b} : batches'[n] = batches[n]
          /\ \A n \in DOMAIN batches :
                /\ batches'[n].location = batches[n].location /\ batches'[n].status = batches[n].status
                /\ batches'[n].active = batches[n].active
                /\ batches'[n].poured = batches[n].poured /\ batches'[n].cleared = batches[n].cleared
      BY <1>3, BatchType DEF Hide, OrderInv, HistoryInv, Batch
    <2> SUFFICES ASSUME NEW c \in DOMAIN batches, NEW k \in Key, Own(c, k)'
                 PROVE  before[c][k] = Total(PouredBefore(c, k))' - Total(ClearedBefore(c, k))'
      BY <2>1 DEF EarlierStillThere
    <2>2. c # b
      BY <2>1 DEF Own
    <2>3. Own(c, k)
      <3>1. ASSUME NEW n \in DOMAIN batches, Touches(batches[n], k)
            PROVE  batches[n].location = batches[c].location /\ ~batches[n].hidden
        <4>1. Touches(batches'[n], k)
          BY <2>1, <3>1 DEF Touches
        <4>2. batches'[n].location = batches'[c].location /\ ~batches'[n].hidden
          BY <2>1, <4>1 DEF Own, OwnImportsOnly
        <4> QED
          BY <2>1, <4>2
      <3> QED
        BY <2>1, <2>2, <3>1 DEF Own, OwnImportsOnly, RolledBack
    <2>4. /\ PouredBefore(c, k)' = PouredBefore(c, k)
          /\ ClearedBefore(c, k)' = ClearedBefore(c, k)
      <3>1. \A n \in 1..(c - 1) : n \in DOMAIN batches
        BY BatchType DEF OrderInv, HistoryInv
      <3>2. \A n \in DOMAIN batches : RolledBack(batches[n])' = RolledBack(batches[n])
        BY <2>1 DEF RolledBack
      <3> QED
        BY <2>1, <3>1, <3>2 DEF PouredBefore, ClearedBefore, InForce
    <2>5. before[c][k] = Total(PouredBefore(c, k)) - Total(ClearedBefore(c, k))
      BY <2>3 DEF OrderInv, EarlierStillThere
    <2> QED
      BY <2>4, <2>5 DEF Total, Tally
  <1>4. CASE batches' = batches /\ before' = before
    BY <1>4 DEF OrderInv, EarlierStillThere, Own, OwnImportsOnly, RolledBack, Total, Tally,
                PouredBefore, ClearedBefore, InForce
  <1>5. ASSUME NEW k \in Moved, NEW quantity \in Quantities,
               Withdraw(k, quantity) \/ Receive(k, quantity)
        PROVE  EarlierStillThere'
    BY <1>4, <1>5 DEF Withdraw, Receive
  <1>6. CASE UNCHANGED vars
    BY <1>4, <1>6 DEF vars
  <1> QED
    BY <1>1, <1>2, <1>3, <1>5, <1>6 DEF Next

(* What is left at a balance when the last batch of its own is taken back.  *)
LEMMA OwnTakenBack ==
    ASSUME OrderInv, NEW b \in DOMAIN batches, NotBlocked(b), NEW k \in Key,
           k[1] = batches[b].location, OwnImportsOnly(b, k)
    PROVE  (onHand[k] - batches[b].poured[k] + batches[b].cleared[k]) - outside[k] = before[b][k]
  <1> DEFINE n == Len(batches)
  <1>1. /\ TypeOK /\ n \in Nat /\ DOMAIN batches = 1..n
        /\ \A c \in 1..n : batches[c] \in Batch
    BY BatchType DEF OrderInv, HistoryInv
  <1>2. Own(b, k)
    BY DEF Own, NotBlocked
  <1>3. before[b][k] = Total(PouredBefore(b, k)) - Total(ClearedBefore(b, k))
    BY <1>2 DEF OrderInv, EarlierStillThere
  <1>4. ASSUME NEW c \in 1..n, c > b
        PROVE  PouredInForce(k)[c] = 0 /\ ClearedInForce(k)[c] = 0
    <2>1. CASE RolledBack(batches[c])
      BY <1>1, <2>1 DEF PouredInForce, ClearedInForce, InForce
    <2>2. CASE ~RolledBack(batches[c])
      <3>1. ~Touches(batches[c], k)
        <4> SUFFICES ASSUME Touches(batches[c], k) PROVE FALSE
          OBVIOUS
        <4>1. batches[c].location = batches[b].location /\ ~batches[c].hidden
          BY <1>1 DEF OwnImportsOnly
        <4>2. batches[b].location # NULL
          BY ImportHistoryConstants DEF Key
        <4>3. batches[c].status = "applied" /\ batches[c].active
          BY <1>1, <2>2 DEF RolledBack, Batch
        <4> QED
          BY <1>1, <1>4, <4>1, <4>2, <4>3 DEF NotBlocked, NewerLive
      <3>2. batches[c].poured[k] = 0 /\ batches[c].cleared[k] = 0
        BY <1>1, <3>1 DEF Touches, Batch
      <3> QED
        BY <1>1, <3>2 DEF PouredInForce, ClearedInForce, InForce
    <2> QED
      BY <2>1, <2>2
  <1>5. /\ PouredInForce(k) \in [ 1..n -> Nat ] /\ ClearedInForce(k) \in [ 1..n -> Nat ]
        /\ onHand[k] \in Int /\ outside[k] \in Int
    BY <1>1, InForceTypes
  <1>6. /\ PouredInForce(k)[b] = batches[b].poured[k] /\ batches[b].poured[k] \in Nat
        /\ ClearedInForce(k)[b] = batches[b].cleared[k] /\ batches[b].cleared[k] \in Nat
    BY <1>1 DEF PouredInForce, ClearedInForce, InForce, NotBlocked, Batch
  <1>7. b \in 1..n /\ \A c \in 1..(b - 1) : c \in 1..n
    BY <1>1
  <1>8. /\ PouredBefore(b, k) \in [ 1..(b - 1) -> Nat ]
        /\ \A c \in 1..(b - 1) : PouredBefore(b, k)[c] = PouredInForce(k)[c]
    BY <1>1, <1>5, <1>7 DEF PouredBefore, PouredInForce, InForce, Batch
  <1>9. /\ ClearedBefore(b, k) \in [ 1..(b - 1) -> Nat ]
        /\ \A c \in 1..(b - 1) : ClearedBefore(b, k)[c] = ClearedInForce(k)[c]
    BY <1>1, <1>5, <1>7 DEF ClearedBefore, ClearedInForce, InForce, Batch
  <1> DEFINE poured == PouredInForce(k)
             cleared == ClearedInForce(k)
             pouredBefore == PouredBefore(b, k)
             clearedBefore == ClearedBefore(b, k)
  <1>10. /\ poured \in [ 1..n -> Nat ] /\ pouredBefore \in [ 1..(b - 1) -> Nat ]
         /\ \A c \in 1..n : c > b => poured[c] = 0
         /\ \A c \in 1..(b - 1) : pouredBefore[c] = poured[c]
    BY <1>4, <1>5, <1>8
  <1>11. /\ cleared \in [ 1..n -> Nat ] /\ clearedBefore \in [ 1..(b - 1) -> Nat ]
         /\ \A c \in 1..n : c > b => cleared[c] = 0
         /\ \A c \in 1..(b - 1) : clearedBefore[c] = cleared[c]
    BY <1>4, <1>5, <1>9
  <1>12. /\ poured[b] = batches[b].poured[k] /\ batches[b].poured[k] \in Nat
         /\ cleared[b] = batches[b].cleared[k] /\ batches[b].cleared[k] \in Nat
    BY <1>6
  <1>13. onHand[k] = outside[k] + Total(poured) - Total(cleared)
    BY DEF OrderInv, HistoryInv, StockIsOfImportsInForce
  <1>14. before[b][k] = Total(pouredBefore) - Total(clearedBefore)
    BY <1>3
  <1> HIDE DEF n, poured, cleared, pouredBefore, clearedBefore
  <1>15. Total(poured) = Total(pouredBefore) + poured[b] /\ Total(pouredBefore) \in Nat
    BY <1>1, <1>7, <1>10, TotalUpTo
  <1>16. Total(cleared) = Total(clearedBefore) + cleared[b] /\ Total(clearedBefore) \in Nat
    BY <1>1, <1>7, <1>11, TotalUpTo
  <1>17. onHand[k] = outside[k] + (Total(pouredBefore) + batches[b].poured[k])
                                - (Total(clearedBefore) + batches[b].cleared[k])
    BY <1>12, <1>13, <1>15, <1>16, Zenon
  <1>18. (onHand[k] - batches[b].poured[k] + batches[b].cleared[k]) - outside[k]
            = Total(pouredBefore) - Total(clearedBefore)
    <2> DEFINE o == onHand[k]
               u == outside[k]
               p == batches[b].poured[k]
               c == batches[b].cleared[k]
               p0 == Total(pouredBefore)
               c0 == Total(clearedBefore)
    <2>1. o \in Int /\ u \in Int /\ p \in Nat /\ c \in Nat /\ p0 \in Nat /\ c0 \in Nat
      BY <1>5, <1>12, <1>15, <1>16
    <2>2. o = u + (p0 + p) - (c0 + c)
      BY <1>17
    <2> HIDE DEF o, u, p, c, p0, c0
    <2>3. (o - p + c) - u = p0 - c0
      BY <2>1, <2>2
    <2> QED
      BY <2>3 DEF o, u, p, c, p0, c0
  <1> QED
    BY <1>14, <1>18, Zenon

(* Each step that takes a batch back restores what the batch found. *)
LEMMA RestoredStep == OrderInv /\ [Next]_vars => [Restored]_vars
  <1> SUFFICES ASSUME OrderInv, Next,
                      NEW b \in DOMAIN batches, batches[b].active, ~batches'[b].active,
                      NEW k \in Key, k[1] = batches[b].location, OwnImportsOnly(b, k)
               PROVE  onHand'[k] - outside'[k] = before[b][k]
    BY DEF Restored
  <1>1. batches[b] \in Batch /\ TypeOK
    BY BatchType DEF OrderInv, HistoryInv
  <1>2. ASSUME NEW location \in Locations, NEW sheet \in Sheets,
               NEW overrides \in Overrides \cup {NoOverrides}, NEW clears \in BOOLEAN,
               Import(location, sheet, overrides, clears)
        PROVE  FALSE
    <2>1. Added(location, sheet, overrides, clears) \in Batch
      BY <1>1, AddedType, OverridesType
    <2>2. batches' = Append(batches, Added(location, sheet, overrides, clears))
      BY <1>2 DEF Import, Added
    <2>3. batches'[b] = batches[b]
      BY <1>1, <2>1, <2>2, AppendProperties, BatchType DEF TypeOK
    <2> QED
      BY <2>3
  <1>3. ASSUME NEW c \in DOMAIN batches, Hide(c) PROVE FALSE
    BY <1>1, <1>3, BatchType DEF Hide
  <1>4. ASSUME NEW place \in Moved, NEW quantity \in Quantities,
               Withdraw(place, quantity) \/ Receive(place, quantity)
        PROVE  FALSE
    BY <1>4 DEF Withdraw, Receive
  <1>5. ASSUME NEW c \in DOMAIN batches, RollBack(c) \/ ReverseFromJournal(c)
        PROVE  onHand'[k] - outside'[k] = before[b][k]
    <2>1. /\ c = b /\ NotBlocked(b) /\ onHand' = Compensated(batches[b]) /\ outside' = outside
      BY <1>5, UndoingStep
    <2>2. onHand'[k] = onHand[k] - batches[b].poured[k] + batches[b].cleared[k]
      BY <2>1 DEF Compensated
    <2>3. (onHand[k] - batches[b].poured[k] + batches[b].cleared[k]) - outside[k] = before[b][k]
      BY <2>1, OwnTakenBack
    <2>4. outside'[k] = outside[k]
      BY <2>1
    <2> QED
      BY <2>2, <2>3, <2>4
  <1> QED
    BY <1>2, <1>3, <1>4, <1>5 DEF Next

(* For any number of imports into any number of sections, taking a batch    *)
(* back returns every balance of its section, which only imports of this     *)
(* section touched and no hidden one, to what it was before that import,    *)
(* but for what moved outside of imports since.                             *)
THEOREM RollbackOrder == Spec => RollbackRestores
  <1>1. Init => OrderInv
    BY HistoryInvInit, OrderInvInit DEF OrderInv
  <1> QED
    BY <1>1, OrderInvStep, RestoredStep, PTL DEF Spec, RollbackRestores
=============================================================================
