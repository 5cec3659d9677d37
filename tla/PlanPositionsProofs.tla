------------------------ MODULE PlanPositionsProofs ------------------------
(***************************************************************************)
(* The invariants of PlanPositions, for every value of its constants.      *)
(*                                                                         *)
(* What each operation does is said once, in Keeps: it leaves rows of the   *)
(* right type that refer to rows that are there (Refer), puts a position    *)
(* in use only as WorkStep says and lets release batches hold more only as  *)
(* HeldStep says.  PlanInv follows from these; that a set applies again     *)
(* follows from OwnInv, which says which item a position belongs to.        *)
(***************************************************************************)
EXTENDS PlanPositions, AmountsProofs, SequenceTheorems

----------------------------------------------------------------------------
(* What the tables hold.                                                    *)

(* The foreign keys: an item or a release batch names no position that is   *)
(* gone.                                                                    *)
Refer ==
    /\ \A b \in BatchIds : \A row \in ItemRows(batches[b].items) :
            batches[b].items[row].position \in PositionIds \cup {NULL}
    /\ \A r \in ReleaseIds : releases[r].position \in PositionIds

(* The tables are sequences of rows, and ids are indices into them. *)
LEMMA Tables ==
    ASSUME TypeOK
    PROVE  /\ Len(positions) \in Nat /\ DOMAIN positions = 1..Len(positions)
           /\ PositionIds \subseteq 1..Len(positions)
           /\ \A p \in PositionIds : positions[p] \in PlanPosition
           /\ Len(batches) \in Nat /\ DOMAIN batches = 1..Len(batches)
           /\ BatchIds \subseteq 1..Len(batches)
           /\ \A b \in BatchIds : batches[b] \in PlanChangeSet
           /\ Len(releases) \in Nat /\ DOMAIN releases = 1..Len(releases)
           /\ ReleaseIds \subseteq 1..Len(releases)
           /\ \A r \in ReleaseIds : releases[r] \in ReleaseBatch
  <1>1. /\ Len(positions) \in Nat /\ DOMAIN positions = 1..Len(positions)
        /\ Len(batches) \in Nat /\ DOMAIN batches = 1..Len(batches)
        /\ Len(releases) \in Nat /\ DOMAIN releases = 1..Len(releases)
    BY LenProperties DEF TypeOK
  <1>2. \A p \in 1..Len(positions) : positions[p] \in Nullable(PlanPosition)
    BY ElementOfSeq DEF TypeOK
  <1>3. \A b \in 1..Len(batches) : batches[b] \in Nullable(PlanChangeSet)
    BY ElementOfSeq DEF TypeOK
  <1>4. \A r \in 1..Len(releases) : releases[r] \in Nullable(ReleaseBatch)
    BY ElementOfSeq DEF TypeOK
  <1> QED
    BY <1>1, <1>2, <1>3, <1>4 DEF PositionIds, BatchIds, ReleaseIds, Nullable

(* A table with the rows of another, one by one. *)
LEMMA RowByRow ==
    ASSUME NEW S, NEW n \in Nat, NEW table \in [ 1..n -> S ]
    PROVE  table \in Seq(S) /\ Len(table) = n
  OBVIOUS

(* The status derived for a plan is one. *)
LEMMA DerivedType == \A rows : Derived(rows) \in ProductionPlanStatus
  BY DEF Derived, ProductionPlanStatus

(* The item of a set on a position is one of its items, if there is any. *)
LEMMA ItemOnType ==
    ASSUME NEW items \in [ Rows -> Nullable(PlanChangeItem) ], NEW p, On(p, items) # {}
    PROVE  \E row \in ItemRows(items) :
                /\ items[row] \in PlanChangeItem /\ items[row].position = p
                /\ ItemOn(p, items) = items[row]
  BY DEF ItemOn, On, ItemRows, Nullable

Active(position) == position.status \in { "approved", "released" }

(* What imports do to the position p of before, which item names, if any:    *)
(* its row, its history and its transfers stay, and it is put in no new use. *)
Handled(position, p) ==
    /\ position \in PlanPosition
    /\ position.row = positions[p].row /\ position.moved = positions[p].moved
    /\ position.cancelledFrom = positions[p].cancelledFrom
    /\ Active(position) => Active(positions[p])

(* Undoing an item keeps the row and the batch of its position. *)
LEMMA UndoneHandled ==
    ASSUME TypeOK, NEW p \in PositionIds, NEW item \in PlanChangeItem
    PROVE  Handled(UndoneOn(p, item), p) /\ UndoneOn(p, item).batch = positions[p].batch
  BY Tables DEF Handled, UndoneOn, PlanPosition, PlanPositionStatus, PlanChangeItem, Nullable, Active

(* Applying an item keeps the row, and only an update changes the batch. *)
LEMMA AppliedHandled ==
    ASSUME TypeOK, NEW p \in PositionIds, NEW b \in Nat, NEW item \in PlanChangeItem
    PROVE  /\ Handled(AppliedTo(p, b, item), p)
           /\ \/ AppliedTo(p, b, item).batch = positions[p].batch
              \/ AppliedTo(p, b, item).batch = b /\ item.action = "update"
  BY Tables DEF Handled, AppliedTo, Reapplied, Updated, PlanPosition, PlanPositionStatus,
     PlanChangeItem, Nullable, Active
(* A table of positions after an import's operation: the positions of        *)
(* before, handled, and fresh ones.                                         *)
Follows(rows) ==
    /\ rows \in Seq(Nullable(PlanPosition)) /\ Len(positions) <= Len(rows)
    /\ \A p \in 1..Len(positions) :
            IF p \in PositionIds THEN rows[p] # NULL /\ Handled(rows[p], p) ELSE rows[p] = NULL
    /\ \A p \in 1..Len(rows) :
            p > Len(positions) => rows[p] # NULL /\ ~Active(rows[p]) /\ ~rows[p].moved

(* Positions nobody touched follow themselves. *)
LEMMA FollowsItself ==
    ASSUME TypeOK
    PROVE  Follows(positions)
  <1>1. positions \in Seq(Nullable(PlanPosition)) /\ Len(positions) <= Len(positions)
    BY Tables DEF TypeOK
  <1>2. ASSUME NEW p \in 1..Len(positions)
        PROVE  IF p \in PositionIds THEN positions[p] # NULL /\ Handled(positions[p], p)
               ELSE positions[p] = NULL
    BY Tables DEF Handled, PositionIds
  <1>3. \A p \in 1..Len(positions) : ~ p > Len(positions)
    BY Tables
  <1> QED
    BY <1>1, <1>2, <1>3 DEF Follows

(* A rollback touches the positions of its own items only. *)
LEMMA RolledBackFollows ==
    ASSUME TypeOK, Refer, NEW b \in BatchIds
    PROVE  /\ Follows(RolledBack(b)) /\ Len(RolledBack(b)) = Len(positions)
           /\ \A p \in PositionIds : RolledBack(b)[p].batch = positions[p].batch
           /\ \A p \in PositionIds : On(p, batches[b].items) = {} => RolledBack(b)[p] = positions[p]
  <1> DEFINE items == batches[b].items
             rows == RolledBack(b)
  <1>1. items \in [ Rows -> Nullable(PlanChangeItem) ]
    BY Tables DEF PlanChangeSet
  <1>2. ASSUME NEW p \in PositionIds
        PROVE  rows[p] # NULL /\ Handled(rows[p], p) /\ rows[p].batch = positions[p].batch
    <2>1. rows[p] = IF On(p, items) = {} THEN positions[p] ELSE UndoneOn(p, ItemOn(p, items))
      BY Tables DEF RolledBack
    <2>2. CASE On(p, items) = {}
      BY <2>1, <2>2, Tables, NullIsNoRow DEF Handled
    <2>3. CASE On(p, items) # {}
      <3>1. ItemOn(p, items) \in PlanChangeItem
        BY <1>1, <2>3, ItemOnType
      <3>2. Handled(rows[p], p) /\ rows[p].batch = positions[p].batch
        BY <2>1, <2>3, <3>1, UndoneHandled
      <3> QED
        BY <3>2, NullIsNoRow DEF Handled
    <2> QED
      BY <2>2, <2>3
  <1>3. ASSUME NEW p \in 1..Len(positions), p \notin PositionIds
        PROVE  rows[p] = NULL
    <2>1. positions[p] = NULL
      BY <1>3, Tables DEF PositionIds
    <2>2. On(p, items) = {}
      BY <1>3, Refer, Tables, PlanPositionsConstants DEF Refer, On
    <2> QED
      BY <2>1, <2>2, Tables DEF RolledBack
  <1>4. rows \in [ 1..Len(positions) -> Nullable(PlanPosition) ]
    BY <1>2, <1>3, Tables DEF RolledBack, Handled, Nullable
  <1>5. rows \in Seq(Nullable(PlanPosition)) /\ Len(rows) = Len(positions)
    BY <1>4, RowByRow, Tables
  <1>6. ASSUME NEW p \in PositionIds, On(p, items) = {} PROVE rows[p] = positions[p]
    BY <1>6, Tables DEF RolledBack
  <1> QED
    BY <1>2, <1>3, <1>5, <1>6, Tables DEF Follows

(* The rows of a set that are to be inserted, in some order. *)
LEMMA NewRowsType ==
    ASSUME NEW b, NEW applied \in [ Rows -> Nullable(PlanChangeItem) ]
    PROVE  LET rows == { row \in ItemRows(applied) :
                            applied[row].action = "create" /\ ~Reused(b, applied[row]) }
               new == NewRows(b, applied)
           IN /\ Len(new) \in Nat /\ DOMAIN new = 1..Len(new)
              /\ \A n \in 1..Len(new) : new[n] \in rows
              /\ \A n, m \in 1..Len(new) : new[n] = new[m] => n = m
  <1> DEFINE rows == { row \in ItemRows(applied) :
                            applied[row].action = "create" /\ ~Reused(b, applied[row]) }
             new == NewRows(b, applied)
             n == Cardinality(rows)
  <1>1. IsFiniteSet(rows)
    BY PlanPositionsConstants, FS_Subset DEF ItemRows
  <1>2. n \in Nat /\ \E f \in [ 1..n -> rows ] : IsInjective(f)
    <2>1. n \in Nat
      BY <1>1, FS_CardinalityType
    <2>2. ExistsBijection(1..n, rows)
      BY <1>1, FS_CardinalityType
    <2>3. PICK f \in Bijection(1..n, rows) : TRUE
      BY <2>2 DEF ExistsBijection
    <2>4. f \in [ 1..n -> rows ] /\ IsInjective(f)
      BY <2>3 DEF Bijection, Injection, IsInjective
    <2> QED
      BY <2>1, <2>4
  <1>3. new \in [ 1..n -> rows ] /\ IsInjective(new)
    BY <1>2 DEF NewRows, SetToSeq
  <1>4. new \in Seq(rows) /\ Len(new) = n
    BY <1>2, <1>3, RowByRow
  <1> QED
    BY <1>2, <1>3, <1>4 DEF IsInjective

(* What apply takes of a set are items of the set. *)
LEMMA AppliedType ==
    ASSUME TypeOK, NEW b \in BatchIds, NEW skipInvalid \in BOOLEAN
    PROVE  /\ batches[b].items \in [ Rows -> Nullable(PlanChangeItem) ]
           /\ Applied(b, skipInvalid) \in [ Rows -> Nullable(PlanChangeItem) ]
           /\ \A row \in ItemRows(Applied(b, skipInvalid)) :
                /\ row \in ItemRows(batches[b].items)
                /\ Applied(b, skipInvalid)[row] = batches[b].items[row]
           /\ Applied(b, FALSE) = batches[b].items
  BY Tables DEF Applied, PlanChangeSet, ItemRows, Nullable

(* Apply inserts the new rows after the old, and moves a position to its batch only by an update. *)
LEMMA AppliedRowsFollow ==
    ASSUME TypeOK, Refer, NEW b \in BatchIds, NEW skipInvalid \in BOOLEAN
    PROVE  LET applied == Applied(b, skipInvalid)
               new == NewRows(b, applied)
               rows == AppliedRows(b, skipInvalid)
           IN /\ Follows(rows) /\ Len(rows) = Len(positions) + Len(new)
              /\ \A p \in PositionIds :
                    \/ rows[p].batch = positions[p].batch
                    \/ /\ rows[p].batch = b
                       /\ \E row \in ItemRows(applied) :
                            applied[row].action = "update" /\ applied[row].position = p
              /\ \A n \in 1..Len(new) : rows[Len(positions) + n] = Inserted(b, new[n], applied[new[n]])
  <1> DEFINE applied == Applied(b, skipInvalid)
             new == NewRows(b, applied)
             rows == AppliedRows(b, skipInvalid)
             old == [ p \in DOMAIN positions |->
                        IF On(p, applied) = {} THEN positions[p]
                        ELSE AppliedTo(p, b, ItemOn(p, applied)) ]
             fresh == [ n \in DOMAIN new |-> Inserted(b, new[n], applied[new[n]]) ]
  <1>0. /\ b \in Nat /\ Len(positions) \in Nat /\ DOMAIN positions = 1..Len(positions)
        /\ PositionIds \subseteq 1..Len(positions)
    BY Tables
  <1>1. /\ applied \in [ Rows -> Nullable(PlanChangeItem) ]
        /\ \A row \in ItemRows(applied) :
                row \in ItemRows(batches[b].items) /\ applied[row] = batches[b].items[row]
    BY AppliedType
  <1>a. /\ Len(new) \in Nat /\ DOMAIN new = 1..Len(new)
        /\ \A n \in 1..Len(new) : new[n] \in ItemRows(applied) /\ applied[new[n]].action = "create"
    BY <1>1, NewRowsType
  <1>7. rows = old \o fresh
    BY DEF AppliedRows
  <1> HIDE DEF applied, new, rows
  <1>2. ASSUME NEW p \in PositionIds
        PROVE  /\ old[p] # NULL /\ Handled(old[p], p)
               /\ \/ old[p].batch = positions[p].batch
                  \/ /\ old[p].batch = b
                     /\ \E row \in ItemRows(applied) :
                          applied[row].action = "update" /\ applied[row].position = p
    <2>1. old[p] = IF On(p, applied) = {} THEN positions[p] ELSE AppliedTo(p, b, ItemOn(p, applied))
      BY <1>0
    <2>2. CASE On(p, applied) = {}
      BY <2>1, <2>2, Tables, NullIsNoRow DEF Handled
    <2>3. CASE On(p, applied) # {}
      <3>1. PICK row \in ItemRows(applied) :
                    /\ applied[row] \in PlanChangeItem /\ applied[row].position = p
                    /\ ItemOn(p, applied) = applied[row]
        BY <1>1, <2>3, ItemOnType
      <3>2. /\ Handled(old[p], p)
            /\ \/ old[p].batch = positions[p].batch
               \/ old[p].batch = b /\ applied[row].action = "update"
        BY <1>0, <2>1, <2>3, <3>1, AppliedHandled
      <3> QED
        BY <3>1, <3>2, NullIsNoRow DEF Handled
    <2> QED
      BY <2>2, <2>3
  <1>3. ASSUME NEW p \in 1..Len(positions), p \notin PositionIds
        PROVE  old[p] = NULL
    <2>1. positions[p] = NULL
      BY <1>3, Tables DEF PositionIds
    <2>2. ASSUME NEW row \in ItemRows(applied), applied[row].position = p
          PROVE  FALSE
      <3>1. applied[row].position \in PositionIds \cup {NULL}
        BY <1>1, Refer DEF Refer
      <3> QED
        BY <1>0, <1>3, <2>2, <3>1, PlanPositionsConstants
    <2>3. On(p, applied) = {}
      BY <2>2 DEF On
    <2> QED
      BY <1>0, <2>1, <2>3
  <1>4. old \in Seq(Nullable(PlanPosition)) /\ Len(old) = Len(positions)
    <2>1. old \in [ 1..Len(positions) -> Nullable(PlanPosition) ]
      BY <1>2, <1>3, Tables DEF Handled, Nullable
    <2> QED
      BY <2>1, RowByRow, Tables
  <1>5. ASSUME NEW n \in 1..Len(new)
        PROVE  /\ fresh[n] = Inserted(b, new[n], applied[new[n]])
               /\ fresh[n] \in PlanPosition /\ fresh[n] # NULL /\ ~Active(fresh[n]) /\ ~fresh[n].moved
    <2>1. new[n] \in ItemRows(applied) /\ applied[new[n]].action = "create"
      BY <1>a
    <2>2. applied[new[n]] \in PlanChangeItem /\ new[n] \in Rows
      BY <1>1, <2>1 DEF ItemRows, Nullable
    <2>3. applied[new[n]].after \in Quantity /\ applied[new[n]].error \in BOOLEAN
      BY <2>1, <2>2 DEF PlanChangeItem, Nullable
    <2>4. fresh[n] = Inserted(b, new[n], applied[new[n]])
      BY <1>a
    <2>5. Inserted(b, new[n], applied[new[n]]) \in PlanPosition
      BY <1>0, <2>2, <2>3 DEF Inserted, PlanPosition, PlanPositionStatus
    <2>6. /\ Inserted(b, new[n], applied[new[n]]).moved = FALSE
          /\ ~Active(Inserted(b, new[n], applied[new[n]]))
      BY DEF Inserted, Active
    <2> HIDE DEF fresh
    <2> QED
      BY <2>4, <2>5, <2>6, NullIsNoRow
  <1>6. fresh \in Seq(Nullable(PlanPosition)) /\ Len(fresh) = Len(new)
    <2>1. fresh \in [ 1..Len(new) -> Nullable(PlanPosition) ] /\ Len(new) \in Nat
      BY <1>a, <1>5 DEF Nullable
    <2> QED
      BY <2>1, RowByRow
  <1> HIDE DEF old, fresh
  <1>8. /\ rows \in Seq(Nullable(PlanPosition)) /\ Len(rows) = Len(positions) + Len(new)
        /\ \A p \in 1..Len(rows) : rows[p] = IF p <= Len(positions) THEN old[p]
                                             ELSE fresh[p - Len(positions)]
    <2> DEFINE S == Nullable(PlanPosition)
    <2>1. old \in Seq(S) /\ fresh \in Seq(S)
      BY <1>4, <1>6
    <2> HIDE DEF S
    <2>2. /\ old \o fresh \in Seq(S) /\ Len(old \o fresh) = Len(old) + Len(fresh)
          /\ \A p \in 1..Len(old) + Len(fresh) :
                (old \o fresh)[p] = IF p <= Len(old) THEN old[p] ELSE fresh[p - Len(old)]
      BY <2>1, ConcatProperties
    <2> QED
      BY <1>4, <1>6, <1>7, <2>2 DEF S
  <1>10. \A p \in 1..Len(positions) : rows[p] = old[p]
    BY <1>0, <1>a, <1>8
  <1>11. \A n \in 1..Len(new) : rows[Len(positions) + n] = fresh[n]
    BY <1>0, <1>a, <1>8
  <1>12. Follows(rows)
    <2>1. ASSUME NEW p \in 1..Len(rows), p > Len(positions)
          PROVE  rows[p] # NULL /\ ~Active(rows[p]) /\ ~rows[p].moved
      <3>1. p - Len(positions) \in 1..Len(new) /\ rows[p] = fresh[p - Len(positions)]
        BY <1>0, <1>a, <1>8, <2>1
      <3> QED
        BY <3>1, <1>5
    <2>2. \A p \in 1..Len(positions) :
            IF p \in PositionIds THEN rows[p] # NULL /\ Handled(rows[p], p) ELSE rows[p] = NULL
      BY <1>2, <1>3, <1>10
    <2>3. Len(positions) <= Len(rows)
      BY <1>0, <1>a, <1>8
    <2> QED
      BY <1>8, <2>1, <2>2, <2>3 DEF Follows
  <1>13. \A p \in PositionIds : rows[p] = old[p]
    BY <1>10, Tables
  <1> QED
    BY <1>2, <1>5, <1>8, <1>11, <1>12, <1>13 DEF applied, new, rows
----------------------------------------------------------------------------
(* Types and references, operation by operation.                            *)

(* An item put together by the import has the type of one. *)
LEMMA ItemType ==
    ASSUME NEW action \in PlanChangeAction, NEW p \in Nullable(Nat), NEW before \in Nullable(Quantity),
           NEW after \in Nullable(Quantity), NEW error \in BOOLEAN,
           action \in { "create", "update" } => after # NULL, action = "update" => before # NULL
    PROVE  /\ Item(action, p, before, after, error) \in PlanChangeItem
           /\ Item(action, p, before, after, error).position = p
  BY DEF Item, PlanChangeItem

(* So has the item of a row of the file. *)
LEMMA RowItemType ==
    ASSUME TypeOK, NEW p \in PositionIds \cup {NULL}, NEW quantity \in Quantity
    PROVE  /\ RowItem(p, quantity) \in PlanChangeItem
           /\ RowItem(p, quantity).position \in PositionIds \cup {NULL}
  <1>1. p \in Nullable(Nat) /\ NULL \in Nullable(Nat) /\ NULL \in Nullable(Quantity)
    BY Tables DEF Nullable
  <1>2. quantity \in Nullable(Quantity) /\ quantity # NULL
    BY PlanPositionsConstants DEF Nullable, Quantity
  <1>3. ASSUME p # NULL
        PROVE  positions[p].quantity \in Nullable(Quantity) /\ positions[p].quantity # NULL
    BY <1>3, Tables, PlanPositionsConstants DEF Nullable, Quantity, PlanPosition
  <1>4. { "create", "update", "ignore", "duplicate" } \subseteq PlanChangeAction
    BY DEF PlanChangeAction
  <1>5. \A error \in BOOLEAN :
            /\ Item("create", NULL, NULL, quantity, error) \in PlanChangeItem
            /\ Item("create", NULL, NULL, quantity, error).position = NULL
    BY <1>1, <1>2, <1>4, ItemType
  <1>6. /\ Item("ignore", NULL, NULL, NULL, TRUE) \in PlanChangeItem
        /\ Item("ignore", NULL, NULL, NULL, TRUE).position = NULL
    BY <1>1, <1>4, ItemType
  <1>7. /\ Item("duplicate", p, NULL, NULL, TRUE) \in PlanChangeItem
        /\ Item("duplicate", p, NULL, NULL, TRUE).position = p
    BY <1>1, <1>4, ItemType
  <1>8. ASSUME p # NULL
        PROVE  /\ Item("update", p, positions[p].quantity, quantity, TRUE) \in PlanChangeItem
               /\ Item("update", p, positions[p].quantity, quantity, TRUE).position = p
    BY <1>1, <1>2, <1>3, <1>4, <1>8 DEF Item, PlanChangeItem
  <1>9. CASE p = NULL
    <2>1. RowItem(p, quantity) = Item("create", NULL, NULL, quantity, FALSE)
      BY <1>9 DEF RowItem, InStatus
    <2> QED
      BY <2>1, <1>5
  <1>10. CASE p # NULL
    <2>1. RowItem(p, quantity) \in
            { Item("create", NULL, NULL, quantity, TRUE), Item("ignore", NULL, NULL, NULL, TRUE),
              Item("duplicate", p, NULL, NULL, TRUE),
              Item("update", p, positions[p].quantity, quantity, TRUE) }
      BY <1>10 DEF RowItem, InStatus
    <2> QED
      BY <1>5, <1>6, <1>7, <1>8, <1>10, <2>1
  <1> QED
    BY <1>9, <1>10

(* An import adds a batch and changes nothing else. *)
LEMMA ImportTypes ==
    ASSUME TypeOK, Refer, NEW file \in Files, NEW replace \in BOOLEAN, NEW match \in Matches,
           Import(file, replace, match)
    PROVE  TypeOK' /\ Refer'
  <1> DEFINE items == [ row \in Rows |->
                CASE file[row] # NULL -> RowItem(match[row], file[row])
                  [] file[row] = NULL /\ replace /\ InStatus(match[row], "draft") ->
                        Item("cancel", match[row], positions[match[row]].quantity, NULL, FALSE)
                  [] OTHER -> NULL ]
             added == [ status |-> "draft", items |-> items ]
  <1>1. batches' = Append(batches, added)
    BY DEF Import
  <1>2. UNCHANGED << positions, releases, planStatus, launches >>
    BY DEF Import
  <1>3. ASSUME NEW row \in Rows
        PROVE  items[row] = NULL \/ ( /\ items[row] \in PlanChangeItem
                                      /\ items[row].position \in PositionIds \cup {NULL} )
    <2>1. match[row] \in PositionIds \cup {NULL}
      BY DEF Matches, Existing, Nullable
    <2>2. CASE file[row] # NULL
      <3>1. file[row] \in Quantity
        BY <2>2, PlanPositionsConstants
      <3>2. items[row] = RowItem(match[row], file[row])
        BY <2>2
      <3> HIDE DEF items
      <3> QED
        BY <2>1, <3>1, <3>2, RowItemType
    <2>3. CASE file[row] = NULL /\ replace /\ InStatus(match[row], "draft")
      <3>1. items[row] = Item("cancel", match[row], positions[match[row]].quantity, NULL, FALSE)
        BY <2>3
      <3>2. match[row] \in PositionIds
        BY <2>1, <2>3 DEF InStatus
      <3>3. /\ match[row] \in Nullable(Nat) /\ positions[match[row]].quantity \in Nullable(Quantity)
            /\ NULL \in Nullable(Quantity) /\ "cancel" \in PlanChangeAction
        BY <3>2, Tables DEF Nullable, PlanPosition, PlanChangeAction
      <3>4. \A p \in Nullable(Nat), before \in Nullable(Quantity) :
                /\ Item("cancel", p, before, NULL, FALSE) \in PlanChangeItem
                /\ Item("cancel", p, before, NULL, FALSE).position = p
        BY <3>3, ItemType
      <3> HIDE DEF items
      <3> QED
        BY <3>1, <3>2, <3>3, <3>4
    <2>4. CASE file[row] = NULL /\ ~(replace /\ InStatus(match[row], "draft"))
      BY <2>4
    <2> QED
      BY <2>2, <2>3, <2>4
  <1>4. items \in [ Rows -> Nullable(PlanChangeItem) ]
    <2>1. \A row \in Rows : items[row] \in Nullable(PlanChangeItem)
      BY <1>3 DEF Nullable
    <2> QED
      BY <2>1
  <1> HIDE DEF items
  <1>5. added \in Nullable(PlanChangeSet)
    BY <1>4 DEF PlanChangeSet, Nullable
  <1>6. /\ batches' \in Seq(Nullable(PlanChangeSet)) /\ Len(batches') = Len(batches) + 1
        /\ \A b \in 1..Len(batches) : batches'[b] = batches[b]
        /\ batches'[Len(batches) + 1] = added
    BY <1>1, <1>5, AppendProperties DEF TypeOK
  <1>7. TypeOK'
    BY <1>2, <1>6 DEF TypeOK
  <1>8. PositionIds' = PositionIds /\ ReleaseIds' = ReleaseIds
    BY <1>2 DEF PositionIds, ReleaseIds
  <1>9. ASSUME NEW b \in BatchIds', NEW row \in ItemRows(batches'[b].items)
        PROVE  batches'[b].items[row].position \in PositionIds \cup {NULL}
    <2>1. b \in 1..(Len(batches) + 1) /\ Len(batches) \in Nat
      BY <1>6, <1>7, Tables, LenProperties DEF BatchIds
    <2>2. CASE b = Len(batches) + 1
      <3>1. batches'[b].items = items
        BY <1>6, <2>2
      <3> QED
        BY <1>3, <3>1 DEF ItemRows
    <2>3. CASE b # Len(batches) + 1
      <3>1. b \in BatchIds /\ batches'[b] = batches[b]
        BY <1>6, <2>1, <2>3, Tables DEF BatchIds
      <3> QED
        BY <3>1, Refer DEF Refer, ItemRows
    <2> QED
      BY <2>2, <2>3
  <1> QED
    BY <1>2, <1>7, <1>8, <1>9, Refer DEF Refer

(* After positions were followed by others, those that were there still are. *)
LEMMA FollowedIds ==
    ASSUME TypeOK, Follows(positions')
    PROVE  /\ PositionIds \subseteq PositionIds'
           /\ DOMAIN positions' = 1..Len(positions') /\ Len(positions') \in Nat
           /\ \A p \in 1..Len(positions') : p > Len(positions) => p \in PositionIds'
           /\ \A p \in PositionIds' : p \in PositionIds \/ p > Len(positions)
  <1>1. DOMAIN positions' = 1..Len(positions') /\ Len(positions') \in Nat
    BY LenProperties DEF Follows
  <1> QED
    BY <1>1, Tables DEF Follows, PositionIds

(* A change of the batch b alone. *)
LEMMA BatchTypes ==
    ASSUME TypeOK, Refer, NEW b \in BatchIds, NEW new \in Nullable(PlanChangeSet),
           batches' = [ batches EXCEPT ![b] = new ],
           new # NULL => \A row \in ItemRows(new.items) :
                            new.items[row].position \in PositionIds' \cup {NULL},
           \A c \in BatchIds \ {b} : \A row \in ItemRows(batches[c].items) :
                            batches[c].items[row].position \in PositionIds' \cup {NULL}
    PROVE  /\ batches' \in Seq(Nullable(PlanChangeSet))
           /\ \A c \in BatchIds' : \A row \in ItemRows(batches'[c].items) :
                    batches'[c].items[row].position \in PositionIds' \cup {NULL}
  <1>1. b \in 1..Len(batches) /\ DOMAIN batches = 1..Len(batches)
    BY Tables
  <1>2. /\ batches' \in Seq(Nullable(PlanChangeSet)) /\ DOMAIN batches' = DOMAIN batches
        /\ batches'[b] = new
        /\ \A c \in 1..Len(batches) : c # b => batches'[c] = batches[c]
    BY <1>1, ExceptSeq DEF TypeOK
  <1>3. ASSUME NEW c \in BatchIds', NEW row \in ItemRows(batches'[c].items)
        PROVE  batches'[c].items[row].position \in PositionIds' \cup {NULL}
    <2>1. CASE c = b
      <3>1. new # NULL
        BY <1>2, <2>1 DEF BatchIds
      <3> QED
        BY <1>2, <2>1, <3>1
    <2>2. CASE c # b
      <3>1. c \in BatchIds \ {b} /\ batches'[c] = batches[c]
        BY <1>1, <1>2, <2>2 DEF BatchIds
      <3> QED
        BY <3>1
    <2> QED
      BY <2>1, <2>2
  <1> QED
    BY <1>2, <1>3

(* Apply keeps types and references, and every position. *)
LEMMA ApplyTypes ==
    ASSUME TypeOK, Refer, NEW b \in BatchIds, NEW skipInvalid \in BOOLEAN, Apply(b, skipInvalid)
    PROVE  TypeOK' /\ Refer' /\ Follows(positions')
  <1> DEFINE applied == Applied(b, skipInvalid)
             new == NewRows(b, applied)
             rows == AppliedRows(b, skipInvalid)
             items == batches[b].items
             linked == [ row \in Rows |->
                IF \E n \in DOMAIN new : new[n] = row
                THEN [ items[row] EXCEPT !.position = Len(positions) + CHOOSE n \in DOMAIN new : new[n] = row ]
                ELSE items[row] ]
             set == [ status |-> "applied", items |-> linked ]
  <1>1. /\ positions' = rows
        /\ UNCHANGED << releases, planStatus, launches >>
    BY DEF Apply
  <1>2. batches' = [ batches EXCEPT ![b] = set ]
    BY DEF Apply
  <1>3. /\ items \in [ Rows -> Nullable(PlanChangeItem) ]
        /\ applied \in [ Rows -> Nullable(PlanChangeItem) ]
        /\ \A row \in ItemRows(applied) : row \in ItemRows(items)
    BY AppliedType
  <1>4. /\ Len(new) \in Nat /\ DOMAIN new = 1..Len(new)
        /\ \A n \in 1..Len(new) : new[n] \in ItemRows(applied)
    BY <1>3, NewRowsType
  <1>5. Follows(rows) /\ Len(rows) = Len(positions) + Len(new)
    BY AppliedRowsFollow
  <1>6. /\ PositionIds \subseteq PositionIds' /\ Len(positions) \in Nat
        /\ \A p \in 1..Len(positions) + Len(new) : p > Len(positions) => p \in PositionIds'
    <2> HIDE DEF rows, new
    <2> QED
      BY <1>1, <1>5, FollowedIds, Tables
  <1> HIDE DEF applied, new, rows, items
  <1>7. ASSUME NEW row \in Rows
        PROVE  linked[row] = NULL \/ ( /\ linked[row] \in PlanChangeItem
                                       /\ linked[row].position \in PositionIds' \cup {NULL} )
    <2>1. CASE \E n \in DOMAIN new : new[n] = row
      <3> DEFINE n == CHOOSE n \in DOMAIN new : new[n] = row
      <3>1. n \in 1..Len(new) /\ new[n] = row
        BY <1>4, <2>1
      <3>2. linked[row] = [ items[row] EXCEPT !.position = Len(positions) + n ]
        BY <2>1
      <3> HIDE DEF n, linked
      <3>3. Len(positions) + n \in PositionIds' /\ Len(positions) + n \in Nat
        BY <1>4, <1>6, <3>1
      <3>4. items[row] \in PlanChangeItem
        BY <1>3, <1>4, <3>1 DEF ItemRows, Nullable
      <3> QED
        BY <3>2, <3>3, <3>4 DEF PlanChangeItem, Nullable
    <2>2. CASE ~ \E n \in DOMAIN new : new[n] = row
      <3>1. linked[row] = items[row]
        BY <2>2
      <3> HIDE DEF linked
      <3>2. items[row] = NULL \/ items[row].position \in PositionIds \cup {NULL}
        BY Refer DEF Refer, ItemRows, items
      <3> QED
        BY <1>3, <1>6, <3>1, <3>2 DEF Nullable
    <2> QED
      BY <2>1, <2>2
  <1>8. set \in Nullable(PlanChangeSet)
    <2>1. linked \in [ Rows -> Nullable(PlanChangeItem) ]
      BY <1>7 DEF Nullable
    <2> HIDE DEF linked
    <2> QED
      BY <2>1 DEF PlanChangeSet, Nullable
  <1>9. \A row \in ItemRows(set.items) : set.items[row].position \in PositionIds' \cup {NULL}
    BY <1>7 DEF ItemRows
  <1> HIDE DEF set
  <1>10. /\ batches' \in Seq(Nullable(PlanChangeSet))
         /\ \A c \in BatchIds' : \A row \in ItemRows(batches'[c].items) :
                    batches'[c].items[row].position \in PositionIds' \cup {NULL}
    <2>1. \A c \in BatchIds \ {b} : \A row \in ItemRows(batches[c].items) :
                    batches[c].items[row].position \in PositionIds' \cup {NULL}
      BY <1>6, Refer DEF Refer
    <2> QED
      BY <1>2, <1>8, <1>9, <2>1, BatchTypes
  <1>11. TypeOK'
    BY <1>1, <1>5, <1>10 DEF TypeOK, Follows
  <1>12. Refer'
    BY <1>1, <1>6, <1>10, Refer DEF Refer, ReleaseIds
  <1> QED
    BY <1>1, <1>5, <1>11, <1>12

(* A rollback leaves the same positions. *)
LEMMA RolledBackIds ==
    ASSUME TypeOK, Refer, NEW b \in BatchIds, positions' = RolledBack(b)
    PROVE  /\ PositionIds' = PositionIds
           /\ \A p \in PositionIds : positions'[p].batch = positions[p].batch
  <1>1. Follows(positions') /\ Len(positions') = Len(positions)
    BY RolledBackFollows
  <1>2. \A p \in PositionIds : positions'[p].batch = positions[p].batch
    BY RolledBackFollows
  <1>3. /\ PositionIds \subseteq PositionIds'
        /\ \A p \in PositionIds' : p \in PositionIds \/ p > Len(positions)
        /\ PositionIds' \subseteq 1..Len(positions') /\ Len(positions) \in Nat
    BY <1>1, FollowedIds, Tables DEF PositionIds
  <1>4. PositionIds' \subseteq PositionIds
    BY <1>1, <1>3
  <1> QED
    BY <1>2, <1>3, <1>4

(* A rollback keeps types, references, positions and their batches. *)
LEMMA RollBackTypes ==
    ASSUME TypeOK, Refer, NEW b \in BatchIds, RollBack(b)
    PROVE  /\ TypeOK' /\ Refer' /\ Follows(positions')
           /\ PositionIds' = PositionIds
           /\ \A p \in PositionIds : positions'[p].batch = positions[p].batch
  <1> DEFINE set == [ batches[b] EXCEPT !.status = "cancelled" ]
  <1>1. /\ positions' = RolledBack(b)
        /\ UNCHANGED << releases, planStatus, launches >>
    BY DEF RollBack
  <1>2. batches' = [ batches EXCEPT ![b] = set ]
    BY Tables DEF RollBack
  <1>3. Follows(positions') /\ PositionIds \subseteq PositionIds'
    BY <1>1, RolledBackFollows, FollowedIds
  <1>4. set \in Nullable(PlanChangeSet) /\ set.items = batches[b].items
    BY Tables DEF PlanChangeSet, Nullable
  <1>5. /\ \A row \in ItemRows(set.items) : set.items[row].position \in PositionIds' \cup {NULL}
        /\ \A c \in BatchIds \ {b} : \A row \in ItemRows(batches[c].items) :
                    batches[c].items[row].position \in PositionIds' \cup {NULL}
    BY <1>3, <1>4, Refer DEF Refer
  <1> HIDE DEF set
  <1>6. /\ batches' \in Seq(Nullable(PlanChangeSet))
        /\ \A c \in BatchIds' : \A row \in ItemRows(batches'[c].items) :
                    batches'[c].items[row].position \in PositionIds' \cup {NULL}
    BY <1>2, <1>4, <1>5, BatchTypes
  <1>7. TypeOK'
    BY <1>1, <1>3, <1>6 DEF TypeOK, Follows
  <1>8. Refer'
    BY <1>1, <1>3, <1>6, Refer DEF Refer, ReleaseIds
  <1>9. /\ PositionIds' = PositionIds
        /\ \A p \in PositionIds : positions'[p].batch = positions[p].batch
    BY <1>1, RolledBackIds
  <1> QED
    BY <1>3, <1>7, <1>8, <1>9

(* A batch goes: what the others name is still there. *)
LEMMA BatchGone ==
    ASSUME TypeOK, Refer, NEW b \in BatchIds, batches' = [ batches EXCEPT ![b] = NULL ],
           \A c \in BatchIds \ {b} : \A row \in ItemRows(batches[c].items) :
                            batches[c].items[row].position \in PositionIds' \cup {NULL}
    PROVE  /\ batches' \in Seq(Nullable(PlanChangeSet))
           /\ \A c \in BatchIds' : \A row \in ItemRows(batches'[c].items) :
                    batches'[c].items[row].position \in PositionIds' \cup {NULL}
  <1>1. NULL \in Nullable(PlanChangeSet)
    BY DEF Nullable
  <1> QED
    BY <1>1, BatchTypes

(* Discarding a set keeps them too. *)
LEMMA DiscardTypes ==
    ASSUME TypeOK, Refer, NEW b \in BatchIds, Discard(b)
    PROVE  /\ TypeOK' /\ Refer' /\ Follows(positions')
           /\ PositionIds' = PositionIds
           /\ \A p \in PositionIds : positions'[p].batch = positions[p].batch
  <1>1. /\ positions' = RolledBack(b) \/ positions' = positions
        /\ batches' = [ batches EXCEPT ![b] = NULL ]
        /\ UNCHANGED << releases, planStatus, launches >>
    BY DEF Discard
  <1>2. Follows(positions)
    BY FollowsItself
  <1>3. Follows(positions') /\ PositionIds \subseteq PositionIds'
    BY <1>1, <1>2, RolledBackFollows, FollowedIds
  <1>4. /\ batches' \in Seq(Nullable(PlanChangeSet))
        /\ \A c \in BatchIds' : \A row \in ItemRows(batches'[c].items) :
                    batches'[c].items[row].position \in PositionIds' \cup {NULL}
    <2>1. \A c \in BatchIds \ {b} : \A row \in ItemRows(batches[c].items) :
                    batches[c].items[row].position \in PositionIds' \cup {NULL}
      BY <1>3, Refer DEF Refer
    <2> QED
      BY <1>1, <2>1, BatchGone
  <1>5. TypeOK'
    BY <1>1, <1>3, <1>4 DEF TypeOK, Follows
  <1>6. Refer'
    BY <1>1, <1>3, <1>4, Refer DEF Refer, ReleaseIds
  <1>7. /\ PositionIds' = PositionIds
        /\ \A p \in PositionIds : positions'[p].batch = positions[p].batch
    <2>1. CASE positions' = RolledBack(b)
      BY <2>1, RolledBackIds
    <2>2. CASE positions' = positions
      BY <2>2 DEF PositionIds
    <2> QED
      BY <1>1, <2>1, <2>2
  <1> QED
    BY <1>3, <1>5, <1>6, <1>7

----------------------------------------------------------------------------
(* What a deletion leaves.                                                  *)

(* The positions ids go, of a table that follows the one of before. *)
Deleted(rest, ids) == [ p \in DOMAIN rest |-> IF p \in ids THEN NULL ELSE rest[p] ]

(* Deleting positions leaves the others as they were. *)
LEMMA DeletedRows ==
    ASSUME TypeOK, NEW rest, Follows(rest), Len(rest) = Len(positions),
           NEW ids \in SUBSET PositionIds, positions' = Deleted(rest, ids)
    PROVE  /\ positions' \in Seq(Nullable(PlanPosition)) /\ Len(positions') = Len(positions)
           /\ PositionIds' = PositionIds \ ids
           /\ \A p \in PositionIds' : positions'[p] = rest[p] /\ Handled(positions'[p], p)
  <1>1. /\ Len(positions) \in Nat /\ DOMAIN rest = 1..Len(positions)
        /\ \A p \in 1..Len(positions) : rest[p] \in Nullable(PlanPosition)
    BY Tables, LenProperties, ElementOfSeq DEF Follows
  <1>2. positions' \in [ 1..Len(positions) -> Nullable(PlanPosition) ]
    BY <1>1 DEF Deleted, Nullable
  <1>3. positions' \in Seq(Nullable(PlanPosition)) /\ Len(positions') = Len(positions)
    BY <1>1, <1>2, RowByRow
  <1>4. \A p \in 1..Len(positions) : positions'[p] = IF p \in ids THEN NULL ELSE rest[p]
    BY <1>1 DEF Deleted
  <1>5. PositionIds' = PositionIds \ ids
    BY <1>1, <1>2, <1>4, Tables DEF PositionIds, Follows
  <1> QED
    BY <1>3, <1>4, <1>5, Tables DEF Follows

(* With positions go their release batches, and no others. *)
LEMMA WithoutRows ==
    ASSUME TypeOK, Refer, NEW ids \in SUBSET PositionIds, releases' = Without(ids)
    PROVE  /\ releases' \in Seq(Nullable(ReleaseBatch)) /\ DOMAIN releases' = DOMAIN releases
           /\ ReleaseIds' = { r \in ReleaseIds : releases[r].position \notin ids }
           /\ \A r \in ReleaseIds' : releases'[r] = releases[r]
           /\ \A r \in ReleaseIds' : releases'[r].position \in PositionIds \ ids
  <1>1. /\ Len(releases) \in Nat /\ DOMAIN releases = 1..Len(releases)
        /\ \A r \in 1..Len(releases) : releases[r] \in Nullable(ReleaseBatch)
    BY Tables, ElementOfSeq DEF TypeOK
  <1>2. \A r \in 1..Len(releases) :
            releases'[r] = IF r \in ReleaseIds /\ releases[r].position \in ids THEN NULL ELSE releases[r]
    BY <1>1 DEF Without, ReleasesOf
  <1>3. releases' \in [ 1..Len(releases) -> Nullable(ReleaseBatch) ]
    BY <1>1 DEF Without, Nullable
  <1>4. releases' \in Seq(Nullable(ReleaseBatch)) /\ Len(releases') = Len(releases)
    BY <1>1, <1>3, RowByRow
  <1>5. ReleaseIds' = { r \in ReleaseIds : releases[r].position \notin ids }
    BY <1>1, <1>2, <1>3, Tables DEF ReleaseIds
  <1>6. \A r \in ReleaseIds' : releases'[r] = releases[r] /\ releases'[r].position \in PositionIds \ ids
    BY <1>2, <1>5, Tables, Refer DEF Refer
  <1> QED
    BY <1>1, <1>3, <1>4, <1>5, <1>6

(* No batch but b names what is deleted. *)
LEMMA OthersRefer ==
    ASSUME TypeOK, Refer, NEW b, NEW ids, ~Referred(ids, DOMAIN batches \ {b})
    PROVE  \A c \in BatchIds \ {b} : \A row \in ItemRows(batches[c].items) :
                batches[c].items[row].position \in (PositionIds \ ids) \cup {NULL}
  BY Refer DEF Refer, Referred, On, BatchIds

(* The deletion of an import takes its positions and leaves the others their type and batch. *)
LEMMA DeleteImportBatchTypes ==
    ASSUME TypeOK, Refer, NEW b \in BatchIds, DeleteImportBatch(b)
    PROVE  /\ TypeOK' /\ Refer'
           /\ \A p \in PositionIds' : p \in PositionIds /\ Handled(positions'[p], p)
           /\ \A p \in PositionIds' : positions'[p].batch = positions[p].batch
           /\ PositionIds' = PositionIds \ PositionsOf(b)
  <1> DEFINE ids == PositionsOf(b)
             rest == IF batches[b].status = "applied" THEN RolledBack(b) ELSE positions
  <1>1. /\ positions' = Deleted(rest, ids)
        /\ batches' = [ batches EXCEPT ![b] = NULL ]
        /\ releases' = Without(ids)
        /\ UNCHANGED << planStatus, launches >>
        /\ ~Referred(ids, DOMAIN batches \ {b})
    BY DEF DeleteImportBatch, Deleted
  <1>2. Follows(rest) /\ Len(rest) = Len(positions)
    <2>1. Follows(positions)
      BY FollowsItself
    <2> QED
      BY <2>1, RolledBackFollows
  <1>3. ids \in SUBSET PositionIds
    BY DEF PositionsOf
  <1>a. \A p \in PositionIds : rest[p].batch = positions[p].batch
    BY RolledBackFollows
  <1> HIDE DEF ids, rest
  <1>4. /\ positions' \in Seq(Nullable(PlanPosition))
        /\ PositionIds' = PositionIds \ ids
        /\ \A p \in PositionIds' :
                Handled(positions'[p], p) /\ positions'[p].batch = positions[p].batch
    BY <1>1, <1>2, <1>3, <1>a, DeletedRows
  <1>5. /\ releases' \in Seq(Nullable(ReleaseBatch))
        /\ \A r \in ReleaseIds' : releases'[r].position \in PositionIds'
    BY <1>1, <1>3, <1>4, WithoutRows
  <1>6. /\ batches' \in Seq(Nullable(PlanChangeSet))
        /\ \A c \in BatchIds' : \A row \in ItemRows(batches'[c].items) :
                    batches'[c].items[row].position \in PositionIds' \cup {NULL}
    <2>1. \A c \in BatchIds \ {b} : \A row \in ItemRows(batches[c].items) :
                    batches[c].items[row].position \in PositionIds' \cup {NULL}
      BY <1>1, <1>4, OthersRefer
    <2> QED
      BY <1>1, <2>1, BatchGone
  <1>7. TypeOK'
    BY <1>1, <1>4, <1>5, <1>6 DEF TypeOK
  <1>8. Refer'
    BY <1>5, <1>6 DEF Refer
  <1> QED
    BY <1>4, <1>7, <1>8 DEF ids

(* The deletion of its drafts takes these and leaves the others as they were. *)
LEMMA DeleteDraftsOnlyTypes ==
    ASSUME TypeOK, Refer, NEW b \in BatchIds, DeleteDraftsOnly(b)
    PROVE  /\ TypeOK' /\ Refer'
           /\ \A p \in PositionIds' : p \in PositionIds /\ Handled(positions'[p], p)
           /\ PositionIds' = PositionIds \ SafelyDeletable(b)
           /\ \A p \in PositionIds' : positions'[p] = positions[p]
  <1> DEFINE ids == SafelyDeletable(b)
             items == batches[b].items
             undo == batches[b].status = "applied" /\ ~Kept(b)
             rest == IF undo THEN RolledBack(b) ELSE positions
             forgotten == [ batches[b] EXCEPT !.items =
                            [ row \in Rows |->
                                IF \E p \in ids : row \in On(p, items)
                                THEN [ items[row] EXCEPT !.position = NULL ] ELSE items[row] ] ]
             none == [ status |-> "none", items |-> [ row \in Rows |-> NULL ] ]
             new == IF Kept(b) THEN forgotten ELSE IF PositionsOf(b) = ids THEN NULL ELSE none
  <1>1. /\ positions' = Deleted(rest, ids)
        /\ batches' = [ batches EXCEPT ![b] = new ]
        /\ releases' = Without(ids)
        /\ UNCHANGED << planStatus, launches >>
        /\ ~Referred(ids, DOMAIN batches \ {b})
    BY Tables DEF DeleteDraftsOnly, Deleted
  <1>2. Follows(rest) /\ Len(rest) = Len(positions)
    <2>1. Follows(positions)
      BY FollowsItself
    <2> QED
      BY <2>1, RolledBackFollows
  <1>3. ids \in SUBSET PositionIds
    BY DEF PositionsOf, SafelyDeletable
  <1>4. \A p \in PositionIds \ ids : rest[p] = positions[p]
    <2>1. CASE undo
      <3>1. \A p \in PositionIds \ ids : On(p, items) = {}
        BY <2>1 DEF Kept
      <3> QED
        BY <2>1, <3>1, RolledBackFollows
    <2>2. CASE ~undo
      BY <2>2
    <2> QED
      BY <2>1, <2>2
  <1>5. items \in [ Rows -> Nullable(PlanChangeItem) ] /\ batches[b] \in PlanChangeSet
    BY Tables DEF PlanChangeSet
  <1> HIDE DEF ids, rest
  <1>6. /\ positions' \in Seq(Nullable(PlanPosition))
        /\ PositionIds' = PositionIds \ ids
        /\ \A p \in PositionIds' : positions'[p] = rest[p] /\ Handled(positions'[p], p)
    BY <1>1, <1>2, <1>3, DeletedRows
  <1>7. /\ releases' \in Seq(Nullable(ReleaseBatch))
        /\ \A r \in ReleaseIds' : releases'[r].position \in PositionIds'
    BY <1>1, <1>3, <1>6, WithoutRows
  <1>8. /\ forgotten \in Nullable(PlanChangeSet)
        /\ \A row \in ItemRows(forgotten.items) :
                forgotten.items[row].position \in PositionIds' \cup {NULL}
    <2> DEFINE fewer == [ row \in Rows |->
                            IF \E p \in ids : row \in On(p, items)
                            THEN [ items[row] EXCEPT !.position = NULL ] ELSE items[row] ]
    <2>1. ASSUME NEW row \in Rows
          PROVE  \/ fewer[row] = NULL
                 \/ fewer[row] \in PlanChangeItem /\ fewer[row].position \in PositionIds' \cup {NULL}
      <3>1. CASE \E p \in ids : row \in On(p, items)
        <4>1. items[row] \in PlanChangeItem /\ fewer[row] = [ items[row] EXCEPT !.position = NULL ]
          BY <1>5, <3>1 DEF On, ItemRows, Nullable
        <4> HIDE DEF fewer
        <4> QED
          BY <4>1 DEF PlanChangeItem, Nullable
      <3>2. CASE ~ \E p \in ids : row \in On(p, items)
        <4>1. fewer[row] = items[row]
          BY <3>2
        <4> HIDE DEF fewer
        <4>2. items[row] # NULL => items[row].position \in PositionIds' \cup {NULL}
          BY <1>6, <3>2, Refer DEF Refer, On, ItemRows
        <4> QED
          BY <1>5, <4>1, <4>2 DEF Nullable
      <3> QED
        BY <3>1, <3>2
    <2>2. fewer \in [ Rows -> Nullable(PlanChangeItem) ]
      BY <2>1 DEF Nullable
    <2>3. forgotten = [ batches[b] EXCEPT !.items = fewer ]
      OBVIOUS
    <2> HIDE DEF fewer, forgotten
    <2>4. forgotten \in PlanChangeSet /\ forgotten.items = fewer
      BY <1>5, <2>2, <2>3 DEF PlanChangeSet
    <2> QED
      BY <2>1, <2>4 DEF ItemRows, Nullable
  <1>9. none \in Nullable(PlanChangeSet) /\ ItemRows(none.items) = {}
    BY DEF PlanChangeSet, Nullable, ItemRows
  <1>10. /\ new \in Nullable(PlanChangeSet)
         /\ new # NULL => \A row \in ItemRows(new.items) :
                            new.items[row].position \in PositionIds' \cup {NULL}
    <2> HIDE DEF forgotten, none
    <2>1. NULL \in Nullable(PlanChangeSet)
      BY DEF Nullable
    <2> QED
      BY <1>8, <1>9, <2>1
  <1> HIDE DEF new
  <1>11. /\ batches' \in Seq(Nullable(PlanChangeSet))
         /\ \A c \in BatchIds' : \A row \in ItemRows(batches'[c].items) :
                    batches'[c].items[row].position \in PositionIds' \cup {NULL}
    <2>1. \A c \in BatchIds \ {b} : \A row \in ItemRows(batches[c].items) :
                    batches[c].items[row].position \in PositionIds' \cup {NULL}
      BY <1>1, <1>6, OthersRefer
    <2> QED
      BY <1>1, <1>10, <2>1, BatchTypes
  <1>12. TypeOK'
    BY <1>1, <1>6, <1>7, <1>11 DEF TypeOK
  <1>13. Refer'
    BY <1>7, <1>11 DEF Refer
  <1> QED
    BY <1>4, <1>6, <1>12, <1>13 DEF ids
----------------------------------------------------------------------------
(* What release batches hold of a position.                                 *)

(* What release batches hold of a position is a number. *)
LEMMA AmountsType ==
    ASSUME NEW rows \in Seq(Nullable(ReleaseBatch)), NEW p
    PROVE  /\ Len(rows) \in Nat /\ DOMAIN rows = 1..Len(rows)
           /\ AmountsOf(rows, p) \in [ 1..Len(rows) -> Nat ]
           /\ ReleasedQuantity(rows, p) \in Nat
  <1>1. Len(rows) \in Nat /\ DOMAIN rows = 1..Len(rows)
    BY LenProperties
  <1>2. \A r \in 1..Len(rows) : rows[r] \in Nullable(ReleaseBatch)
    BY ElementOfSeq
  <1>3. AmountsOf(rows, p) \in [ 1..Len(rows) -> Nat ]
    BY <1>1, <1>2 DEF AmountsOf, Nullable, ReleaseBatch, Quantity
  <1> QED
    BY <1>1, <1>3, TotalFinite DEF ReleasedQuantity

(* It depends on the position and the quantity of each only. *)
LEMMA HeldSame ==
    ASSUME NEW rows, NEW others, DOMAIN others = DOMAIN rows, NEW p,
           \A r \in DOMAIN rows :
                \/ others[r] = rows[r]
                \/ /\ ~(rows[r] # NULL /\ rows[r].position = p)
                   /\ ~(others[r] # NULL /\ others[r].position = p)
                \/ /\ rows[r] # NULL /\ others[r] # NULL
                   /\ others[r].position = rows[r].position /\ others[r].quantity = rows[r].quantity
    PROVE  ReleasedQuantity(others, p) = ReleasedQuantity(rows, p)
  <1>1. AmountsOf(others, p) = AmountsOf(rows, p)
    BY DEF AmountsOf
  <1> QED
    BY <1>1 DEF ReleasedQuantity

(* One release batch more holds its quantity more, of its own position. *)
LEMMA HeldMore ==
    ASSUME NEW rows \in Seq(Nullable(ReleaseBatch)), NEW held \in ReleaseBatch, NEW p
    PROVE  ReleasedQuantity(Append(rows, held), p) =
             ReleasedQuantity(rows, p) + (IF held.position = p THEN held.quantity ELSE 0)
  <1> DEFINE more == Append(rows, held)
             n == Len(rows)
  <1>1. held \in Nullable(ReleaseBatch) /\ held # NULL
    BY NullIsNoRow DEF Nullable
  <1>2. /\ more \in Seq(Nullable(ReleaseBatch)) /\ Len(more) = n + 1
        /\ \A r \in 1..n : more[r] = rows[r]
        /\ more[n + 1] = held
    BY <1>1, AppendProperties
  <1>3. /\ n \in Nat /\ AmountsOf(rows, p) \in [ 1..n -> Nat ] /\ DOMAIN rows = 1..n
        /\ AmountsOf(more, p) \in [ 1..(n + 1) -> Nat ] /\ DOMAIN more = 1..(n + 1)
    BY <1>2, AmountsType
  <1> HIDE DEF more, n
  <1>4. \A r \in 1..n : AmountsOf(more, p)[r] = AmountsOf(rows, p)[r]
    BY <1>2, <1>3 DEF AmountsOf
  <1>5. AmountsOf(more, p)[n + 1] = IF held.position = p THEN held.quantity ELSE 0
    BY <1>1, <1>2, <1>3 DEF AmountsOf
  <1>6. Total(AmountsOf(more, p)) = Total(AmountsOf(rows, p)) + AmountsOf(more, p)[n + 1]
    BY <1>3, <1>4, TotalExtended
  <1> QED
    BY <1>5, <1>6 DEF ReleasedQuantity, more

(* Nothing is held of a position without release batches. *)
LEMMA HeldNone ==
    ASSUME NEW rows \in Seq(Nullable(ReleaseBatch)), NEW p,
           \A r \in DOMAIN rows : rows[r] # NULL => rows[r].position # p
    PROVE  ReleasedQuantity(rows, p) = 0
  <1>1. \A r \in DOMAIN rows : AmountsOf(rows, p)[r] = 0
    BY DEF AmountsOf
  <1>2. DOMAIN AmountsOf(rows, p) = DOMAIN rows
    BY DEF AmountsOf
  <1>3. Tally(AmountsOf(rows, p)) = {}
    BY <1>1, <1>2 DEF Tally
  <1> QED
    BY <1>3, FS_EmptySet DEF ReleasedQuantity, Total
----------------------------------------------------------------------------
(* What a step does to the positions and to what release batches hold.      *)

Alone(p) ==
    \A q \in PositionIds' \ {p} : positions'[q].row = positions'[p].row => ~Active(positions'[q])

(* A position in use was so before, or its checks were overridden, or no     *)
(* other of its row is; none goes that is released or has passed material on. *)
(* Only the application of a change set adds one or takes it over.           *)
Applying == \E b \in BatchIds, skipInvalid \in BOOLEAN : Apply(b, skipInvalid)

WorkStep ==
    /\ \/ Applying
       \/ \A p \in PositionIds' : p \in PositionIds /\ positions'[p].batch = positions[p].batch
    /\ overridden \subseteq overridden'
    /\ \A p \in PositionIds \ PositionIds' :
        positions[p].status # "released" /\ (HasLines(p) => ~positions[p].moved)
    /\ \A p \in PositionIds' :
        IF p \in PositionIds
        THEN /\ positions'[p].row = positions[p].row
             /\ positions'[p].moved => positions[p].moved \/ HasLines(p)
             /\ Active(positions'[p]) => Active(positions[p]) \/ p \in overridden' \/ Alone(p)
        ELSE ~Active(positions'[p]) /\ ~positions'[p].moved

(* Tasks stay with their position; what is held of it grows only within its  *)
(* quantity, or its checks were outdated.                                   *)
HeldStep ==
    \A p \in PositionIds' :
        IF p \in PositionIds
        THEN /\ HasLines(p) => HasLines(p)'
             /\ \/ p \in overridden'
                \/ ReleasedQuantity(releases', p) = ReleasedQuantity(releases, p)
                \/ ReleasedQuantity(releases', p) <= positions'[p].quantity
        ELSE ReleasedQuantity(releases', p) = 0

(* A step without release batches leaves what is held. *)
LEMMA HeldUnchanged ==
    ASSUME TypeOK, Refer, releases' = releases
    PROVE  HeldStep
  <1>1. ASSUME NEW p, p \notin PositionIds
        PROVE  ReleasedQuantity(releases, p) = 0
    <2>1. \A r \in DOMAIN releases : releases[r] # NULL => releases[r].position # p
      BY <1>1, Refer DEF Refer, ReleaseIds
    <2> QED
      BY <2>1, HeldNone DEF TypeOK
  <1>2. \A p : HasLines(p) => HasLines(p)'
    BY DEF HasLines, ReleasesOf, ReleaseIds
  <1> QED
    BY <1>1, <1>2 DEF HeldStep

(* So does a deletion, of the positions that remain. *)
LEMMA HeldWithout ==
    ASSUME TypeOK, Refer, NEW ids \in SUBSET PositionIds, releases' = Without(ids),
           PositionIds' = PositionIds \ ids
    PROVE  HeldStep
  <1> SUFFICES ASSUME NEW p \in PositionIds \ ids
               PROVE  /\ HasLines(p) => HasLines(p)'
                      /\ ReleasedQuantity(releases', p) = ReleasedQuantity(releases, p)
    BY DEF HeldStep
  <1>1. /\ DOMAIN releases' = DOMAIN releases
        /\ ReleaseIds' = { r \in ReleaseIds : releases[r].position \notin ids }
        /\ \A r \in ReleaseIds' : releases'[r] = releases[r]
    BY WithoutRows
  <1>2. HasLines(p) => HasLines(p)'
    BY <1>1 DEF HasLines, ReleasesOf
  <1>3. ASSUME NEW r \in DOMAIN releases
        PROVE  \/ releases'[r] = releases[r]
               \/ /\ ~(releases[r] # NULL /\ releases[r].position = p)
                  /\ ~(releases'[r] # NULL /\ releases'[r].position = p)
    BY <1>1 DEF ReleaseIds
  <1>4. ReleasedQuantity(releases', p) = ReleasedQuantity(releases, p)
    BY <1>1, <1>3, HeldSame
  <1> QED
    BY <1>2, <1>4

(* A new release batch holds no more than there was room for, or its position is marked. *)
LEMMA HeldAppended ==
    ASSUME TypeOK, Refer, NEW held \in ReleaseBatch, releases' = Append(releases, held),
           held.position \in PositionIds, PositionIds' = PositionIds,
           \/ held.position \in overridden'
           \/ ReleasedQuantity(releases, held.position) + held.quantity <= positions'[held.position].quantity
    PROVE  /\ HeldStep /\ releases' \in Seq(Nullable(ReleaseBatch))
           /\ \A r \in ReleaseIds' : releases'[r].position \in PositionIds'
  <1>1. held \in Nullable(ReleaseBatch)
    BY DEF Nullable
  <1>2. /\ releases' \in Seq(Nullable(ReleaseBatch)) /\ Len(releases') = Len(releases) + 1
        /\ \A r \in 1..Len(releases) : releases'[r] = releases[r]
        /\ releases'[Len(releases) + 1] = held
    BY <1>1, AppendProperties DEF TypeOK
  <1>3. /\ DOMAIN releases = 1..Len(releases) /\ Len(releases) \in Nat
        /\ DOMAIN releases' = 1..(Len(releases) + 1)
    BY <1>2, Tables, LenProperties
  <1>4. \A r \in ReleaseIds' : releases'[r].position \in PositionIds'
    BY <1>2, <1>3, Refer DEF Refer, ReleaseIds
  <1>5. \A p : HasLines(p) => HasLines(p)'
    BY <1>2, <1>3 DEF HasLines, ReleasesOf, ReleaseIds
  <1>6. ASSUME NEW p \in PositionIds
        PROVE  \/ p \in overridden'
               \/ ReleasedQuantity(releases', p) = ReleasedQuantity(releases, p)
               \/ ReleasedQuantity(releases', p) <= positions'[p].quantity
    <2>1. /\ ReleasedQuantity(releases, p) \in Nat
          /\ ReleasedQuantity(releases', p) =
                ReleasedQuantity(releases, p) + (IF held.position = p THEN held.quantity ELSE 0)
      BY AmountsType, HeldMore DEF TypeOK
    <2> QED
      BY <2>1
  <1> QED
    BY <1>2, <1>4, <1>5, <1>6 DEF HeldStep

(* Apply, and whatever keeps positions and batches, takes no work and starts none. *)
LEMMA FollowedWork ==
    ASSUME TypeOK, overridden' = overridden, Follows(positions'),
           \/ Applying
           \/ \A p \in PositionIds' : p \in PositionIds /\ positions'[p].batch = positions[p].batch
    PROVE  WorkStep
  <1>1. \A p \in PositionIds : Handled(positions'[p], p)
    BY Tables DEF Follows
  <1>2. \A p \in PositionIds' : p \notin PositionIds => ~Active(positions'[p]) /\ ~positions'[p].moved
    BY FollowedIds DEF Follows, PositionIds
  <1> QED
    BY <1>1, <1>2, FollowedIds DEF WorkStep, Handled

(* A deletion takes no work if it spares positions that are released or passed material on. *)
LEMMA RemainedWork ==
    ASSUME overridden' = overridden, PositionIds' \subseteq PositionIds,
           \A p \in PositionIds' :
                Handled(positions'[p], p) /\ positions'[p].batch = positions[p].batch,
           \A p \in PositionIds \ PositionIds' :
                positions[p].status # "released" /\ (HasLines(p) => ~positions[p].moved)
    PROVE  WorkStep
  BY DEF WorkStep, Handled

(* A change of the position p alone. *)
LEMMA SetRows ==
    ASSUME TypeOK, NEW p \in PositionIds, NEW new \in PlanPosition, Set(p, new)
    PROVE  /\ positions' \in Seq(Nullable(PlanPosition)) /\ Len(positions') = Len(positions)
           /\ PositionIds' = PositionIds
           /\ positions'[p] = new
           /\ \A q \in PositionIds \ {p} : positions'[q] = positions[q]
  <1>1. p \in 1..Len(positions) /\ new \in Nullable(PlanPosition) /\ new # NULL
    BY Tables, NullIsNoRow DEF Nullable
  <1>2. /\ positions' \in Seq(Nullable(PlanPosition)) /\ Len(positions') = Len(positions)
        /\ \A q \in 1..Len(positions) : positions'[q] = IF q = p THEN new ELSE positions[q]
    BY <1>1, ExceptSeq DEF Set, TypeOK
  <1>3. DOMAIN positions' = 1..Len(positions)
    BY <1>2, LenProperties
  <1> QED
    BY <1>1, <1>2, <1>3, Tables DEF PositionIds

(* A change of one position keeps types and references. *)
LEMMA SetTypes ==
    ASSUME TypeOK, Refer, NEW p \in PositionIds, NEW new \in PlanPosition, Set(p, new),
           UNCHANGED << batches, releases, launches >>, planStatus' \in ProductionPlanStatus
    PROVE  TypeOK' /\ Refer'
  <1>1. TypeOK'
    BY SetRows DEF TypeOK
  <1>2. PositionIds' = PositionIds
    BY SetRows
  <1>3. BatchIds' = BatchIds /\ ReleaseIds' = ReleaseIds /\ batches' = batches /\ releases' = releases
    BY DEF BatchIds, ReleaseIds
  <1>4. Refer'
    BY <1>2, <1>3, Refer DEF Refer
  <1> QED
    BY <1>1, <1>4

(* It takes no work, and starts some only where no other position of the row is active. *)
LEMMA SetWork ==
    ASSUME TypeOK, NEW p \in PositionIds, NEW new \in PlanPosition, Set(p, new),
           overridden \subseteq overridden', new.row = positions[p].row, new.batch = positions[p].batch,
           new.moved => positions[p].moved \/ HasLines(p),
           Active(new) => \/ Active(positions[p]) \/ p \in overridden'
                          \/ \A q \in PositionIds \ {p} :
                                positions[q].row = new.row => ~Active(positions[q])
    PROVE  WorkStep
  <1>1. /\ PositionIds' = PositionIds /\ positions'[p] = new
        /\ \A q \in PositionIds \ {p} : positions'[q] = positions[q]
    BY SetRows
  <1>2. Active(new) => Active(positions[p]) \/ p \in overridden' \/ Alone(p)
    BY <1>1 DEF Alone
  <1> QED
    BY <1>1, <1>2 DEF WorkStep

(* No other position of its row is in use, if there is no duplicate. *)
LEMMA NoDuplicate ==
    ASSUME NEW p \in PositionIds, ~Duplicate(p)
    PROVE  \A q \in PositionIds \ {p} : positions[q].row = positions[p].row => ~Active(positions[q])
  BY DEF Duplicate, Existing, Active

Keeps == TypeOK' /\ Refer' /\ WorkStep /\ HeldStep

(* Approval checks for duplicates or marks what was forced. *)
LEMMA ApproveKeeps ==
    ASSUME TypeOK, Refer, NEW p \in PositionIds, NEW force \in BOOLEAN, Approve(p, force)
    PROVE  Keeps
  <1> DEFINE new == [ positions[p] EXCEPT !.status = "approved" ]
  <1>1. /\ Set(p, new) /\ UNCHANGED << batches, releases, launches >>
        /\ planStatus' \in ProductionPlanStatus
        /\ overridden \subseteq overridden' /\ (Duplicate(p) => p \in overridden')
    BY DEF Approve, TypeOK, ProductionPlanStatus
  <1>2. new \in PlanPosition /\ new.row = positions[p].row /\ new.moved = positions[p].moved
        /\ new.batch = positions[p].batch
    BY Tables DEF PlanPosition, PlanPositionStatus
  <1> HIDE DEF new
  <1>3. TypeOK' /\ Refer'
    BY <1>1, <1>2, SetTypes
  <1>4. WorkStep
    BY <1>1, <1>2, NoDuplicate, SetWork
  <1> QED
    BY <1>1, <1>3, <1>4, HeldUnchanged DEF Keeps

(* A cancellation starts no work. *)
LEMMA CancelKeeps ==
    ASSUME TypeOK, Refer, NEW p \in PositionIds, Cancel(p)
    PROVE  Keeps
  <1> DEFINE new == [ positions[p] EXCEPT !.status = "cancelled", !.cancelledFrom = positions[p].status ]
  <1>1. /\ Set(p, new) /\ UNCHANGED << batches, releases, launches >>
        /\ planStatus' \in ProductionPlanStatus
        /\ overridden' = overridden
    BY DerivedType DEF Cancel
  <1>2. /\ new \in PlanPosition /\ new.row = positions[p].row /\ new.moved = positions[p].moved
        /\ new.batch = positions[p].batch
        /\ ~Active(new)
    BY Tables DEF Cancel, PlanPosition, PlanPositionStatus, Active
  <1> HIDE DEF new
  <1>3. TypeOK' /\ Refer'
    BY <1>1, <1>2, SetTypes
  <1>4. WorkStep
    BY <1>1, <1>2, SetWork
  <1> QED
    BY <1>1, <1>3, <1>4, HeldUnchanged DEF Keeps

(* A restored position is active again, and marked if it is a duplicate. *)
LEMMA RestoreKeeps ==
    ASSUME TypeOK, Refer, NEW p \in PositionIds, Restore(p)
    PROVE  Keeps
  <1> DEFINE new == [ positions[p] EXCEPT !.status = positions[p].cancelledFrom ]
  <1>1. /\ Set(p, new) /\ UNCHANGED << batches, releases, launches >>
        /\ planStatus' \in ProductionPlanStatus
        /\ overridden \subseteq overridden' /\ (Duplicate(p) => p \in overridden')
    BY DerivedType DEF Restore
  <1>2. new \in PlanPosition /\ new.row = positions[p].row /\ new.moved = positions[p].moved
        /\ new.batch = positions[p].batch
    BY Tables DEF Restore, PlanPosition, PlanPositionStatus
  <1> HIDE DEF new
  <1>3. TypeOK' /\ Refer'
    BY <1>1, <1>2, SetTypes
  <1>4. WorkStep
    BY <1>1, <1>2, NoDuplicate, SetWork
  <1> QED
    BY <1>1, <1>3, <1>4, HeldUnchanged DEF Keeps

(* Hiding a cancelled position starts no work. *)
LEMMA HidePositionKeeps ==
    ASSUME TypeOK, Refer, NEW p \in PositionIds, HidePosition(p)
    PROVE  Keeps
  <1> DEFINE new == [ positions[p] EXCEPT !.hidden = TRUE ]
  <1>1. /\ Set(p, new) /\ UNCHANGED << batches, releases, launches >>
        /\ planStatus' \in ProductionPlanStatus
        /\ overridden' = overridden
    BY DEF HidePosition, TypeOK
  <1>2. /\ new \in PlanPosition /\ new.row = positions[p].row /\ new.moved = positions[p].moved
        /\ new.batch = positions[p].batch
        /\ ~Active(new)
    BY Tables DEF HidePosition, PlanPosition, Active
  <1> HIDE DEF new
  <1>3. TypeOK' /\ Refer'
    BY <1>1, <1>2, SetTypes
  <1>4. WorkStep
    BY <1>1, <1>2, SetWork
  <1> QED
    BY <1>1, <1>3, <1>4, HeldUnchanged DEF Keeps

(* Material is passed on only of positions with tasks. *)
LEMMA TransferKeeps ==
    ASSUME TypeOK, Refer, NEW p \in PositionIds, Transfer(p)
    PROVE  Keeps
  <1> DEFINE new == [ positions[p] EXCEPT !.moved = TRUE ]
  <1>1. /\ Set(p, new) /\ UNCHANGED << batches, releases, launches >>
        /\ planStatus' \in ProductionPlanStatus
        /\ overridden' = overridden /\ HasLines(p)
    BY DEF Transfer, TypeOK
  <1>2. /\ new \in PlanPosition /\ new.row = positions[p].row
        /\ Active(new) => Active(positions[p])
    BY Tables DEF PlanPosition, Active
  <1>a. new.batch = positions[p].batch
    BY Tables DEF PlanPosition
  <1> HIDE DEF new
  <1>3. TypeOK' /\ Refer'
    BY <1>1, <1>2, SetTypes
  <1>4. WorkStep
    BY <1>1, <1>2, <1>a, SetWork
  <1> QED
    BY <1>1, <1>3, <1>4, HeldUnchanged DEF Keeps

(* A single deletion takes a position without release batches. *)
LEMMA DeletePositionKeeps ==
    ASSUME TypeOK, Refer, NEW p \in PositionIds, DeletePosition(p)
    PROVE  Keeps /\ PositionIds' = PositionIds \ {p}
  <1> DEFINE items(b) == [ row \in Rows |-> IF row \in On(p, batches[b].items) THEN NULL
                                            ELSE batches[b].items[row] ]
  <1>1. /\ positions' = [ positions EXCEPT ![p] = NULL ]
        /\ UNCHANGED << releases, planStatus, launches, overridden >>
        /\ ReleasesOf(p) = {}
    BY DEF DeletePosition, Set
  <1>2. batches' = [ b \in DOMAIN batches |->
                        IF batches[b] = NULL THEN NULL ELSE [ batches[b] EXCEPT !.items = items(b) ] ]
    BY Tables DEF DeletePosition, BatchIds, PlanChangeSet
  <1>3. /\ positions' \in Seq(Nullable(PlanPosition))
        /\ PositionIds' = PositionIds \ {p}
        /\ \A q \in PositionIds' : positions'[q] = positions[q]
    <2>1. NULL \in Nullable(PlanPosition) /\ p \in 1..Len(positions)
      BY Tables DEF Nullable
    <2>2. /\ positions' \in Seq(Nullable(PlanPosition)) /\ Len(positions') = Len(positions)
          /\ \A q \in 1..Len(positions) : positions'[q] = IF q = p THEN NULL ELSE positions[q]
      BY <1>1, <2>1, ExceptSeq DEF TypeOK
    <2>3. DOMAIN positions' = 1..Len(positions)
      BY <2>2, LenProperties
    <2> QED
      BY <2>2, <2>3, Tables DEF PositionIds
  <1>4. ASSUME NEW b \in BatchIds
        PROVE  /\ [ batches[b] EXCEPT !.items = items(b) ] \in PlanChangeSet
               /\ [ batches[b] EXCEPT !.items = items(b) ].items = items(b)
               /\ \A row \in ItemRows(items(b)) : items(b)[row].position \in PositionIds' \cup {NULL}
    <2>1. batches[b] \in PlanChangeSet /\ batches[b].items \in [ Rows -> Nullable(PlanChangeItem) ]
      BY Tables DEF PlanChangeSet
    <2>2. items(b) \in [ Rows -> Nullable(PlanChangeItem) ]
      BY <2>1 DEF Nullable
    <2>3. \A row \in ItemRows(items(b)) : items(b)[row].position \in PositionIds' \cup {NULL}
      BY <1>3, Refer DEF Refer, ItemRows, On
    <2> HIDE DEF items
    <2> QED
      BY <2>1, <2>2, <2>3 DEF PlanChangeSet
  <1> HIDE DEF items
  <1>5. batches' \in Seq(Nullable(PlanChangeSet)) /\ BatchIds' \subseteq BatchIds
    <2>1. batches' \in [ 1..Len(batches) -> Nullable(PlanChangeSet) ]
      BY <1>2, <1>4, Tables DEF Nullable, BatchIds
    <2>2. batches' \in Seq(Nullable(PlanChangeSet))
      BY <2>1, RowByRow, Tables
    <2> QED
      BY <1>2, <2>2 DEF BatchIds
  <1>6. \A b \in BatchIds' : \A row \in ItemRows(batches'[b].items) :
                    batches'[b].items[row].position \in PositionIds' \cup {NULL}
    <2>1. \A b \in BatchIds' : batches'[b] = [ batches[b] EXCEPT !.items = items(b) ]
      BY <1>2, <1>5 DEF BatchIds
    <2> QED
      BY <1>4, <1>5, <2>1
  <1>7. TypeOK'
    BY <1>1, <1>3, <1>5 DEF TypeOK
  <1>8. Refer'
    <2>1. \A r \in ReleaseIds : releases[r].position \in PositionIds \ {p}
      BY <1>1, Refer DEF Refer, ReleasesOf
    <2> QED
      BY <1>1, <1>3, <1>6, <2>1 DEF Refer, ReleaseIds
  <1>9. WorkStep
    <2>1. positions[p].status # "released" /\ ~HasLines(p)
      BY <1>1 DEF DeletePosition, HasLines
    <2> QED
      BY <1>1, <1>3, <2>1, Tables DEF WorkStep
  <1> QED
    BY <1>1, <1>3, <1>7, <1>8, <1>9, HeldUnchanged DEF Keeps

(* Whatever leaves the positions takes no work. *)
LEMMA SameRowsWork ==
    ASSUME positions' = positions, overridden \subseteq overridden'
    PROVE  WorkStep /\ PositionIds' = PositionIds
  BY DEF WorkStep, PositionIds

(* Reading a file changes no position. *)
LEMMA ImportKeeps ==
    ASSUME TypeOK, Refer, NEW file \in Files, NEW replace \in BOOLEAN, NEW match \in Matches,
           Import(file, replace, match)
    PROVE  Keeps
  <1>1. positions' = positions /\ releases' = releases /\ overridden' = overridden
    BY DEF Import
  <1> QED
    BY <1>1, ImportTypes, SameRowsWork, HeldUnchanged DEF Keeps

(* Applying, rolling back and discarding a set take no work. *)
LEMMA ChangeSetKeeps ==
    ASSUME TypeOK, Refer, NEW b \in BatchIds,
           \/ \E skipInvalid \in BOOLEAN : Apply(b, skipInvalid)
           \/ RollBack(b) \/ Discard(b)
    PROVE  Keeps /\ PositionIds \subseteq PositionIds'
  <1>1. TypeOK' /\ Refer' /\ Follows(positions')
    BY ApplyTypes, RollBackTypes, DiscardTypes
  <1>3. \/ Applying
        \/ \A p \in PositionIds' : p \in PositionIds /\ positions'[p].batch = positions[p].batch
    BY RollBackTypes, DiscardTypes DEF Applying
  <1>2. releases' = releases /\ overridden' = overridden
    BY DEF Apply, RollBack, Discard
  <1> QED
    BY <1>1, <1>2, <1>3, FollowedWork, FollowedIds, HeldUnchanged DEF Keeps

(* The deletion of an import is refused for released positions and those that passed material on. *)
LEMMA DeleteImportBatchKeeps ==
    ASSUME TypeOK, Refer, NEW b \in BatchIds, DeleteImportBatch(b)
    PROVE  Keeps /\ PositionIds' = PositionIds \ PositionsOf(b)
  <1>1. /\ TypeOK' /\ Refer'
        /\ \A p \in PositionIds' : p \in PositionIds /\ Handled(positions'[p], p)
        /\ \A p \in PositionIds' : positions'[p].batch = positions[p].batch
        /\ PositionIds' = PositionIds \ PositionsOf(b)
    BY DeleteImportBatchTypes
  <1>2. releases' = Without(PositionsOf(b)) /\ overridden' = overridden
    BY DEF DeleteImportBatch
  <1>3. PositionsOf(b) \in SUBSET PositionIds
    BY DEF PositionsOf
  <1>4. WorkStep
    <2>1. \A p \in PositionsOf(b) : positions[p].status # "released" /\ ~positions[p].moved
      BY DEF DeleteImportBatch, Blocked
    <2> QED
      BY <1>1, <1>2, <2>1, RemainedWork
  <1>5. HeldStep
    BY <1>1, <1>2, <1>3, HeldWithout
  <1> QED
    BY <1>1, <1>4, <1>5 DEF Keeps

(* The deletion of drafts spares all with tasks. *)
LEMMA DeleteDraftsOnlyKeeps ==
    ASSUME TypeOK, Refer, NEW b \in BatchIds, DeleteDraftsOnly(b)
    PROVE  Keeps /\ PositionIds' = PositionIds \ SafelyDeletable(b)
  <1>1. /\ TypeOK' /\ Refer'
        /\ \A p \in PositionIds' : p \in PositionIds /\ Handled(positions'[p], p)
        /\ PositionIds' = PositionIds \ SafelyDeletable(b)
        /\ \A p \in PositionIds' : positions'[p] = positions[p]
    BY DeleteDraftsOnlyTypes
  <1>2. releases' = Without(SafelyDeletable(b)) /\ overridden' = overridden
    BY DEF DeleteDraftsOnly
  <1>3. SafelyDeletable(b) \in SUBSET PositionIds
    BY DEF PositionsOf, SafelyDeletable
  <1>4. WorkStep
    <2>1. \A p \in SafelyDeletable(b) : positions[p].status # "released" /\ ~HasLines(p)
      BY DEF SafelyDeletable
    <2> QED
      BY <1>1, <1>2, <2>1, RemainedWork
  <1>5. HeldStep
    BY <1>1, <1>2, <1>3, HeldWithout
  <1> QED
    BY <1>1, <1>4, <1>5 DEF Keeps

(* A release batch put together by an operation has the type of one. *)
LEMMA HeldReleaseType ==
    ASSUME NEW p \in Nat, NEW quantity \in Quantity, NEW plan \in BOOLEAN, NEW lines \in BOOLEAN,
           NEW released \in BOOLEAN
    PROVE  /\ HeldRelease(p, quantity, plan, lines, released) \in ReleaseBatch
           /\ HeldRelease(p, quantity, plan, lines, released).position = p
           /\ HeldRelease(p, quantity, plan, lines, released).quantity = quantity
  BY DEF HeldRelease, ReleaseBatch

(* A release batch of the planner is within what remains. *)
LEMMA CreateReleaseBatchKeeps ==
    ASSUME TypeOK, Refer, NEW p \in PositionIds, NEW quantity \in 1..positions[p].quantity,
           CreateReleaseBatch(p, quantity)
    PROVE  Keeps
  <1> DEFINE held == HeldRelease(p, quantity, FALSE, FALSE, FALSE)
  <1>1. p \in Nat /\ quantity \in Quantity /\ positions[p].quantity \in Nat
    BY Tables DEF PlanPosition, Quantity
  <1>2. held \in ReleaseBatch /\ held.position = p /\ held.quantity = quantity
    BY <1>1, HeldReleaseType
  <1>3. /\ positions' = positions /\ releases' = Append(releases, held)
        /\ UNCHANGED << batches, planStatus, launches, overridden >>
        /\ quantity <= positions[p].quantity - ReleasedQuantity(releases, p)
    BY DEF CreateReleaseBatch, Remaining
  <1> HIDE DEF held
  <1>4. WorkStep /\ PositionIds' = PositionIds
    BY <1>3, SameRowsWork
  <1>5. ReleasedQuantity(releases, p) + quantity <= positions'[p].quantity
    BY <1>1, <1>3, AmountsType DEF TypeOK
  <1>6. /\ HeldStep /\ releases' \in Seq(Nullable(ReleaseBatch))
        /\ \A r \in ReleaseIds' : releases'[r].position \in PositionIds'
    BY <1>2, <1>3, <1>4, <1>5, HeldAppended
  <1>7. TypeOK'
    BY <1>3, <1>6 DEF TypeOK
  <1>8. Refer'
    BY <1>3, <1>4, <1>6, Refer DEF Refer, BatchIds
  <1> QED
    BY <1>4, <1>6, <1>7, <1>8 DEF Keeps

(* Releasing it holds no more than before. *)
LEMMA ReleaseBatchKeeps ==
    ASSUME TypeOK, Refer, NEW r \in ReleaseIds, ReleaseBatch_(r)
    PROVE  Keeps
  <1> DEFINE p == releases[r].position
             rows == [ releases EXCEPT ![r].plan = TRUE, ![r].lines = TRUE, ![r].released = TRUE ]
             held == [ releases[r] EXCEPT !.plan = TRUE, !.lines = TRUE, !.released = TRUE ]
             status == AfterRelease(rows, p, "approved")
             new == [ positions[p] EXCEPT !.status = status ]
  <1>1. p \in PositionIds /\ r \in 1..Len(releases) /\ releases[r] \in ReleaseBatch
    BY Refer, Tables DEF Refer
  <1>2. /\ positions[p].status \in { "approved", "released" }
        /\ releases' = rows /\ Set(p, new)
        /\ planStatus' \in ProductionPlanStatus
        /\ UNCHANGED << batches, launches, overridden >>
    BY DerivedType DEF ReleaseBatch_
  <1>3. rows = [ releases EXCEPT ![r] = held ]
    BY <1>1, Tables DEF ReleaseBatch
  <1>4. /\ held \in ReleaseBatch /\ held.position = p /\ held.quantity = releases[r].quantity
        /\ held.lines
    BY <1>1 DEF ReleaseBatch
  <1>5. status \in { "approved", "released" }
    BY DEF AfterRelease
  <1>6. /\ new \in PlanPosition /\ new.row = positions[p].row /\ new.moved = positions[p].moved
        /\ new.batch = positions[p].batch
    BY <1>1, <1>5, Tables DEF PlanPosition, PlanPositionStatus
  <1>7. Active(positions[p])
    BY <1>2 DEF Active
  <1> HIDE DEF p, rows, held, status, new
  <1>8. /\ releases' \in Seq(Nullable(ReleaseBatch)) /\ DOMAIN releases' = DOMAIN releases
        /\ DOMAIN releases = 1..Len(releases)
        /\ \A s \in 1..Len(releases) : releases'[s] = IF s = r THEN held ELSE releases[s]
    <2>1. held \in Nullable(ReleaseBatch)
      BY <1>4 DEF Nullable
    <2> QED
      BY <1>1, <1>2, <1>3, <2>1, ExceptSeq, Tables DEF TypeOK
  <1>9. held # NULL /\ releases[r] # NULL
    BY <1>1, <1>4, NullIsNoRow
  <1>10. ReleaseIds' = ReleaseIds
    BY <1>1, <1>8, <1>9 DEF ReleaseIds
  <1>11. PositionIds' = PositionIds /\ positions' \in Seq(Nullable(PlanPosition))
    BY <1>1, <1>2, <1>6, SetRows
  <1>12. WorkStep
    BY <1>1, <1>2, <1>6, <1>7, SetWork
  <1>13. HeldStep
    <2>1. ASSUME NEW q \in PositionIds
          PROVE  ReleasedQuantity(releases', q) = ReleasedQuantity(releases, q)
      <3>1. \A s \in DOMAIN releases :
                \/ releases'[s] = releases[s]
                \/ /\ releases[s] # NULL /\ releases'[s] # NULL
                   /\ releases'[s].position = releases[s].position
                   /\ releases'[s].quantity = releases[s].quantity
        BY <1>4, <1>8, <1>9 DEF p
      <3> QED
        BY <1>8, <3>1, HeldSame
    <2>2. ASSUME NEW q \in PositionIds, HasLines(q)
          PROVE  HasLines(q)'
      <3>1. PICK s \in ReleaseIds : releases[s].position = q /\ releases[s].lines
        BY <2>2 DEF HasLines, ReleasesOf
      <3>2. s \in ReleaseIds' /\ releases'[s].position = q /\ releases'[s].lines
        BY <1>4, <1>8, <1>10, <3>1, Tables DEF p
      <3> QED
        BY <3>2 DEF HasLines, ReleasesOf
    <2> QED
      BY <1>11, <2>1, <2>2 DEF HeldStep
  <1>14. TypeOK'
    BY <1>2, <1>8, <1>11 DEF TypeOK
  <1>15. Refer'
    <2>1. \A s \in ReleaseIds' : releases'[s].position \in PositionIds'
      BY <1>4, <1>8, <1>10, <1>11, Refer, Tables DEF Refer, p
    <2> QED
      BY <1>2, <1>11, <2>1, Refer DEF Refer, BatchIds
  <1> QED
    BY <1>12, <1>13, <1>14, <1>15 DEF Keeps

(* A launch under way has checked a position and a quantity. *)
LEMMA LaunchType ==
    ASSUME TypeOK, NEW o \in Operators, launches[o] # NULL
    PROVE  launches[o] \in [ position : Nat, quantity : Quantity, healed : Nullable(ProductionPlanStatus) ]
  BY DEF TypeOK, Nullable

(* A launch that ended leaves the others under way. *)
LEMMA LaunchForgotten ==
    ASSUME TypeOK, NEW o \in Operators, launches' = [ launches EXCEPT ![o] = NULL ]
    PROVE  launches' \in [ Operators -> Nullable([ position : Nat, quantity : Quantity,
                                                  healed : Nullable(ProductionPlanStatus) ]) ]
  BY DEF TypeOK, Nullable

(* The checks of a launch change at most the status of the plan. *)
LEMMA TakeToWorkKeeps ==
    ASSUME TypeOK, Refer, NEW p \in PositionIds, NEW quantity \in 1..positions[p].quantity,
           NEW o \in Operators, TakeToWork(o, p, quantity)
    PROVE  Keeps
  <1>1. p \in Nat /\ quantity \in Quantity
    BY Tables DEF PlanPosition, Quantity
  <1>2. UNCHANGED << positions, batches, releases, overridden >>
    BY DEF TakeToWork
  <1>3. Healed(planStatus) \in ProductionPlanStatus
    BY DerivedType DEF Healed, TypeOK
  <1>4. planStatus' \in ProductionPlanStatus
    BY <1>3 DEF TakeToWork, TypeOK
  <1>5. launches' \in [ Operators -> Nullable([ position : Nat, quantity : Quantity,
                                               healed : Nullable(ProductionPlanStatus) ]) ]
    <2> DEFINE launch == [ position |-> p, quantity |-> quantity,
                           healed |-> IF Ready(planStatus) THEN NULL ELSE Healed(planStatus) ]
    <2>1. launch \in [ position : Nat, quantity : Quantity, healed : Nullable(ProductionPlanStatus) ]
      BY <1>1, <1>3 DEF Nullable
    <2>2. launches' = [ launches EXCEPT ![o] = launch ] \/ launches' = launches
      BY DEF TakeToWork
    <2> HIDE DEF launch
    <2> QED
      BY <2>1, <2>2 DEF TypeOK, Nullable
  <1>6. TypeOK'
    BY <1>2, <1>4, <1>5 DEF TypeOK
  <1>7. WorkStep /\ PositionIds' = PositionIds
    BY <1>2, SameRowsWork
  <1>8. Refer'
    BY <1>2, <1>7, Refer DEF Refer, BatchIds, ReleaseIds
  <1> QED
    BY <1>2, <1>6, <1>7, <1>8, HeldUnchanged DEF Keeps

(* A launch whose position is gone leaves nothing. *)
LEMMA LaunchFailsKeeps ==
    ASSUME TypeOK, Refer, NEW o \in Operators, LaunchFails(o)
    PROVE  Keeps
  <1>1. UNCHANGED << positions, batches, releases, planStatus, overridden >>
    BY DEF LaunchFails
  <1>2. TypeOK'
    BY <1>1, LaunchForgotten DEF LaunchFails, TypeOK
  <1>3. WorkStep /\ PositionIds' = PositionIds
    BY <1>1, SameRowsWork
  <1>4. Refer'
    BY <1>1, <1>3, Refer DEF Refer, BatchIds, ReleaseIds
  <1> QED
    BY <1>1, <1>2, <1>3, <1>4, HeldUnchanged DEF Keeps

(* What was checked still holds when the launch writes, or it is outdated.   *)
LEMMA StillWithin ==
    ASSUME TypeOK, NEW p \in PositionIds, NEW quantity \in Quantity, ~Outdated(p, quantity)
    PROVE  /\ ReleasedQuantity(releases, p) + quantity <= positions[p].quantity
           /\ positions[p].status = "approved"
  <1>1. ReleasedQuantity(releases, p) \in Nat /\ positions[p].quantity \in Nat
    BY AmountsType, Tables DEF TypeOK, PlanPosition, Quantity
  <1> QED
    BY <1>1 DEF Outdated, Remaining, Quantity

(* A refused launch holds what it checked, or marks its position. *)
LEMMA LaunchRefusedKeeps ==
    ASSUME TypeOK, Refer, NEW o \in Operators, NEW lines \in BOOLEAN, LaunchRefused(o, lines)
    PROVE  Keeps
  <1> DEFINE p == launches[o].position
             quantity == launches[o].quantity
             held == HeldRelease(p, quantity, TRUE, lines, FALSE)
  <1>1. p \in Nat /\ quantity \in Quantity /\ launches[o].healed \in Nullable(ProductionPlanStatus)
    BY LaunchType DEF LaunchRefused
  <1> HIDE DEF p, quantity
  <1>2. held \in ReleaseBatch /\ held.position = p /\ held.quantity = quantity
    <2>1. \A plan, hasLines, released \in BOOLEAN :
            LET row == HeldRelease(p, quantity, plan, hasLines, released)
            IN row \in ReleaseBatch /\ row.position = p /\ row.quantity = quantity
      BY <1>1, HeldReleaseType
    <2> QED
      BY <2>1
  <1>3. /\ p \in PositionIds
        /\ releases' = Append(releases, held)
        /\ overridden' = IF Outdated(p, quantity) THEN overridden \cup {p} ELSE overridden
        /\ launches' = [ launches EXCEPT ![o] = NULL ]
        /\ positions' = positions /\ batches' = batches
    BY DEF LaunchRefused, p, quantity
  <1>4. planStatus' \in ProductionPlanStatus
    BY <1>1 DEF LaunchRefused, TypeOK, Nullable
  <1> HIDE DEF held
  <1>5. WorkStep /\ PositionIds' = PositionIds
    BY <1>3, SameRowsWork
  <1>6. \/ p \in overridden'
        \/ ReleasedQuantity(releases, p) + quantity <= positions'[p].quantity
    BY <1>1, <1>3, StillWithin
  <1>7. /\ HeldStep /\ releases' \in Seq(Nullable(ReleaseBatch))
        /\ \A r \in ReleaseIds' : releases'[r].position \in PositionIds'
    BY <1>2, <1>3, <1>5, <1>6, HeldAppended
  <1>8. TypeOK'
    BY <1>3, <1>4, <1>7, LaunchForgotten DEF TypeOK
  <1>9. Refer'
    BY <1>3, <1>5, <1>7, Refer DEF Refer, BatchIds
  <1> QED
    BY <1>5, <1>7, <1>8, <1>9 DEF Keeps

(* So does one that succeeds. *)
LEMMA LaunchKeeps ==
    ASSUME TypeOK, Refer, NEW o \in Operators, Launch(o)
    PROVE  Keeps
  <1> DEFINE p == launches[o].position
             quantity == launches[o].quantity
             held == HeldRelease(p, quantity, TRUE, TRUE, TRUE)
             status == AfterRelease(Append(releases, held), p, "approved")
             new == [ positions[p] EXCEPT !.status = status ]
  <1>1. p \in Nat /\ quantity \in Quantity
    BY LaunchType DEF Launch
  <1>2. held \in ReleaseBatch /\ held.position = p /\ held.quantity = quantity
    BY <1>1, HeldReleaseType
  <1>3. /\ p \in PositionIds
        /\ releases' = Append(releases, held)
        /\ overridden' = IF Outdated(p, quantity) THEN overridden \cup {p} ELSE overridden
        /\ launches' = [ launches EXCEPT ![o] = NULL ]
        /\ batches' = batches
        /\ planStatus' \in ProductionPlanStatus
        /\ Set(p, new) \/ positions' = positions
    BY DerivedType DEF Launch, Set
  <1>4. status \in { "approved", "released" }
    BY DEF AfterRelease
  <1>5. /\ new \in PlanPosition /\ new.row = positions[p].row /\ new.moved = positions[p].moved
        /\ new.batch = positions[p].batch
        /\ new.quantity = positions[p].quantity
    BY <1>3, <1>4, Tables DEF PlanPosition, PlanPositionStatus
  <1> HIDE DEF p, quantity, held, status, new
  <1>6. /\ PositionIds' = PositionIds /\ positions' \in Seq(Nullable(PlanPosition))
        /\ positions'[p].quantity = positions[p].quantity
    <2>1. CASE Set(p, new)
      BY <1>3, <1>5, <2>1, SetRows
    <2>2. CASE positions' = positions
      BY <2>2 DEF PositionIds, TypeOK
    <2> QED
      BY <1>3, <2>1, <2>2
  <1>7. WorkStep
    <2>1. CASE Set(p, new)
      <3>1. Active(positions[p]) \/ p \in overridden'
        BY <1>1, <1>3, StillWithin DEF Active
      <3> QED
        BY <1>3, <1>5, <2>1, <3>1, SetWork
    <2>2. CASE positions' = positions
      BY <1>3, <2>2, SameRowsWork
    <2> QED
      BY <1>3, <2>1, <2>2
  <1>8. \/ p \in overridden'
        \/ ReleasedQuantity(releases, p) + quantity <= positions'[p].quantity
    BY <1>1, <1>3, <1>6, StillWithin
  <1>9. /\ HeldStep /\ releases' \in Seq(Nullable(ReleaseBatch))
        /\ \A r \in ReleaseIds' : releases'[r].position \in PositionIds'
    BY <1>2, <1>3, <1>6, <1>8, HeldAppended
  <1>10. TypeOK'
    BY <1>3, <1>6, <1>9, LaunchForgotten DEF TypeOK
  <1>11. Refer'
    BY <1>3, <1>6, <1>9, Refer DEF Refer, BatchIds
  <1> QED
    BY <1>7, <1>9, <1>10, <1>11 DEF Keeps

(* Where nothing happens, nothing is lost. *)
LEMMA StutterKeeps ==
    ASSUME TypeOK, Refer, UNCHANGED vars
    PROVE  Keeps /\ PositionIds' = PositionIds
  <1>1. TypeOK' /\ Refer'
    BY DEF vars, TypeOK, Refer, PositionIds, BatchIds, ReleaseIds
  <1>2. WorkStep /\ PositionIds' = PositionIds
    BY SameRowsWork DEF vars
  <1>3. HeldStep
    BY HeldUnchanged DEF vars
  <1> QED
    BY <1>1, <1>2, <1>3 DEF Keeps

(* All operations keep types and references, take no work and hold within the plan. *)
LEMMA StepKeeps == TypeOK /\ Refer /\ [Next]_vars => Keeps
  <1> SUFFICES ASSUME TypeOK, Refer, [Next]_vars
               PROVE  Keeps
    OBVIOUS
  <1>1. ASSUME NEW file \in Files, NEW replace \in BOOLEAN, NEW match \in Matches,
               Import(file, replace, match)
        PROVE  Keeps
    BY <1>1, ImportKeeps
  <1>2. ASSUME NEW b \in Open(BatchIds),
               \/ \E skipInvalid \in BOOLEAN : Apply(b, skipInvalid)
               \/ RollBack(b) \/ Discard(b)
        PROVE  Keeps
    BY <1>2, ChangeSetKeeps DEF Open
  <1>3. ASSUME NEW b \in Open(BatchIds), DeleteImportBatch(b) \/ DeleteDraftsOnly(b)
        PROVE  Keeps
    BY <1>3, DeleteImportBatchKeeps, DeleteDraftsOnlyKeeps DEF Open
  <1>4. ASSUME NEW p \in Open(PositionIds),
               \/ \E force \in BOOLEAN : Approve(p, force)
               \/ Cancel(p) \/ Restore(p) \/ HidePosition(p) \/ DeletePosition(p) \/ Transfer(p)
        PROVE  Keeps
    BY <1>4, ApproveKeeps, CancelKeeps, RestoreKeeps, HidePositionKeeps, DeletePositionKeeps,
       TransferKeeps DEF Open
  <1>5. ASSUME NEW p \in Open(PositionIds), NEW quantity \in 1..positions[p].quantity,
               \/ CreateReleaseBatch(p, quantity)
               \/ \E o \in Operators : TakeToWork(o, p, quantity)
        PROVE  Keeps
    BY <1>5, CreateReleaseBatchKeeps, TakeToWorkKeeps DEF Open
  <1>6. ASSUME NEW r \in Open(ReleaseIds), ReleaseBatch_(r)
        PROVE  Keeps
    BY <1>6, ReleaseBatchKeeps DEF Open
  <1>7. ASSUME NEW o \in Operators,
               Launch(o) \/ LaunchFails(o) \/ \E lines \in BOOLEAN : LaunchRefused(o, lines)
        PROVE  Keeps
    BY <1>7, LaunchKeeps, LaunchFailsKeeps, LaunchRefusedKeeps
  <1> QED
    BY <1>1, <1>2, <1>3, <1>4, <1>5, <1>6, <1>7, StutterKeeps DEF Next
----------------------------------------------------------------------------
(* The inductive invariant.                                                 *)

MovedHasLines == \A p \in PositionIds : positions[p].moved => HasLines(p)

PeakOK ==
    /\ largest \in [ DOMAIN positions -> Nat ]
    /\ \A p \in PositionIds : positions[p].quantity <= largest[p]

PlanInv ==
    /\ TypeOK /\ Refer
    /\ MovedHasLines /\ PeakOK
    /\ LaunchedWithinPlan /\ OneActivePerRow

(* An empty plan satisfies the invariant. *)
LEMMA PlanInit == Init => PlanInv
  <1> SUFFICES ASSUME Init PROVE PlanInv
    OBVIOUS
  <1>1. TypeOK
    BY DEF Init, TypeOK, Nullable, ProductionPlanStatus
  <1>2. PositionIds = {} /\ BatchIds = {} /\ ReleaseIds = {}
    BY DEF Init, PositionIds, BatchIds, ReleaseIds
  <1>3. PeakOK
    BY <1>2 DEF Init, PeakOK
  <1> QED
    BY <1>1, <1>2, <1>3 DEF PlanInv, Refer, MovedHasLines, LaunchedWithinPlan, OneActivePerRow

(* Every step counts and remembers the most each position was planned for. *)
LEMMA CountedStep == Next => Counted
  BY DEF Next, Import, Apply, RollBack, Discard, DeleteImportBatch, DeleteDraftsOnly, Approve, Cancel,
     Restore, HidePosition, DeletePosition, Transfer, CreateReleaseBatch, TakeToWork, ReleaseBatch_,
     Launch, LaunchFails, LaunchRefused

(* That memory covers the positions and never shrinks. *)
LEMMA PeakStep ==
    ASSUME TypeOK, PeakOK, TypeOK', [Next]_vars
    PROVE  /\ PeakOK'
           /\ \A p \in PositionIds \cap PositionIds' : largest[p] <= largest'[p]
           /\ \A p \in PositionIds' : positions'[p].quantity \in Nat
  <1>1. /\ DOMAIN positions' = 1..Len(positions')
        /\ \A p \in 1..Len(positions') : positions'[p] \in Nullable(PlanPosition)
    BY LenProperties, ElementOfSeq DEF TypeOK
  <1>2. \A p \in PositionIds' : positions'[p].quantity \in Nat
    BY <1>1 DEF PositionIds, Nullable, PlanPosition, Quantity
  <1>3. CASE Next
    <2>1. largest' = Peak(positions')
      BY <1>3, CountedStep DEF Counted
    <2>2. ASSUME NEW p \in DOMAIN positions'
          PROVE  /\ largest'[p] \in Nat
                 /\ p \in DOMAIN positions => largest[p] <= largest'[p]
                 /\ positions'[p] # NULL => positions'[p].quantity <= largest'[p]
      <3> DEFINE before == IF p \in DOMAIN largest THEN largest[p] ELSE 0
                 now == IF positions'[p] = NULL THEN 0 ELSE positions'[p].quantity
      <3>1. before \in Nat /\ (p \in DOMAIN positions => before = largest[p])
        BY DEF PeakOK
      <3>2. now \in Nat
        BY <1>2 DEF PositionIds
      <3>3. largest'[p] = IF before > now THEN before ELSE now
        BY <2>1 DEF Peak
      <3>4. positions'[p] # NULL => now = positions'[p].quantity
        OBVIOUS
      <3> HIDE DEF before, now
      <3> QED
        BY <3>1, <3>2, <3>3, <3>4
    <2>3. largest' \in [ DOMAIN positions' -> Nat ]
      BY <2>1, <2>2 DEF Peak
    <2> QED
      BY <1>2, <2>2, <2>3 DEF PeakOK, PositionIds
  <1>4. CASE UNCHANGED vars
    <2>1. PeakOK' /\ largest' = largest /\ positions' = positions
      BY <1>4 DEF vars, PeakOK, PositionIds
    <2> QED
      BY <1>2, <2>1 DEF PeakOK, PositionIds
  <1> QED
    BY <1>3, <1>4

(* Every step keeps the invariant. *)
LEMMA PlanStep == PlanInv /\ [Next]_vars => PlanInv'
  <1> SUFFICES ASSUME PlanInv, [Next]_vars PROVE PlanInv'
    OBVIOUS
  <1>1. TypeOK' /\ Refer' /\ WorkStep /\ HeldStep
    BY StepKeeps DEF PlanInv, Keeps
  <1>2. /\ PeakOK'
        /\ \A p \in PositionIds \cap PositionIds' : largest[p] <= largest'[p]
        /\ \A p \in PositionIds' : positions'[p].quantity \in Nat
    BY <1>1, PeakStep DEF PlanInv
  <1>3. MovedHasLines'
    BY <1>1 DEF PlanInv, MovedHasLines, WorkStep, HeldStep
  <1>4. LaunchedWithinPlan'
    <2> SUFFICES ASSUME NEW p \in PositionIds', p \notin overridden'
                 PROVE  ReleasedQuantity(releases', p) <= largest'[p]
      BY DEF LaunchedWithinPlan
    <2>1. ReleasedQuantity(releases', p) \in Nat /\ ReleasedQuantity(releases, p) \in Nat
      BY <1>1, AmountsType DEF PlanInv, TypeOK
    <2>2. positions'[p].quantity <= largest'[p] /\ largest'[p] \in Nat
      BY <1>2 DEF PeakOK, PositionIds
    <2>3. CASE p \in PositionIds
      <3>1. ReleasedQuantity(releases, p) <= largest[p] /\ largest[p] \in Nat
        BY <1>1, <2>3 DEF PlanInv, LaunchedWithinPlan, WorkStep, PeakOK, PositionIds
      <3>2. \/ ReleasedQuantity(releases', p) = ReleasedQuantity(releases, p)
            \/ ReleasedQuantity(releases', p) <= positions'[p].quantity
        BY <1>1, <2>3 DEF HeldStep
      <3>3. largest[p] <= largest'[p] /\ positions'[p].quantity \in Nat
        BY <1>2, <2>3
      <3> QED
        BY <2>1, <2>2, <3>1, <3>2, <3>3
    <2>4. CASE p \notin PositionIds
      BY <1>1, <2>2, <2>4 DEF HeldStep
    <2> QED
      BY <2>3, <2>4
  <1>5. OneActivePerRow'
    <2> SUFFICES ASSUME NEW p \in PositionIds', NEW q \in PositionIds',
                        p \notin overridden', q \notin overridden', p # q,
                        positions'[p].row = positions'[q].row,
                        Active(positions'[p]), Active(positions'[q])
                 PROVE  FALSE
      BY DEF OneActivePerRow, Active
    <2>1. p \in PositionIds /\ q \in PositionIds
      BY <1>1 DEF WorkStep
    <2>2. /\ positions[p].row = positions[q].row
          /\ p \notin overridden /\ q \notin overridden
          /\ Active(positions[p]) \/ Alone(p)
          /\ Active(positions[q]) \/ Alone(q)
      BY <1>1, <2>1 DEF WorkStep
    <2>3. ~Alone(p) /\ ~Alone(q)
      BY DEF Alone
    <2> QED
      BY <2>1, <2>2, <2>3 DEF PlanInv, OneActivePerRow, Active
  <1> QED
    BY <1>1, <1>2, <1>3, <1>4, <1>5 DEF PlanInv

(* The references between the tables, what each operation does to the        *)
(* positions in use and what release batches hold, in every reachable state. *)
THEOREM PlanCorrect == Spec => []PlanInv
  <1> QED
    BY PlanInit, PlanStep, PTL DEF Spec

(* Every operation of the plan, its deletions, launches and failed launches  *)
(* included, leaves rows of the right type.                                 *)
THEOREM TypeCorrect == Spec => []TypeOK
  <1>1. PlanInv => TypeOK
    BY DEF PlanInv
  <1> QED
    BY <1>1, PlanCorrect, PTL

(* Launches and release batches never hold more of a position than it was    *)
(* ever planned for, unless they overlapped (create_release_batch,           *)
(* _process_position_take_to_work).                                         *)
THEOREM WithinPlan == Spec => []LaunchedWithinPlan
  <1>1. PlanInv => LaunchedWithinPlan
    BY DEF PlanInv
  <1> QED
    BY <1>1, PlanCorrect, PTL

(* Whatever the imports bring and in whatever order they are applied and     *)
(* rolled back, two positions of a row are in production together only if    *)
(* one was approved by force, restored, or changed while being launched.     *)
THEOREM OneActive == Spec => []OneActivePerRow
  <1>1. PlanInv => OneActivePerRow
    BY DEF PlanInv
  <1> QED
    BY <1>1, PlanCorrect, PTL

(* No step takes a position that is released or passed material on. *)
LEMMA LiveWorkStep ==
    ASSUME PlanInv, [Next]_vars
    PROVE  \A p \in PositionIds :
                (positions[p].status = "released" \/ positions[p].moved) => positions'[p] # NULL
  <1>1. WorkStep
    BY StepKeeps DEF PlanInv, Keeps
  <1>2. \A p \in PositionIds : positions[p].moved => HasLines(p)
    BY DEF PlanInv, MovedHasLines
  <1> QED
    BY <1>1, <1>2 DEF WorkStep, PositionIds

(* Neither the deletion of an import, with or without what is not a draft,   *)
(* nor that of a position or of a change set takes a position that is        *)
(* released or whose tasks have passed material on.                         *)
THEOREM LiveWork == Spec => LiveWorkSurvives
  <1>1. PlanInv /\ [Next]_vars =>
            [ \A p \in PositionIds :
                (positions[p].status = "released" \/ positions[p].moved) => positions'[p] # NULL ]_vars
    BY LiveWorkStep
  <1> QED
    BY <1>1, PlanCorrect, PTL DEF Spec, LiveWorkSurvives

(* delete_import_batch with delete_drafts_only leaves every position that it  *)
(* does not announce as it was.                                             *)
THEOREM SafeDeletion == Spec => SafeDeletionSparesTheRest
  <1>1. ASSUME TypeOK, Refer, NEW b \in BatchIds, DeleteDraftsOnly(b),
               NEW p \in PositionIds \ SafelyDeletable(b)
        PROVE  positions'[p] = positions[p]
    BY <1>1, DeleteDraftsOnlyTypes
  <1>2. PlanInv /\ [Next]_vars =>
            [ \A b \in BatchIds :
                DeleteDraftsOnly(b) =>
                    \A p \in PositionIds \ SafelyDeletable(b) : positions'[p] = positions[p] ]_vars
    BY <1>1 DEF PlanInv
  <1> QED
    BY <1>2, PlanCorrect, PTL DEF Spec, SafeDeletionSparesTheRest
----------------------------------------------------------------------------
(* Who a position belongs to: the item of its row, in the set of its batch.  *)

OwnInv ==
    /\ UniqueRows(positions)
    /\ \A p \in PositionIds : positions[p].batch \in 1..Len(batches)
    /\ \A b \in BatchIds, p \in PositionIds :
            (positions[p].batch = b /\ batches[b].status # "none") =>
                LET item == batches[b].items[positions[p].row] IN item # NULL /\ item.position = p
    /\ \A b \in BatchIds : \A row \in ItemRows(batches[b].items) :
            LET p == batches[b].items[row].position IN p # NULL => positions[p].row = row

(* A batch names what it named before, unless it is gone.                    *)
Named(b) ==
    /\ b \in BatchIds
    /\ \A row \in ItemRows(batches'[b].items) :
            batches'[b].items[row].position # NULL =>
                /\ row \in ItemRows(batches[b].items)
                /\ batches'[b].items[row].position = batches[b].items[row].position
    /\ batches'[b].status # "none" =>
            /\ batches[b].status # "none"
            /\ \A row \in ItemRows(batches[b].items) :
                    batches[b].items[row].position \in PositionIds' =>
                        /\ row \in ItemRows(batches'[b].items)
                        /\ batches'[b].items[row].position = batches[b].items[row].position

(* Positions that keep row and batch remain unique in them. *)
LEMMA UniqueFrame ==
    ASSUME UniqueRows(positions),
           \A p \in PositionIds' : /\ p \in PositionIds /\ positions'[p].row = positions[p].row
                                   /\ positions'[p].batch = positions[p].batch
    PROVE  UniqueRows(positions')
  BY DEF UniqueRows, PositionIds

(* What remains to be shown of a step that changes no row and no batch of a position. *)
LEMMA OwnFrame ==
    ASSUME TypeOK, OwnInv, Refer',
           \A p \in PositionIds' : /\ p \in PositionIds /\ positions'[p].row = positions[p].row
                                   /\ positions'[p].batch = positions[p].batch,
           Len(batches') \in Nat, Len(batches) <= Len(batches'),
           \A b \in BatchIds' :
                \/ Named(b)
                \/ /\ b > Len(batches)
                   /\ \A row \in ItemRows(batches'[b].items) :
                        LET p == batches'[b].items[row].position IN p # NULL => positions'[p].row = row
    PROVE  OwnInv'
  <1>1. UniqueRows(positions')
    BY UniqueFrame DEF OwnInv
  <1>2. ASSUME NEW p \in PositionIds'
        PROVE  positions'[p].batch \in 1..Len(batches) /\ positions'[p].batch \in 1..Len(batches')
    BY <1>2, Tables DEF OwnInv
  <1>3. ASSUME NEW b \in BatchIds', NEW p \in PositionIds',
               positions'[p].batch = b, batches'[b].status # "none"
        PROVE  LET item == batches'[b].items[positions'[p].row] IN item # NULL /\ item.position = p
    <2>1. ~ b > Len(batches)
      BY <1>2, <1>3, Tables
    <2>2. Named(b)
      BY <2>1
    <2>3. p \in PositionIds /\ positions[p].row \in Rows /\ positions[p].row = positions'[p].row
      BY Tables DEF PlanPosition
    <2>4. batches[b].items[positions[p].row] # NULL /\ batches[b].items[positions[p].row].position = p
      BY <1>3, <2>2, <2>3 DEF OwnInv, Named
    <2> QED
      BY <1>3, <2>2, <2>3, <2>4 DEF Named, ItemRows
  <1>4. ASSUME NEW b \in BatchIds', NEW row \in ItemRows(batches'[b].items),
               batches'[b].items[row].position # NULL
        PROVE  positions'[batches'[b].items[row].position].row = row
    <2>1. batches'[b].items[row].position \in PositionIds'
      BY <1>4 DEF Refer
    <2>2. CASE Named(b)
      BY <1>4, <2>1, <2>2 DEF Named, OwnInv
    <2>3. CASE ~Named(b)
      BY <1>4, <2>3
    <2> QED
      BY <2>2, <2>3
  <1> QED
    BY <1>1, <1>2, <1>3, <1>4 DEF OwnInv

(* The items of a new batch name positions of their rows. *)
LEMMA OwnImport ==
    ASSUME TypeOK, Refer, OwnInv, NEW file \in Files, NEW replace \in BOOLEAN, NEW match \in Matches,
           Import(file, replace, match)
    PROVE  OwnInv'
  <1> DEFINE items == [ row \in Rows |->
                CASE file[row] # NULL -> RowItem(match[row], file[row])
                  [] file[row] = NULL /\ replace /\ InStatus(match[row], "draft") ->
                        Item("cancel", match[row], positions[match[row]].quantity, NULL, FALSE)
                  [] OTHER -> NULL ]
             added == [ status |-> "draft", items |-> items ]
  <1>1. batches' = Append(batches, added) /\ positions' = positions
    BY DEF Import
  <1>2. TypeOK' /\ Refer'
    BY ImportTypes
  <1>3. ASSUME NEW row \in ItemRows(items), items[row].position # NULL
        PROVE  positions[items[row].position].row = row
    <2>1. row \in Rows /\ items[row] # NULL
      BY DEF ItemRows
    <2>2. match[row] # NULL => positions[match[row]].row = row
      BY <2>1 DEF Matches, Existing
    <2>3. items[row].position = match[row]
      <3>1. CASE file[row] # NULL
        <4>1. items[row] = RowItem(match[row], file[row])
          BY <2>1, <3>1
        <4> HIDE DEF items
        <4> QED
          BY <1>3, <4>1 DEF RowItem, Item
      <3>2. CASE file[row] = NULL /\ replace /\ InStatus(match[row], "draft")
        BY <2>1, <3>2 DEF Item
      <3>3. CASE file[row] = NULL /\ ~(replace /\ InStatus(match[row], "draft"))
        BY <2>1, <3>3
      <3> QED
        BY <3>1, <3>2, <3>3
    <2> QED
      BY <1>3, <2>2, <2>3
  <1> HIDE DEF items
  <1>4. /\ Len(batches') = Len(batches) + 1 /\ Len(batches) \in Nat
        /\ DOMAIN batches' = 1..(Len(batches) + 1) /\ DOMAIN batches = 1..Len(batches)
        /\ \A b \in 1..Len(batches) : batches'[b] = batches[b]
        /\ batches'[Len(batches) + 1] = added
    BY <1>1, <1>2, Tables, AppendProperties, LenProperties DEF TypeOK
  <1>5. ASSUME NEW b \in BatchIds'
        PROVE  \/ Named(b)
               \/ /\ b > Len(batches)
                  /\ \A row \in ItemRows(batches'[b].items) :
                        LET p == batches'[b].items[row].position IN p # NULL => positions'[p].row = row
    <2>1. CASE b = Len(batches) + 1
      <3>1. batches'[b].items = items /\ b > Len(batches)
        BY <1>4, <2>1
      <3>2. \A row \in ItemRows(batches'[b].items) :
                batches'[b].items[row].position # NULL =>
                    positions'[batches'[b].items[row].position].row = row
        BY <1>1, <1>3, <3>1
      <3> QED
        BY <3>1, <3>2
    <2>2. CASE b # Len(batches) + 1
      <3>1. b \in BatchIds /\ batches'[b] = batches[b]
        BY <1>4, <2>2 DEF BatchIds
      <3> QED
        BY <3>1 DEF Named
    <2> QED
      BY <2>1, <2>2
  <1>6. PositionIds' = PositionIds
    BY <1>1 DEF PositionIds
  <1>7. Len(batches') \in Nat /\ Len(batches) <= Len(batches')
    BY <1>4
  <1> QED
    BY <1>1, <1>2, <1>5, <1>6, <1>7, OwnFrame
NamesKept == Len(batches') = Len(batches) /\ \A b \in BatchIds' : Named(b)

(* A step that leaves the batches keeps the names in them. *)
LEMMA NamesSame ==
    ASSUME batches' = batches
    PROVE  NamesKept
  BY DEF NamesKept, Named, BatchIds

(* A change of the batch b alone. *)
LEMMA NamesExcept ==
    ASSUME TypeOK, NEW b \in BatchIds, NEW new, batches' = [ batches EXCEPT ![b] = new ],
           batches' \in Seq(Nullable(PlanChangeSet)),
           \/ new = NULL
           \/ /\ \A row \in ItemRows(new.items) :
                    new.items[row].position # NULL =>
                        /\ row \in ItemRows(batches[b].items)
                        /\ new.items[row].position = batches[b].items[row].position
              /\ new.status # "none" =>
                    /\ batches[b].status # "none"
                    /\ \A row \in ItemRows(batches[b].items) :
                            batches[b].items[row].position \in PositionIds' =>
                                /\ row \in ItemRows(new.items)
                                /\ new.items[row].position = batches[b].items[row].position
    PROVE  NamesKept
  <1>1. /\ DOMAIN batches' = DOMAIN batches /\ DOMAIN batches = 1..Len(batches)
        /\ Len(batches) \in Nat /\ b \in 1..Len(batches)
        /\ DOMAIN batches' = 1..Len(batches') /\ Len(batches') \in Nat
        /\ batches'[b] = new
        /\ \A c \in 1..Len(batches) : c # b => batches'[c] = batches[c]
    BY Tables, LenProperties
  <1>2. Len(batches') = Len(batches)
    BY <1>1
  <1>3. ASSUME NEW c \in BatchIds'
        PROVE  Named(c)
    <2>1. CASE c = b
      <3>1. new # NULL /\ batches'[b] = new
        BY <1>1, <2>1 DEF BatchIds
      <3> QED
        BY <2>1, <3>1 DEF Named
    <2>2. CASE c # b
      <3>1. c \in BatchIds /\ batches'[c] = batches[c]
        BY <1>1, <2>2 DEF BatchIds
      <3> QED
        BY <3>1 DEF Named
    <2> QED
      BY <2>1, <2>2
  <1> QED
    BY <1>2, <1>3 DEF NamesKept

(* A rollback changes the status of a set, not its items. *)
LEMMA NamesRollBack ==
    ASSUME TypeOK, TypeOK', NEW b \in BatchIds, RollBack(b)
    PROVE  NamesKept
  <1> DEFINE new == [ batches[b] EXCEPT !.status = "cancelled" ]
  <1>1. batches' = [ batches EXCEPT ![b] = new ] /\ batches[b].status = "applied"
    BY Tables DEF RollBack, RollbackAllowed
  <1>2. new.items = batches[b].items
    BY Tables DEF PlanChangeSet
  <1> HIDE DEF new
  <1> QED
    BY <1>1, <1>2, NamesExcept DEF TypeOK

(* A set that is gone names nothing. *)
LEMMA NamesGone ==
    ASSUME TypeOK, TypeOK', NEW b \in BatchIds, Discard(b) \/ DeleteImportBatch(b)
    PROVE  NamesKept
  <1>1. batches' = [ batches EXCEPT ![b] = NULL ]
    BY DEF Discard, DeleteImportBatch
  <1> QED
    BY <1>1, NamesExcept DEF TypeOK

(* The deletion of drafts takes the names of what it deletes out of its set. *)
LEMMA NamesDeleteDraftsOnly ==
    ASSUME TypeOK, Refer, TypeOK', NEW b \in BatchIds, DeleteDraftsOnly(b)
    PROVE  NamesKept
  <1> DEFINE ids == SafelyDeletable(b)
             items == batches[b].items
             fewer == [ row \in Rows |->
                            IF \E p \in ids : row \in On(p, items)
                            THEN [ items[row] EXCEPT !.position = NULL ] ELSE items[row] ]
             forgotten == [ batches[b] EXCEPT !.items = fewer ]
             none == [ status |-> "none", items |-> [ row \in Rows |-> NULL ] ]
             new == IF Kept(b) THEN forgotten ELSE IF PositionsOf(b) = ids THEN NULL ELSE none
  <1>1. batches' = [ batches EXCEPT ![b] = new ]
    BY Tables DEF DeleteDraftsOnly
  <1>2. PositionIds' = PositionIds \ ids
    BY DeleteDraftsOnlyTypes
  <1>3. batches[b] \in PlanChangeSet /\ items \in [ Rows -> Nullable(PlanChangeItem) ]
    BY Tables DEF PlanChangeSet
  <1>4. CASE Kept(b)
    <2>1. new = forgotten
      BY <1>4
    <2>2. ASSUME NEW row \in Rows
          PROVE  /\ fewer[row] # NULL /\ fewer[row].position # NULL =>
                        row \in ItemRows(items) /\ fewer[row].position = items[row].position
                 /\ row \in ItemRows(items) /\ items[row].position \in PositionIds' =>
                        fewer[row] # NULL /\ fewer[row].position = items[row].position
      <3>1. CASE \E p \in ids : row \in On(p, items)
        <4>1. items[row] \in PlanChangeItem /\ fewer[row] = [ items[row] EXCEPT !.position = NULL ]
              /\ items[row].position \in ids
          BY <1>3, <3>1 DEF On, ItemRows, Nullable
        <4>2. fewer[row].position = NULL
          BY <4>1 DEF PlanChangeItem
        <4> HIDE DEF fewer
        <4> QED
          BY <1>2, <4>1, <4>2
      <3>2. CASE ~ \E p \in ids : row \in On(p, items)
        <4>1. fewer[row] = items[row]
          BY <3>2
        <4> HIDE DEF fewer
        <4> QED
          BY <4>1 DEF ItemRows
      <3> QED
        BY <3>1, <3>2
    <2>3. forgotten.items = fewer /\ forgotten.status = batches[b].status
      BY <1>3 DEF PlanChangeSet
    <2>4. batches[b].status # "none"
      BY <1>4 DEF Kept
    <2> HIDE DEF fewer, forgotten, new
    <2>5. /\ \A row \in ItemRows(new.items) :
                    new.items[row].position # NULL =>
                        /\ row \in ItemRows(batches[b].items)
                        /\ new.items[row].position = batches[b].items[row].position
          /\ \A row \in ItemRows(batches[b].items) :
                            batches[b].items[row].position \in PositionIds' =>
                                /\ row \in ItemRows(new.items)
                                /\ new.items[row].position = batches[b].items[row].position
      BY <2>1, <2>2, <2>3 DEF ItemRows
    <2> QED
      BY <1>1, <2>4, <2>5, NamesExcept DEF TypeOK
  <1>5. CASE ~Kept(b)
    <2>1. new = NULL \/ new = none
      BY <1>5
    <2>2. ItemRows(none.items) = {} /\ none.status = "none"
      BY DEF ItemRows
    <2> HIDE DEF none, new
    <2> QED
      BY <1>1, <2>1, <2>2, NamesExcept DEF TypeOK
  <1> QED
    BY <1>4, <1>5

(* The deletion of a position takes its items out of every set. *)
LEMMA NamesDeletePosition ==
    ASSUME TypeOK, Refer, TypeOK', NEW p \in PositionIds, DeletePosition(p)
    PROVE  NamesKept
  <1> DEFINE items(b) == [ row \in Rows |-> IF row \in On(p, batches[b].items) THEN NULL
                                            ELSE batches[b].items[row] ]
  <1>1. batches' = [ b \in DOMAIN batches |->
                        IF batches[b] = NULL THEN NULL ELSE [ batches[b] EXCEPT !.items = items(b) ] ]
    BY Tables DEF DeletePosition, BatchIds, PlanChangeSet
  <1>2. PositionIds' = PositionIds \ {p}
    BY DeletePositionKeeps
  <1>3. /\ DOMAIN batches' = DOMAIN batches /\ DOMAIN batches = 1..Len(batches)
        /\ DOMAIN batches' = 1..Len(batches') /\ Len(batches) \in Nat /\ Len(batches') \in Nat
    BY <1>1, Tables, LenProperties DEF TypeOK
  <1>4. Len(batches') = Len(batches)
    BY <1>3
  <1>5. ASSUME NEW b \in BatchIds'
        PROVE  Named(b)
    <2>1. b \in BatchIds
      BY <1>1 DEF BatchIds
    <2>2. batches'[b] = [ batches[b] EXCEPT !.items = items(b) ]
      BY <1>1, <2>1 DEF BatchIds
    <2>3. \A row \in Rows : items(b)[row] = IF row \in On(p, batches[b].items) THEN NULL
                                            ELSE batches[b].items[row]
      OBVIOUS
    <2> HIDE DEF items
    <2>4. batches'[b].items = items(b) /\ batches'[b].status = batches[b].status
      BY <2>1, <2>2, Tables DEF PlanChangeSet
    <2>5. \A row \in ItemRows(batches'[b].items) :
                row \in ItemRows(batches[b].items) /\ batches'[b].items[row] = batches[b].items[row]
      BY <2>3, <2>4 DEF ItemRows
    <2>6. \A row \in ItemRows(batches[b].items) :
                batches[b].items[row].position \in PositionIds' =>
                    row \in ItemRows(batches'[b].items) /\ batches'[b].items[row] = batches[b].items[row]
      BY <1>2, <2>3, <2>4 DEF ItemRows, On
    <2> QED
      BY <2>1, <2>4, <2>5, <2>6 DEF Named
  <1> QED
    BY <1>4, <1>5 DEF NamesKept

(* Apply inserts positions of its own batch, one for each row that has none there. *)
LEMMA OwnApply ==
    ASSUME TypeOK, Refer, OwnInv, NEW b \in BatchIds, NEW skipInvalid \in BOOLEAN, Apply(b, skipInvalid)
    PROVE  OwnInv'
  <1> DEFINE applied == Applied(b, skipInvalid)
             new == NewRows(b, applied)
             rows == AppliedRows(b, skipInvalid)
             items == batches[b].items
             linked == [ row \in Rows |->
                IF \E n \in DOMAIN new : new[n] = row
                THEN [ items[row] EXCEPT !.position = Len(positions) + CHOOSE n \in DOMAIN new : new[n] = row ]
                ELSE items[row] ]
             set == [ status |-> "applied", items |-> linked ]
             base == Len(positions)
  <1>1. /\ positions' = rows /\ UniqueRows(rows)
        /\ batches[b].status # "none"
    BY DEF Apply
  <1>2. batches' = [ batches EXCEPT ![b] = set ]
    BY DEF Apply
  <1>3. /\ items \in [ Rows -> Nullable(PlanChangeItem) ]
        /\ applied \in [ Rows -> Nullable(PlanChangeItem) ]
        /\ \A row \in ItemRows(applied) : row \in ItemRows(items) /\ applied[row] = items[row]
    BY AppliedType
  <1>4. /\ Len(new) \in Nat /\ DOMAIN new = 1..Len(new)
        /\ \A n \in 1..Len(new) : new[n] \in ItemRows(applied)
        /\ \A n, m \in 1..Len(new) : new[n] = new[m] => n = m
    BY <1>3, NewRowsType
  <1>5. /\ Follows(rows) /\ Len(rows) = Len(positions) + Len(new)
        /\ \A p \in PositionIds :
              \/ rows[p].batch = positions[p].batch
              \/ /\ rows[p].batch = b
                 /\ \E row \in ItemRows(applied) :
                        applied[row].action = "update" /\ applied[row].position = p
        /\ \A n \in 1..Len(new) : rows[Len(positions) + n] = Inserted(b, new[n], applied[new[n]])
    BY AppliedRowsFollow
  <1>6. /\ b \in 1..Len(batches) /\ base \in Nat /\ PositionIds \subseteq 1..base
        /\ DOMAIN batches = 1..Len(batches) /\ Len(batches) \in Nat
        /\ \A p \in PositionIds : positions[p] \in PlanPosition
    BY Tables
  <1>7. ASSUME NEW n \in 1..Len(new)
        PROVE  /\ rows[base + n].row = new[n] /\ rows[base + n].batch = b
               /\ base + n \in PositionIds' /\ base + n > base
    <2>1. rows[base + n] = Inserted(b, new[n], applied[new[n]])
      BY <1>5
    <2>2. base + n \in 1..Len(rows) /\ base + n > base
      BY <1>4, <1>5, <1>6
    <2> HIDE DEF rows, new, applied, base
    <2>3. base + n \in PositionIds'
      BY <1>1, <1>5, <2>2, FollowedIds DEF base
    <2> QED
      BY <2>1, <2>2, <2>3 DEF Inserted
  <1> HIDE DEF applied, new, rows, items
  <1>8. \A p \in PositionIds : rows[p].row = positions[p].row /\ p \in PositionIds'
    BY <1>1, <1>5, <1>6, FollowedIds DEF Follows, Handled
  <1>9. ASSUME NEW p \in PositionIds', p \notin PositionIds
        PROVE  \E n \in 1..Len(new) : p = base + n
    <2>1. p > base /\ p \in 1..(base + Len(new))
      BY <1>1, <1>5, <1>9, FollowedIds DEF PositionIds
    <2>2. p - base \in 1..Len(new) /\ p = base + (p - base)
      BY <1>4, <1>6, <2>1
    <2> QED
      BY <2>2
  <1> HIDE DEF base
  <1>10. ASSUME NEW n \in 1..Len(new)
         PROVE  /\ linked[new[n]] # NULL /\ linked[new[n]].position = base + n
    <2>1. (CHOOSE m \in DOMAIN new : new[m] = new[n]) = n
      BY <1>4
    <2>2. new[n] \in Rows /\ items[new[n]] \in PlanChangeItem
      BY <1>3, <1>4 DEF ItemRows, Nullable
    <2>3. linked[new[n]] = [ items[new[n]] EXCEPT !.position = base + n ]
      BY <1>4, <2>1, <2>2 DEF base
    <2> HIDE DEF linked
    <2>4. linked[new[n]] \in PlanChangeItem /\ linked[new[n]].position = base + n
      BY <1>4, <1>6, <2>2, <2>3 DEF PlanChangeItem, Nullable
    <2> QED
      BY <2>4, NullIsNoRow
  <1>11. ASSUME NEW row \in Rows, \A n \in 1..Len(new) : new[n] # row
         PROVE  linked[row] = items[row]
    BY <1>4, <1>11
  <1> HIDE DEF linked
  <1>12. /\ DOMAIN batches' = DOMAIN batches /\ Len(batches') = Len(batches)
         /\ batches'[b].items = linked
         /\ \A c \in BatchIds' : c # b => c \in BatchIds /\ batches'[c] = batches[c]
    <2>1. TypeOK'
      BY ApplyTypes
    <2>2. DOMAIN batches' = 1..Len(batches') /\ Len(batches') \in Nat
      BY <2>1, LenProperties DEF TypeOK
    <2>3. DOMAIN batches' = DOMAIN batches
      BY <1>2
    <2>4. 1..Len(batches) = 1..Len(batches') /\ Len(batches) \in Nat /\ Len(batches') \in Nat
      BY <1>6, <2>2, <2>3
    <2>5. Len(batches') = Len(batches)
      BY <2>4
    <2> QED
      BY <1>2, <1>6, <2>3, <2>5 DEF BatchIds
  <1>13. ASSUME NEW p \in PositionIds'
         PROVE  positions'[p].batch \in 1..Len(batches')
    <2>1. CASE p \in PositionIds
      <3>1. positions'[p].batch \in { positions[p].batch, b }
        BY <1>1, <1>5, <2>1
      <3> QED
        BY <1>6, <1>12, <2>1, <3>1 DEF OwnInv
    <2>2. CASE p \notin PositionIds
      <3>1. PICK n \in 1..Len(new) : p = base + n
        BY <1>9, <2>2
      <3>2. positions'[p].batch = b
        BY <1>1, <1>7, <3>1
      <3> QED
        BY <1>6, <1>12, <3>2
    <2> QED
      BY <2>1, <2>2
  <1>14. ASSUME NEW c \in BatchIds', NEW p \in PositionIds', positions'[p].batch = c,
                batches'[c].status # "none"
         PROVE  LET item == batches'[c].items[positions'[p].row] IN item # NULL /\ item.position = p
    <2>1. CASE p \notin PositionIds
      <3>1. PICK n \in 1..Len(new) : p = base + n
        BY <1>9, <2>1
      <3>2. c = b /\ positions'[p].row = new[n]
        BY <1>1, <1>7, <1>14, <3>1
      <3> QED
        BY <1>10, <1>12, <3>1, <3>2
    <2>2. CASE p \in PositionIds /\ c # b
      <3>1. positions[p].batch = c /\ c \in BatchIds /\ batches'[c] = batches[c]
            /\ positions'[p].row = positions[p].row
        BY <1>1, <1>5, <1>8, <1>12, <1>14, <2>2
      <3> QED
        BY <1>14, <2>2, <3>1 DEF OwnInv
    <2>3. CASE p \in PositionIds /\ c = b
      <3> DEFINE row == positions[p].row
      <3>1. row \in Rows /\ positions'[p].row = row /\ positions'[p].batch = b
        BY <1>1, <1>6, <1>8, <1>14, <2>3 DEF PlanPosition
      <3>2. items[row] # NULL /\ items[row].position = p
        <4>1. CASE rows[p].batch = positions[p].batch
          BY <1>1, <2>3, <3>1, <4>1 DEF OwnInv, items
        <4>2. CASE \E r \in ItemRows(applied) : applied[r].position = p
          <5>1. PICK r \in ItemRows(items) : items[r].position = p
            BY <1>3, <4>2
          <5>2. p # NULL
            BY <1>6, <2>3, PlanPositionsConstants
          <5>3. row = r
            BY <5>1, <5>2 DEF OwnInv, items
          <5> QED
            BY <5>1, <5>3 DEF ItemRows
        <4> QED
          BY <1>5, <2>3, <4>1, <4>2
      <3>3. \A n \in 1..Len(new) : new[n] # row
        <4> SUFFICES ASSUME NEW n \in 1..Len(new), new[n] = row PROVE FALSE
          OBVIOUS
        <4>1. /\ rows[base + n].row = rows[p].row /\ rows[base + n].batch = rows[p].batch
              /\ base + n # p
          BY <1>1, <1>6, <1>7, <2>3, <3>1
        <4>2. /\ base + n \in DOMAIN rows /\ rows[base + n] # NULL
              /\ p \in DOMAIN rows /\ rows[p] # NULL
          BY <1>1, <1>7 DEF PositionIds
        <4> QED
          BY <1>1, <4>1, <4>2 DEF UniqueRows
      <3>4. batches'[c].items[positions'[p].row] = items[row]
        BY <1>11, <1>12, <2>3, <3>1, <3>3
      <3> QED
        BY <3>2, <3>4
    <2> QED
      BY <2>1, <2>2, <2>3
  <1>15. ASSUME NEW c \in BatchIds', NEW row \in ItemRows(batches'[c].items),
                batches'[c].items[row].position # NULL
         PROVE  positions'[batches'[c].items[row].position].row = row
    <2>1. CASE c # b
      <3>1. c \in BatchIds /\ batches'[c] = batches[c]
        BY <1>12, <2>1
      <3>2. batches[c].items[row].position \in PositionIds
        BY <1>15, <3>1 DEF Refer
      <3> QED
        BY <1>1, <1>8, <1>15, <3>1, <3>2 DEF OwnInv
    <2>2. CASE c = b /\ \E n \in 1..Len(new) : new[n] = row
      <3>1. PICK n \in 1..Len(new) : new[n] = row
        BY <2>2
      <3> QED
        BY <1>1, <1>7, <1>10, <1>12, <2>2, <3>1
    <2>3. CASE c = b /\ \A n \in 1..Len(new) : new[n] # row
      <3>1. row \in Rows /\ batches'[c].items[row] = items[row] /\ row \in ItemRows(items)
        BY <1>11, <1>12, <2>3 DEF ItemRows
      <3>2. items[row].position \in PositionIds
        BY <1>15, <3>1 DEF Refer, items
      <3> QED
        BY <1>1, <1>8, <1>15, <3>1, <3>2 DEF OwnInv, items
    <2> QED
      BY <2>1, <2>2, <2>3
  <1>16. UniqueRows(positions')
    BY <1>1
  <1> QED
    BY <1>13, <1>14, <1>15, <1>16 DEF OwnInv

(* Every step keeps it that sets name their own positions. *)
LEMMA OwnStep == PlanInv /\ OwnInv /\ [Next]_vars => OwnInv'
  <1> SUFFICES ASSUME PlanInv, OwnInv, [Next]_vars PROVE OwnInv'
    OBVIOUS
  <1>1. TypeOK /\ Refer /\ TypeOK' /\ Refer' /\ WorkStep
    BY StepKeeps DEF PlanInv, Keeps
  <1>2. CASE Applying
    BY <1>1, <1>2, OwnApply DEF Applying
  <1>3. CASE \E file \in Files, replace \in BOOLEAN, match \in Matches : Import(file, replace, match)
    BY <1>1, <1>3, OwnImport
  <1>4. CASE ~Applying /\ NamesKept
    <2>1. \A p \in PositionIds' : /\ p \in PositionIds /\ positions'[p].row = positions[p].row
                                  /\ positions'[p].batch = positions[p].batch
      BY <1>1, <1>4 DEF WorkStep
    <2>2. Len(batches') \in Nat /\ Len(batches) <= Len(batches')
      BY <1>1, <1>4, Tables DEF NamesKept
    <2> QED
      BY <1>1, <1>4, <2>1, <2>2, OwnFrame DEF NamesKept
  <1>5. ASSUME ~Applying,
               ~ \E file \in Files, replace \in BOOLEAN, match \in Matches : Import(file, replace, match)
        PROVE  NamesKept
    <2>1. ASSUME NEW b \in Open(BatchIds),
                 RollBack(b) \/ Discard(b) \/ DeleteImportBatch(b) \/ DeleteDraftsOnly(b)
          PROVE  NamesKept
      BY <1>1, <2>1, NamesRollBack, NamesGone, NamesDeleteDraftsOnly DEF Open
    <2>2. ASSUME NEW p \in Open(PositionIds), DeletePosition(p)
          PROVE  NamesKept
      BY <1>1, <2>2, NamesDeletePosition DEF Open
    <2>3. ASSUME NEW p \in Open(PositionIds),
                 \/ \E force \in BOOLEAN : Approve(p, force)
                 \/ Cancel(p) \/ Restore(p) \/ HidePosition(p) \/ Transfer(p)
                 \/ \E quantity \in 1..positions[p].quantity :
                        \/ CreateReleaseBatch(p, quantity)
                        \/ \E o \in Operators : TakeToWork(o, p, quantity)
          PROVE  NamesKept
      BY <2>3, NamesSame DEF Approve, Cancel, Restore, HidePosition, Transfer, CreateReleaseBatch, TakeToWork
    <2>4. ASSUME NEW r \in Open(ReleaseIds), ReleaseBatch_(r)
          PROVE  NamesKept
      BY <2>4, NamesSame DEF ReleaseBatch_
    <2>5. ASSUME NEW o \in Operators,
                 Launch(o) \/ LaunchFails(o) \/ \E lines \in BOOLEAN : LaunchRefused(o, lines)
          PROVE  NamesKept
      BY <2>5, NamesSame DEF Launch, LaunchFails, LaunchRefused
    <2>6. CASE UNCHANGED vars
      BY <2>6, NamesSame DEF vars
    <2>7. ASSUME NEW b \in Open(BatchIds), NEW skipInvalid \in BOOLEAN, Apply(b, skipInvalid)
          PROVE  FALSE
      BY <1>5, <2>7 DEF Applying, Open
    <2> QED
      BY <1>5, <2>1, <2>2, <2>3, <2>4, <2>5, <2>6, <2>7 DEF Next
  <1> QED
    BY <1>2, <1>3, <1>4, <1>5

(* An empty plan names nothing. *)
LEMMA OwnInit == Init => OwnInv
  BY DEF Init, OwnInv, UniqueRows, PositionIds, BatchIds

(* Why a set that was rolled back does not collide with what it left.        *)
LEMMA OwnReapplicable == PlanInv /\ OwnInv => Reapplicable
  <1> SUFFICES ASSUME PlanInv, OwnInv, NEW b \in BatchIds, batches[b].status = "cancelled",
                      \A row \in ItemRows(batches[b].items) :
                            LET item == batches[b].items[row] IN
                            (item.action = "create" /\ item.position # NULL)
                                => InStatus(item.position, "cancelled")
               PROVE  UniqueRows(AppliedRows(b, FALSE))
    BY DEF Reapplicable
  <1> DEFINE items == batches[b].items
             new == NewRows(b, items)
             rows == AppliedRows(b, FALSE)
             base == Len(positions)
  <1>1. TypeOK /\ Refer
    BY DEF PlanInv
  <1>2. items \in [ Rows -> Nullable(PlanChangeItem) ] /\ Applied(b, FALSE) = items
    BY <1>1, AppliedType
  <1>3. /\ Len(new) \in Nat
        /\ \A n \in 1..Len(new) : /\ new[n] \in ItemRows(items) /\ items[new[n]].action = "create"
                                  /\ ~Reused(b, items[new[n]])
        /\ \A n, m \in 1..Len(new) : new[n] = new[m] => n = m
    BY <1>2, NewRowsType
  <1>4. /\ Follows(rows) /\ Len(rows) = Len(positions) + Len(new)
        /\ \A p \in PositionIds :
              \/ rows[p].batch = positions[p].batch
              \/ /\ rows[p].batch = b
                 /\ \E row \in ItemRows(items) :
                        items[row].action = "update" /\ items[row].position = p
        /\ \A n \in 1..Len(new) : rows[Len(positions) + n] = Inserted(b, new[n], items[new[n]])
    <2> DEFINE applied == Applied(b, FALSE)
    <2>1. FALSE \in BOOLEAN /\ applied = items
      BY <1>2
    <2>2. /\ Follows(rows) /\ Len(rows) = Len(positions) + Len(NewRows(b, applied))
          /\ \A p \in PositionIds :
                \/ rows[p].batch = positions[p].batch
                \/ /\ rows[p].batch = b
                   /\ \E row \in ItemRows(applied) :
                        applied[row].action = "update" /\ applied[row].position = p
          /\ \A n \in 1..Len(NewRows(b, applied)) :
                rows[Len(positions) + n] =
                    Inserted(b, NewRows(b, applied)[n], applied[NewRows(b, applied)[n]])
      BY <1>1, <2>1, AppliedRowsFollow
    <2> HIDE DEF applied, items, rows
    <2> QED
      BY <2>1, <2>2
  <1>5. /\ base \in Nat /\ PositionIds \subseteq 1..base
        /\ \A p \in PositionIds : positions[p] \in PlanPosition
    BY <1>1, Tables
  <1> HIDE DEF items, new, rows
  <1>6. ASSUME NEW p \in DOMAIN rows, rows[p] # NULL
        PROVE  \/ p \in PositionIds /\ rows[p].row = positions[p].row
               \/ \E n \in 1..Len(new) : /\ p = base + n /\ rows[p].row = new[n] /\ rows[p].batch = b
    <2>1. DOMAIN rows = 1..Len(rows)
      BY <1>4, LenProperties DEF Follows
    <2>2. CASE p \in 1..base
      BY <1>4, <1>6, <2>2 DEF Follows, Handled
    <2>3. CASE p \notin 1..base
      <3>1. p - base \in 1..Len(new) /\ p = base + (p - base)
        BY <1>3, <1>4, <1>5, <2>1, <2>3
      <3>2. rows[p] = Inserted(b, new[p - base], items[new[p - base]])
        BY <1>4, <3>1
      <3>3. rows[p].row = new[p - base] /\ rows[p].batch = b
        BY <3>2 DEF Inserted
      <3> QED
        BY <3>1, <3>3
    <2> QED
      BY <2>2, <2>3
  (* A position that is in b afterwards is the one its row's item names. *)
  <1>7. ASSUME NEW p \in PositionIds, rows[p].batch = b
        PROVE  /\ items[positions[p].row] # NULL /\ items[positions[p].row].position = p
               /\ \/ positions[p].batch = b
                  \/ items[positions[p].row].action = "update"
    <2>1. CASE positions[p].batch = b
      BY <2>1 DEF OwnInv, items
    <2>2. CASE positions[p].batch # b
      <3>1. PICK row \in ItemRows(items) : items[row].action = "update" /\ items[row].position = p
        BY <1>4, <1>7, <2>2
      <3>2. p # NULL
        BY <1>5, PlanPositionsConstants
      <3>3. positions[p].row = row
        BY <3>1, <3>2 DEF OwnInv, items
      <3> QED
        BY <3>1, <3>3 DEF ItemRows
    <2> QED
      BY <2>1, <2>2
  (* Such a position is cancelled, if it was created by b, and is reused. *)
  <1>8. ASSUME NEW p \in PositionIds, rows[p].batch = b, NEW n \in 1..Len(new),
               positions[p].row = new[n]
        PROVE  FALSE
    <2>1. /\ items[new[n]].position = p /\ items[new[n]].action = "create"
          /\ new[n] \in ItemRows(items) /\ positions[p].batch = b
      BY <1>3, <1>7, <1>8
    <2>2. p # NULL
      BY <1>5, PlanPositionsConstants
    <2>3. InStatus(p, "cancelled")
      BY <2>1, <2>2 DEF items
    <2>4. Reused(b, items[new[n]])
      BY <2>1, <2>3 DEF Reused
    <2> QED
      BY <1>3, <2>4
  <1> SUFFICES ASSUME NEW p \in DOMAIN rows, NEW q \in DOMAIN rows, rows[p] # NULL, rows[q] # NULL,
                      p # q, rows[p].row = rows[q].row, rows[p].batch = rows[q].batch
               PROVE  FALSE
    BY DEF UniqueRows, rows
  <1>9. CASE p \in PositionIds /\ q \in PositionIds
    <2>1. rows[p].row = positions[p].row /\ rows[q].row = positions[q].row
      BY <1>4, <1>5, <1>9 DEF Follows, Handled
    <2>2. CASE rows[p].batch = b
      <3>1. items[positions[p].row].position = p
        BY <1>7, <1>9, <2>2
      <3>2. items[positions[q].row].position = q
        BY <1>7, <1>9, <2>2
      <3> QED
        BY <2>1, <3>1, <3>2
    <2>3. CASE rows[p].batch # b
      <3>1. rows[p].batch = positions[p].batch /\ rows[q].batch = positions[q].batch
        BY <1>4, <1>9, <2>3
      <3>2. /\ p \in DOMAIN positions /\ positions[p] # NULL
            /\ q \in DOMAIN positions /\ positions[q] # NULL
        BY <1>9 DEF PositionIds
      <3>3. UniqueRows(positions)
        BY DEF OwnInv
      <3>4. positions[p].batch # positions[q].batch
        BY <2>1, <3>2, <3>3 DEF UniqueRows
      <3> QED
        BY <3>1, <3>4
    <2> QED
      BY <2>2, <2>3
  <1>10. CASE p \in PositionIds /\ q \notin PositionIds
    BY <1>4, <1>5, <1>6, <1>8, <1>10 DEF Follows, Handled
  <1>11. CASE p \notin PositionIds /\ q \in PositionIds
    BY <1>4, <1>5, <1>6, <1>8, <1>11 DEF Follows, Handled
  <1>12. CASE p \notin PositionIds /\ q \notin PositionIds
    BY <1>3, <1>6, <1>12
  <1> QED
    BY <1>9, <1>10, <1>11, <1>12

(* A change set that was rolled back applies again without standing in its   *)
(* own way, however often it was applied, its positions updated by other     *)
(* imports, hidden or deleted in between (ADR-0025).                         *)
THEOREM RolledBackApplies == Spec => []Reapplicable
  <1>1. Init => PlanInv /\ OwnInv
    BY PlanInit, OwnInit
  <1>2. PlanInv /\ OwnInv /\ [Next]_vars => PlanInv' /\ OwnInv'
    BY PlanStep, OwnStep
  <1>3. PlanInv /\ OwnInv => Reapplicable
    BY OwnReapplicable
  <1> QED
    BY <1>1, <1>2, <1>3, PTL DEF Spec

=============================================================================
