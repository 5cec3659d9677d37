---------------------------- MODULE PlanPositions ----------------------------
(***************************************************************************)
(* The positions of a production plan from the import of a file to the     *)
(* launch into work: change sets that are applied, rolled back (ADR-0025)   *)
(* and deleted, positions that are approved, cancelled, restored and hidden, *)
(* and release batches, which create the tasks.                            *)
(*                                                                         *)
(* One plan.  A request is one step, but for the launch (take-to-work),     *)
(* whose checks and writes other requests may come between.  A row of a     *)
(* file is its fingerprint and its quantity.                               *)
(***************************************************************************)
EXTENDS Sequences, SequencesExt, Amounts

CONSTANTS
    Rows,           \* fingerprints of the files' rows
    Files,          \* what the files hold: for every row a quantity, or NULL
    Operators,      \* launches under way at a time
    MaxBatches,     \* bound: imports
    MaxPositions,   \* bound: positions ever inserted
    MaxReleases,    \* bound: release batches ever inserted
    MaxSteps,       \* bound: steps of a behaviour
    NULL            \* SQL NULL, or a row that is gone

Quantity == Nat \ {0}

ASSUME PlanPositionsConstants ==
    /\ IsFiniteSet(Rows) /\ NULL \notin Nat
    /\ Files \subseteq [ Rows -> Quantity \cup {NULL} ]
    /\ MaxBatches \in Nat /\ MaxPositions \in Nat /\ MaxReleases \in Nat /\ MaxSteps \in Nat

Nullable(S) == S \cup {NULL}

PlanPositionStatus == { "draft", "invalid", "approved", "released", "cancelled" }
ProductionPlanStatus == { "draft", "validated", "approved", "partially_released", "released" }

(* hidden is deleted_at; cancelledFrom is the status before the last         *)
(* cancellation in the audit log; moved says that its tasks have transfers.  *)
PlanPosition ==
    [ row : Rows, quantity : Quantity, status : PlanPositionStatus, hidden : BOOLEAN,
      batch : Nat, cancelledFrom : { NULL, "approved", "released" }, moved : BOOLEAN ]

PlanChangeAction == { "create", "update", "cancel", "duplicate", "ignore" }
PlanChangeItem ==
    { item \in [ action : PlanChangeAction, position : Nullable(Nat), before : Nullable(Quantity),
                 after : Nullable(Quantity), error : BOOLEAN ] :
        /\ item.action \in { "create", "update" } => item.after # NULL
        /\ item.action = "update" => item.before # NULL }

(* An import batch with its change set, which may be gone before the batch; *)
(* the items of a set are at most one for each row.                         *)
PlanChangeSet ==
    [ status : { "draft", "applied", "cancelled", "none" },
      items : [ Rows -> Nullable(PlanChangeItem) ] ]

(* plan says that the internal plan exists, lines that tasks do.            *)
ReleaseBatch ==
    [ position : Nat, quantity : Quantity, plan : BOOLEAN, lines : BOOLEAN, released : BOOLEAN ]

ASSUME NullIsNoRow == NULL \notin PlanPosition /\ NULL \notin PlanChangeItem /\ NULL \notin ReleaseBatch

VARIABLES
    positions,    \* plan_positions, ids are indices
    batches,      \* import_batches with their change sets, ids are indices
    releases,     \* release_batches with their position, ids are indices
    planStatus,   \* production_plans.status
    launches,     \* what each launch under way has checked
    overridden,   \* positions whose checks were overridden or outdated, for the properties only
    largest,      \* the most each position was planned for, for a property only
    steps         \* steps so far, for the bound only

vars == << positions, batches, releases, planStatus, launches, overridden, largest, steps >>

Init ==
    /\ positions = << >> /\ batches = << >> /\ releases = << >>
    /\ planStatus = "draft"
    /\ launches = [ o \in Operators |-> NULL ]
    /\ overridden = {} /\ largest = << >> /\ steps = 0

PositionIds == { p \in DOMAIN positions : positions[p] # NULL }
BatchIds == { b \in DOMAIN batches : batches[b] # NULL }

ReleaseIds == { r \in DOMAIN releases : releases[r] # NULL }

ReleasesOf(p) == { r \in ReleaseIds : releases[r].position = p }
HasLines(p) == \E r \in ReleasesOf(p) : releases[r].lines

(* What the release batches of a position hold of it, whether or not they   *)
(* have been released: only the deletion of a plan cancels one.             *)
AmountsOf(rows, p) ==
    [ r \in DOMAIN rows |-> IF rows[r] # NULL /\ rows[r].position = p THEN rows[r].quantity ELSE 0 ]
ReleasedQuantity(rows, p) == Total(AmountsOf(rows, p))
RemainingOfReleased(p) ==    \* fault: forgets what has not been released yet
    positions[p].quantity - ReleasedQuantity(SelectSeq(releases, LAMBDA r : r # NULL /\ r.released), p)
Remaining(p) == positions[p].quantity - ReleasedQuantity(releases, p)

(* refresh_plan_status.                                                     *)
Derived(rows) ==
    LET seen == { p \in DOMAIN rows : rows[p] # NULL /\ ~rows[p].hidden }
        In(status) == \E p \in seen : rows[p].status = status
    IN CASE In("released") /\ In("approved") -> "partially_released"
         [] In("released") /\ ~In("approved") -> "released"
         [] ~In("released") /\ In("approved") -> "approved"
         [] OTHER -> IF seen = {} \/ In("draft") THEN "draft" ELSE "validated"

(* The most each position was planned for, a position that is gone included. *)
Peak(rows) ==
    [ p \in DOMAIN rows |->
        LET before == IF p \in DOMAIN largest THEN largest[p] ELSE 0
            now == IF rows[p] = NULL THEN 0 ELSE rows[p].quantity
        IN IF before > now THEN before ELSE now ]

Counted == steps < MaxSteps /\ steps' = steps + 1 /\ largest' = Peak(positions')

----------------------------------------------------------------------------
(* Import: what to do with each row is decided when the file is read, from  *)
(* the positions of that moment.                                            *)

(* The positions each row may be matched with: of several with one           *)
(* fingerprint the one read last, in an order that nothing fixes.           *)
Existing(row) == { p \in PositionIds : positions[p].row = row /\ positions[p].status # "cancelled" }
Matches ==
    { match \in [ Rows -> Nullable(PositionIds) ] :
        \A row \in Rows : match[row] \in IF Existing(row) = {} THEN { NULL } ELSE Existing(row) }

InStatus(p, status) == p # NULL /\ positions[p].status = status

Item(action, p, before, after, error) ==
    [ action |-> action, position |-> p, before |-> before, after |-> after, error |-> error ]

(* A row whose fingerprint is in the plan carries the error of a duplicate.  *)
RowItem(p, quantity) ==
    CASE p = NULL -> Item("create", NULL, NULL, quantity, FALSE)
      [] InStatus(p, "draft") ->
            IF positions[p].quantity # quantity
            THEN Item("update", p, positions[p].quantity, quantity, TRUE)
            ELSE Item("ignore", NULL, NULL, NULL, TRUE)
      [] InStatus(p, "released") -> Item("duplicate", p, NULL, NULL, TRUE)
      [] OTHER -> Item("create", NULL, NULL, quantity, TRUE)

(* With replace, the drafts that the file does not bring are cancelled.      *)
Import(file, replace, match) ==
    /\ Len(batches) < MaxBatches
    /\ LET items == [ row \in Rows |->
                CASE file[row] # NULL -> RowItem(match[row], file[row])
                  [] file[row] = NULL /\ replace /\ InStatus(match[row], "draft") ->
                        Item("cancel", match[row], positions[match[row]].quantity, NULL, FALSE)
                  [] OTHER -> NULL ]
       IN batches' = Append(batches, [ status |-> "draft", items |-> items ])
    /\ UNCHANGED << positions, releases, planStatus, launches, overridden >>
    /\ Counted

----------------------------------------------------------------------------
(* Apply and roll back.                                                     *)

(* The unique index over import batch and row, cancelled positions included. *)
UniqueRows(rows) ==
    \A p, q \in { p \in DOMAIN rows : rows[p] # NULL } :
        (p # q /\ rows[p].row = rows[q].row) => rows[p].batch # rows[q].batch

(* _cancelled_position_for_reapply.                                         *)
ReusedAlways(b, item) == FALSE    \* fault: as before the positions were reused
Reused(b, item) == InStatus(item.position, "cancelled") /\ positions[item.position].batch = b

(* Among the fingerprints that were in the plan before the set is applied,   *)
(* which the position to be updated belongs to itself.                      *)
InPlan(row) == \E p \in Existing(row) : ~positions[p].hidden

Updated(p, b, quantity) ==
    [ positions[p] EXCEPT !.quantity = quantity, !.batch = b,
                          !.status = IF InPlan(positions[p].row) THEN "invalid" ELSE "draft" ]

(* A position that comes back leaves its approval behind, not its history.   *)
Reapplied(p, item) ==
    [ positions[p] EXCEPT !.quantity = item.after, !.hidden = FALSE,
                          !.status = IF item.error THEN "invalid" ELSE "draft" ]
Inserted(b, row, item) ==
    [ row |-> row, quantity |-> item.after, status |-> IF item.error THEN "invalid" ELSE "draft",
      hidden |-> FALSE, batch |-> b, cancelledFrom |-> NULL, moved |-> FALSE ]

AppliedTo(p, b, item) ==
    CASE item.action = "create" /\ Reused(b, item) -> Reapplied(p, item)
      [] item.action = "update" /\ InStatus(p, "draft") -> Updated(p, b, item.after)
      [] item.action = "cancel" /\ InStatus(p, "draft") -> [ positions[p] EXCEPT !.status = "cancelled" ]
      [] OTHER -> positions[p]

(* The rows of a set that stand for a position, at most one of them.         *)
ItemRows(items) == { row \in Rows : items[row] # NULL }
On(p, items) == { row \in ItemRows(items) : items[row].position = p }
ItemOn(p, items) == items[CHOOSE row \in On(p, items) : TRUE]

(* What applying a set leaves, with or without the rows that have errors.    *)
Applied(b, skipInvalid) ==
    LET items == batches[b].items IN
    [ row \in Rows |-> IF items[row] # NULL /\ skipInvalid /\ items[row].error THEN NULL ELSE items[row] ]
NewRows(b, applied) ==
    SetToSeq({ row \in ItemRows(applied) : applied[row].action = "create" /\ ~Reused(b, applied[row]) })
AppliedRows(b, skipInvalid) ==
    LET applied == Applied(b, skipInvalid)
        new == NewRows(b, applied)
    IN [ p \in DOMAIN positions |->
            IF On(p, applied) = {} THEN positions[p] ELSE AppliedTo(p, b, ItemOn(p, applied)) ]
       \o [ n \in DOMAIN new |-> Inserted(b, new[n], applied[new[n]]) ]

(* apply_change_set.                                                        *)
Apply(b, skipInvalid) ==
    LET new == NewRows(b, Applied(b, skipInvalid))
        rows == AppliedRows(b, skipInvalid)
        linked(row, item) ==
            IF \E n \in DOMAIN new : new[n] = row
            THEN [ item EXCEPT !.position = Len(positions) + CHOOSE n \in DOMAIN new : new[n] = row ]
            ELSE item
    IN /\ batches[b].status \in { "draft", "cancelled" }
       /\ Len(rows) <= MaxPositions
       /\ UniqueRows(rows)
       /\ positions' = rows
       /\ batches' = [ batches EXCEPT ![b] =
                [ status |-> "applied",
                  items |-> [ row \in Rows |-> linked(row, @.items[row]) ] ] ]
       /\ UNCHANGED << releases, planStatus, launches, overridden >>
       /\ Counted

(* An update or a cancellation is undone whether it was applied or not.      *)
UndoneOn(p, item) ==
    CASE item.action = "create" -> [ positions[p] EXCEPT !.status = "cancelled" ]
      [] item.action = "update" -> [ positions[p] EXCEPT !.quantity = item.before, !.status = "draft" ]
      [] item.action = "cancel" -> [ positions[p] EXCEPT !.status = "draft" ]
      [] OTHER -> positions[p]

RollbackAllowed(b) ==
    /\ batches[b].status = "applied"
    /\ \A row \in ItemRows(batches[b].items) :
        LET item == batches[b].items[row] IN
        item.action = "create" => ~InStatus(item.position, "released")

RolledBack(b) ==
    [ p \in DOMAIN positions |->
        IF On(p, batches[b].items) = {} THEN positions[p] ELSE UndoneOn(p, ItemOn(p, batches[b].items)) ]

(* rollback_change_set.                                                     *)
RollBack(b) ==
    /\ RollbackAllowed(b)
    /\ positions' = RolledBack(b)
    /\ batches' = [ batches EXCEPT ![b].status = "cancelled" ]
    /\ UNCHANGED << releases, planStatus, launches, overridden >>
    /\ Counted

----------------------------------------------------------------------------
(* Deletion.  No row goes that another still refers to: a position while     *)
(* an item or a release batch names it, a batch while positions do.          *)

Referred(ids, others) ==
    \E b \in others, p \in ids : batches[b] # NULL /\ On(p, batches[b].items) # {}
Without(ids) ==    \* with a position go its release batches and its tasks
    [ r \in DOMAIN releases |-> IF \E p \in ids : r \in ReleasesOf(p) THEN NULL ELSE releases[r] ]

PositionsOf(b) == { p \in PositionIds : positions[p].batch = b }

(* discard_plan_change_set.                                                 *)
Discard(b) ==
    /\ batches[b].status # "none"
    /\ batches[b].status = "applied" => RollbackAllowed(b)
    /\ PositionsOf(b) = {}
    /\ positions' = IF batches[b].status = "applied" THEN RolledBack(b) ELSE positions
    /\ batches' = [ batches EXCEPT ![b] = NULL ]
    /\ UNCHANGED << releases, planStatus, launches, overridden >>
    /\ Counted

(* get_batch_delete_blockers.                                               *)
Blocked(b) == \E p \in PositionsOf(b) : positions[p].status = "released" \/ positions[p].moved

(* delete_import_batch: the whole of it, rolled back first.                  *)
DeleteImportBatch(b) ==
    LET ids == PositionsOf(b) IN
    /\ ~Blocked(b)
    /\ batches[b].status = "applied" => RollbackAllowed(b)
    /\ ~Referred(ids, DOMAIN batches \ {b})
    /\ LET rest == IF batches[b].status = "applied" THEN RolledBack(b) ELSE positions
       IN positions' = [ p \in DOMAIN rest |-> IF p \in ids THEN NULL ELSE rest[p] ]
    /\ batches' = [ batches EXCEPT ![b] = NULL ]
    /\ releases' = Without(ids)
    /\ UNCHANGED << planStatus, launches, overridden >>
    /\ Counted

(* _safely_deletable_position_ids.                                          *)
Drafts(b) == { p \in PositionsOf(b) : positions[p].status = "draft" }    \* fault: with their tasks
SafelyDeletable(b) == { p \in PositionsOf(b) : positions[p].status = "draft" /\ ~HasLines(p) }

KeptNever(b) == FALSE    \* fault: rolls every set back
Kept(b) ==
    /\ batches[b].status = "applied"
    /\ \E p \in PositionIds \ SafelyDeletable(b) : On(p, batches[b].items) # {}

(* delete_import_batch with delete_drafts_only: a set that touches anything  *)
(* else stays and forgets the drafts.                                       *)
DeleteDraftsOnly(b) ==
    LET ids == SafelyDeletable(b)
        items == batches[b].items
    IN /\ ~Referred(ids, DOMAIN batches \ {b})
       /\ (batches[b].status = "applied" /\ ~Kept(b)) => RollbackAllowed(b)
       /\ LET rest == IF batches[b].status = "applied" /\ ~Kept(b) THEN RolledBack(b) ELSE positions
          IN positions' = [ p \in DOMAIN rest |-> IF p \in ids THEN NULL ELSE rest[p] ]
       /\ releases' = Without(ids)
       /\ batches' = [ batches EXCEPT ![b] =
              IF Kept(b)
              THEN [ @ EXCEPT !.items = [ row \in Rows |->
                        IF \E p \in ids : row \in On(p, items) THEN [ items[row] EXCEPT !.position = NULL ]
                        ELSE items[row] ] ]
              ELSE IF PositionsOf(b) = ids THEN NULL
              ELSE [ status |-> "none", items |-> [ row \in Rows |-> NULL ] ] ]
       /\ UNCHANGED << planStatus, launches, overridden >>
       /\ Counted

----------------------------------------------------------------------------
(* A position on its own.                                                   *)

Set(p, position) == positions' = [ positions EXCEPT ![p] = position ]

(* validate_plan_position, of it the search for a duplicate.                *)
DuplicateInBatch(p) ==    \* fault: only in the same file
    \E q \in Existing(positions[p].row) : q # p /\ positions[q].batch = positions[p].batch
Duplicate(p) == \E q \in Existing(positions[p].row) : q # p

(* approve_plan_position; a cancelled position is approved, too.            *)
Approve(p, force) ==
    /\ positions[p].status \in { "draft", "cancelled" }
    /\ Duplicate(p) => force
    /\ Set(p, [ positions[p] EXCEPT !.status = "approved" ])
    /\ planStatus' = IF planStatus \in { "draft", "validated" } THEN "approved" ELSE planStatus
    /\ overridden' = IF Duplicate(p) THEN overridden \cup {p} ELSE overridden
    /\ UNCHANGED << batches, releases, launches >>
    /\ Counted

(* cancel_position.                                                         *)
Cancel(p) ==
    /\ positions[p].status \in { "approved", "released" }
    /\ Set(p, [ positions[p] EXCEPT !.status = "cancelled", !.cancelledFrom = positions[p].status ])
    /\ planStatus' = Derived(positions')
    /\ UNCHANGED << batches, releases, launches, overridden >>
    /\ Counted

(* restore_position: back to what the last cancellation found, validating    *)
(* nothing.                                                                 *)
Restore(p) ==
    /\ positions[p].status = "cancelled"
    /\ positions[p].cancelledFrom # NULL
    /\ Set(p, [ positions[p] EXCEPT !.status = positions[p].cancelledFrom ])
    /\ planStatus' = Derived(positions')
    /\ overridden' = IF Duplicate(p) THEN overridden \cup {p} ELSE overridden
    /\ UNCHANGED << batches, releases, launches >>
    /\ Counted

(* delete_position hides a cancelled position and removes a draft with its   *)
(* items.                                                                   *)
HidePosition(p) ==
    /\ positions[p].status = "cancelled"
    /\ Set(p, [ positions[p] EXCEPT !.hidden = TRUE ])
    /\ UNCHANGED << batches, releases, planStatus, launches, overridden >>
    /\ Counted

DeletePosition(p) ==
    /\ positions[p].status \in { "draft", "invalid" } /\ ~positions[p].hidden
    /\ ReleasesOf(p) = {}
    /\ Set(p, NULL)
    /\ batches' = [ b \in DOMAIN batches |->
                    IF batches[b] = NULL THEN NULL
                    ELSE [ batches[b] EXCEPT !.items = [ row \in Rows |-> IF row \in On(p, @) THEN NULL ELSE @[row] ] ] ]
    /\ UNCHANGED << releases, planStatus, launches, overridden >>
    /\ Counted

----------------------------------------------------------------------------
(* Release into production.                                                 *)

Ready(status) == status \in { "approved", "partially_released" }

HeldRelease(p, quantity, plan, lines, released) ==
    [ position |-> p, quantity |-> quantity, plan |-> plan, lines |-> lines, released |-> released ]

(* create_release_batch.                                                    *)
CreateReleaseBatch(p, quantity) ==
    /\ Len(releases) < MaxReleases
    /\ Ready(planStatus)
    /\ positions[p].status = "approved"
    /\ quantity <= Remaining(p)
    /\ releases' = Append(releases, HeldRelease(p, quantity, FALSE, FALSE, FALSE))
    /\ UNCHANGED << positions, batches, planStatus, launches, overridden >>
    /\ Counted

(* The end of release_batch: the position is released once release batches   *)
(* cover it, and the plan follows.                                          *)
AfterReleaseInPart(rows, p, status) ==    \* fault: a status that only plans have
    IF ReleasedQuantity(rows, p) >= positions[p].quantity THEN "released" ELSE "partially_released"
AfterRelease(rows, p, status) ==
    IF ReleasedQuantity(rows, p) >= positions[p].quantity THEN "released" ELSE status

ReleaseBatch_(r) ==
    LET p == releases[r].position
        rows == [ releases EXCEPT ![r].plan = TRUE, ![r].lines = TRUE, ![r].released = TRUE ]
    IN /\ ~releases[r].plan
       /\ positions[p].status \in { "approved", "released" }
       /\ releases' = rows
       /\ Set(p, [ positions[p] EXCEPT !.status = AfterRelease(rows, p, "approved") ])
       /\ planStatus' = Derived(positions')
       /\ UNCHANGED << batches, launches, overridden >>
       /\ Counted

(* _process_position_take_to_work: its checks, after which the status of the *)
(* plan has perhaps been put right.                                         *)
Healed(status) == IF Ready(status) THEN status ELSE Derived(positions)

Launchable(p, quantity) ==
    Ready(Healed(planStatus)) /\ positions[p].status = "approved" /\ quantity <= Remaining(p)

TakeToWork(o, p, quantity) ==
    /\ launches[o] = NULL
    /\ ~HasLines(p)
    /\ positions[p].status \in { "approved", "released" }
    /\ IF Launchable(p, quantity)
       THEN /\ launches' = [ launches EXCEPT ![o] =
                    [ position |-> p, quantity |-> quantity,
                      healed |-> IF Ready(planStatus) THEN NULL ELSE Healed(planStatus) ] ]
            /\ UNCHANGED planStatus
       ELSE planStatus' = Healed(planStatus) /\ UNCHANGED launches
    /\ UNCHANGED << positions, batches, releases, overridden >>
    /\ Counted

Outdated(p, quantity) ==
    HasLines(p) \/ quantity > Remaining(p) \/ positions[p].status # "approved"

(* The writes of the launch, on what it has read.  A position that covers    *)
(* itself only in part keeps the status it has by then.                     *)
Launch(o) ==
    LET p == launches[o].position
        quantity == launches[o].quantity
        rows == Append(releases, HeldRelease(p, quantity, TRUE, TRUE, TRUE))
        seen == [ positions EXCEPT ![p].status = AfterRelease(rows, p, "approved") ]
    IN /\ launches[o] # NULL
       /\ Len(releases) < MaxReleases
       /\ p \in PositionIds
       /\ releases' = rows
       /\ positions' = IF seen[p].status = "released" THEN seen ELSE positions
       /\ planStatus' = Derived(seen)
       /\ overridden' = IF Outdated(p, quantity) THEN overridden \cup {p} ELSE overridden
       /\ launches' = [ launches EXCEPT ![o] = NULL ]
       /\ UNCHANGED << batches >>
       /\ Counted

(* The launch is refused on the way, for want of material say: the release   *)
(* batch and the internal plan stay, perhaps with tasks.                    *)
LaunchRefused(o, lines) ==
    LET p == launches[o].position
        quantity == launches[o].quantity
    IN /\ launches[o] # NULL
       /\ Len(releases) < MaxReleases
       /\ p \in PositionIds
       /\ releases' = Append(releases, HeldRelease(p, quantity, TRUE, lines, FALSE))
       /\ planStatus' = IF launches[o].healed = NULL THEN planStatus ELSE launches[o].healed
       /\ overridden' = IF Outdated(p, quantity) THEN overridden \cup {p} ELSE overridden
       /\ launches' = [ launches EXCEPT ![o] = NULL ]
       /\ UNCHANGED << positions, batches >>
       /\ Counted

(* The position is gone when the launch writes: nothing of it stays.         *)
LaunchFails(o) ==
    /\ launches[o] # NULL
    /\ launches[o].position \notin PositionIds
    /\ launches' = [ launches EXCEPT ![o] = NULL ]
    /\ UNCHANGED << positions, batches, releases, planStatus, overridden >>
    /\ Counted

(* Production passes material on.                                           *)
Transfer(p) ==
    /\ HasLines(p) /\ ~positions[p].moved
    /\ Set(p, [ positions[p] EXCEPT !.moved = TRUE ])
    /\ UNCHANGED << batches, releases, planStatus, launches, overridden >>
    /\ Counted

Open(ids) == { id \in ids : steps < MaxSteps }    \* none past the bound

Next ==
    \/ \E file \in Files, replace \in BOOLEAN, match \in Matches : Import(file, replace, match)
    \/ \E b \in Open(BatchIds) :
        \/ \E skipInvalid \in BOOLEAN : Apply(b, skipInvalid)
        \/ RollBack(b) \/ Discard(b) \/ DeleteImportBatch(b) \/ DeleteDraftsOnly(b)
    \/ \E p \in Open(PositionIds) :
        \/ \E force \in BOOLEAN : Approve(p, force)
        \/ Cancel(p) \/ Restore(p) \/ HidePosition(p) \/ DeletePosition(p) \/ Transfer(p)
        \/ \E quantity \in 1..positions[p].quantity :
            \/ CreateReleaseBatch(p, quantity)
            \/ \E o \in Operators : TakeToWork(o, p, quantity)
    \/ \E r \in Open(ReleaseIds) : ReleaseBatch_(r)
    \/ \E o \in Operators : Launch(o) \/ LaunchFails(o) \/ \E lines \in BOOLEAN : LaunchRefused(o, lines)

Spec == Init /\ [][Next]_vars

----------------------------------------------------------------------------
TypeOK ==
    /\ positions \in Seq(Nullable(PlanPosition))
    /\ batches \in Seq(Nullable(PlanChangeSet))
    /\ releases \in Seq(Nullable(ReleaseBatch))
    /\ planStatus \in ProductionPlanStatus
    /\ launches \in [ Operators -> Nullable([ position : Nat, quantity : Quantity,
                                             healed : Nullable(ProductionPlanStatus) ]) ]

(* A position is never launched, in portions, failed or repeated launches,   *)
(* beyond the most it was ever planned for, whatever imports and rollbacks   *)
(* did to it in between, unless launches, or a launch and a release batch,   *)
(* overlapped: take-to-work locks nothing.                                  *)
LaunchedWithinPlan ==
    \A p \in PositionIds \ overridden : ReleasedQuantity(releases, p) <= largest[p]

(* Two positions of one row are never in production together, in whatever   *)
(* order the files that bring the row were read and applied, unless one was  *)
(* approved by force, restored, or changed while it was being launched.      *)
OneActivePerRow ==
    \A p, q \in PositionIds \ overridden :
        (/\ p # q /\ positions[p].row = positions[q].row
         /\ positions[p].status \in { "approved", "released" })
        => positions[q].status \notin { "approved", "released" }

(* A set that was rolled back can be applied again: as long as no position   *)
(* it created has come back to life by another way, the unique index over    *)
(* import batch and row does not stand against it (ADR-0025).                *)
Reapplicable ==
    \A b \in BatchIds :
        (/\ batches[b].status = "cancelled"
         /\ \A row \in ItemRows(batches[b].items) :
                LET item == batches[b].items[row] IN
                (item.action = "create" /\ item.position # NULL) => InStatus(item.position, "cancelled"))
        => UniqueRows(AppliedRows(b, FALSE))

(* No way of deleting takes a position that is released or that has passed   *)
(* material on, though rollbacks may have made it a draft again.             *)
LiveWorkSurvives ==
    [][ \A p \in PositionIds :
            (positions[p].status = "released" \/ positions[p].moved) => positions'[p] # NULL ]_vars

(* Deleting the drafts of an import deletes those it announced and leaves    *)
(* every other position of the plan as it was, though it may roll back the   *)
(* set on the way.                                                          *)
SafeDeletionSparesTheRest ==
    [][ \A b \in BatchIds :
            DeleteDraftsOnly(b) =>
                \A p \in PositionIds \ SafelyDeletable(b) : positions'[p] = positions[p] ]_vars

(* "A rollback with a released position is refused": rolling back a set      *)
(* leaves every released position as it is.                                 *)
ReleasedSurvivesRollback ==
    [][ \A b \in BatchIds :
            RollBack(b) => \A p \in PositionIds : InStatus(p, "released") => positions'[p] = positions[p] ]_vars
=============================================================================
