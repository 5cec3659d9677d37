---------------------------- MODULE ImportHistory ----------------------------
(***************************************************************************)
(* Imports of remainders and their history (ADR-0052, ADR-0053): a file    *)
(* brings material to a store, perhaps in place of all that lies there, and *)
(* its batch may be rolled back from the history or from the action        *)
(* journal, or be hidden from the list.                                    *)
(*                                                                         *)
(* One request per step and one product without dimensions or operations.  *)
(* The ledger is kept by what it sums to: a batch is the rows its action    *)
(* wrote, the balance is onHand (StockLedger proves the two agree).         *)
(***************************************************************************)
EXTENDS Sequences, Amounts

CONSTANTS
    Locations,    \* sections
    Qualities,    \* quality states
    Sheets,       \* what the files bring: for every quality a row
    Overrides,    \* sections given for the rows on the screen
    Moved,        \* balances that other operations move, too
    Quantities,   \* what they move
    MaxBatches,   \* bound: batches of the history
    MaxOutside,   \* bound: net of the other movements of a balance
    NULL          \* SQL NULL

ASSUME ImportHistoryConstants ==
    /\ NULL \notin Locations
    /\ Sheets \subseteq [ Qualities -> [ quantity : Nat, column : Locations \cup {NULL} ] ]
    /\ Overrides \subseteq [ Qualities -> Locations \cup {NULL} ]
    /\ Moved \subseteq Locations \X Qualities
    /\ Quantities \subseteq Nat \ {0}
    /\ MaxBatches \in Nat /\ MaxOutside \in Nat

Nullable(S) == S \cup {NULL}

Key == Locations \X Qualities

(* A batch, its rows by balance and whether its action is still active.     *)
(* Legacy batches, taken over from the journal, have lost their location.   *)
Batch ==
    [ location : Nullable(Locations), clears : BOOLEAN, status : { "applied", "rolled_back" },
      hidden : BOOLEAN, active : BOOLEAN,
      cleared : [ Key -> Nat ], poured : [ Key -> Nat ] ]

VARIABLES
    onHand,     \* stock_balances
    batches,    \* stock_import_batches with their actions, a batch's id is its position
    outside,    \* net of all that moved outside of imports, for the properties only
    before      \* what was there of imports before each batch, for the properties only

vars == << onHand, batches, outside, before >>

Nothing == [ k \in Key |-> 0 ]

(* The history starts with one legacy batch, which brought one piece and    *)
(* was reversed before the history was introduced or was not.               *)
LegacyCopiesStatus(rows, active) ==    \* fault: the status of the action
    [ location |-> NULL, clears |-> FALSE, status |-> IF active THEN "active" ELSE "reversed",
      hidden |-> FALSE, active |-> active, cleared |-> Nothing, poured |-> rows ]
Legacy(rows, active) ==
    [ location |-> NULL, clears |-> FALSE, status |-> IF active THEN "applied" ELSE "rolled_back",
      hidden |-> FALSE, active |-> active, cleared |-> Nothing, poured |-> rows ]

Init ==
    /\ outside = Nothing
    /\ before = << Nothing >>
    /\ \E active \in BOOLEAN, place \in Moved :
        LET rows == [ Nothing EXCEPT ![place] = 1 ] IN
        /\ batches = << Legacy(rows, active) >>
        /\ onHand = IF active THEN rows ELSE Nothing

----------------------------------------------------------------------------
(* Gates of a rollback.                                                     *)

RolledBackByOwnStatus(batch) == batch.status = "rolled_back"    \* fault: misses the journal
RolledBack(batch) == batch.status = "rolled_back" \/ ~batch.active

NewerOfAnyStatus(b) == FALSE    \* fault: no order
NewerLive(b) ==
    \E n \in DOMAIN batches :
        /\ n > b
        /\ batches[n].location = batches[b].location
        /\ batches[n].status = "applied" /\ ~batches[n].hidden /\ batches[n].active

(* import_batch_rollback_blockers, asked by every reversal of the action.   *)
NotBlocked(b) ==
    /\ ~RolledBack(batches[b])
    /\ ~batches[b].hidden
    /\ batches[b].location # NULL => ~NewerLive(b)

(* assert_rollback_allowed, asked by the history only.                      *)
RollbackAllowed(b) == NotBlocked(b) /\ batches[b].location # NULL

(* What a list of the history offers: the last batch of each location in    *)
(* the list, filtered by location and with or without the hidden ones.      *)
Listed(location, withHidden) ==
    { b \in DOMAIN batches :
        /\ location # NULL => batches[b].location = location
        /\ withHidden \/ ~batches[b].hidden }

LastListed(list, b) == \A n \in list : batches[n].location = batches[b].location => n <= b    \* fault: dead ones count
LastLive(list, b) ==
    /\ ~batches[b].hidden
    /\ \A n \in list :
        /\ batches[n].location = batches[b].location
        /\ ~RolledBack(batches[n]) /\ ~batches[n].hidden
        => n <= b

CanRollback(list, b) ==
    ~RolledBack(batches[b]) /\ batches[b].location # NULL /\ LastLive(list, b)

----------------------------------------------------------------------------
(* Mirror of both phases: what was poured is taken back from where it went, *)
(* what was cleared is put back.  Only the taking needs coverage.           *)

CoveredAtLocation(batch) ==    \* fault: forgets rows that went elsewhere
    \A k \in Key : k[1] = batch.location => onHand[k] >= batch.poured[k]
Covered(batch) == \A k \in Key : batch.poured[k] > 0 => onHand[k] >= batch.poured[k]

Compensated(batch) == [ k \in Key |-> onHand[k] - batch.poured[k] + batch.cleared[k] ]

(* A column of the file may name the section of a row, the person importing *)
(* may name it for the row; naming the section of the import names nothing. *)
LandsAt(location, row, override) ==
    LET to == IF override # NULL THEN override ELSE location IN
    IF to = location /\ row.column # NULL THEN row.column ELSE to

(* All qualities that a row has are cleared at the location of the import.  *)
ClearedBy(location, sheet, clears) ==
    [ k \in Key |-> IF clears /\ k[1] = location /\ sheet[k[2]].quantity > 0 /\ onHand[k] > 0
                    THEN onHand[k] ELSE 0 ]

PouredBy(location, sheet, overrides) ==
    [ k \in Key |-> IF LandsAt(location, sheet[k[2]], overrides[k[2]]) = k[1]
                    THEN sheet[k[2]].quantity ELSE 0 ]

NoOverrides == [ q \in Qualities |-> NULL ]

(* apply_remainders_import; rows without a product or a quantity are        *)
(* skipped, a file that has no others leaves an empty batch.                *)
Import(location, sheet, overrides, clears) ==
    /\ Len(batches) < MaxBatches
    /\ clears => overrides = NoOverrides
    /\ LET cleared == ClearedBy(location, sheet, clears)
           poured == PouredBy(location, sheet, overrides)
       IN /\ onHand' = [ k \in Key |-> onHand[k] - cleared[k] + poured[k] ]
          /\ batches' = Append(batches,
                               [ location |-> location, clears |-> clears, status |-> "applied",
                                 hidden |-> FALSE, active |-> TRUE,
                                 cleared |-> cleared, poured |-> poured ])
          /\ before' = Append(before, [ k \in Key |-> onHand[k] - outside[k] ])
    /\ UNCHANGED outside

(* rollback_import_batch: the gate, the reversal and the mark, one commit.  *)
RollBack(b) ==
    /\ RollbackAllowed(b)
    /\ Covered(batches[b])
    /\ onHand' = Compensated(batches[b])
    /\ batches' = [ batches EXCEPT ![b].active = FALSE, ![b].status = "rolled_back" ]
    /\ UNCHANGED << outside, before >>

(* The action reversed from the journal; the batch itself is not told.      *)
ReverseFromJournal(b) ==
    /\ batches[b].active
    /\ NotBlocked(b)
    /\ Covered(batches[b])
    /\ onHand' = Compensated(batches[b])
    /\ batches' = [ batches EXCEPT ![b].active = FALSE ]
    /\ UNCHANGED << outside, before >>

(* hide_batch; nothing shows a hidden batch again.                          *)
Hide(b) ==
    /\ ~batches[b].hidden
    /\ batches' = [ batches EXCEPT ![b].hidden = TRUE ]
    /\ UNCHANGED << onHand, outside, before >>

(* Issues, corrections and whatever else moves the material.                *)
Withdraw(k, quantity) ==
    /\ onHand[k] >= quantity /\ outside[k] - quantity >= -MaxOutside
    /\ onHand' = [ onHand EXCEPT ![k] = @ - quantity ]
    /\ outside' = [ outside EXCEPT ![k] = @ - quantity ]
    /\ UNCHANGED << batches, before >>

Receive(k, quantity) ==
    /\ outside[k] + quantity <= MaxOutside
    /\ onHand' = [ onHand EXCEPT ![k] = @ + quantity ]
    /\ outside' = [ outside EXCEPT ![k] = @ + quantity ]
    /\ UNCHANGED << batches, before >>

Next ==
    \/ \E location \in Locations, sheet \in Sheets,
          overrides \in Overrides \cup {NoOverrides}, clears \in BOOLEAN :
        Import(location, sheet, overrides, clears)
    \/ \E b \in DOMAIN batches : RollBack(b) \/ ReverseFromJournal(b) \/ Hide(b)
    \/ \E k \in Moved, quantity \in Quantities : Withdraw(k, quantity) \/ Receive(k, quantity)

Spec == Init /\ [][Next]_vars

----------------------------------------------------------------------------
TypeOK ==
    /\ onHand \in [ Key -> Int ]
    /\ batches \in Seq(Batch)
    /\ outside \in [ Key -> Int ]
    /\ before \in Seq([ Key -> Int ]) /\ Len(before) = Len(batches)

InForce(b, quantity) == IF RolledBack(batches[b]) THEN 0 ELSE quantity
PouredInForce(k) == [ b \in DOMAIN batches |-> InForce(b, batches[b].poured[k]) ]
ClearedInForce(k) == [ b \in DOMAIN batches |-> InForce(b, batches[b].cleared[k]) ]

(* What the history calls in force is what the ledger still carries: every  *)
(* balance is what moved outside of imports plus what the batches that are  *)
(* not rolled back put there and took away, wherever they were rolled back. *)
StockIsOfImportsInForce ==
    \A k \in Key : onHand[k] = outside[k] + Total(PouredInForce(k)) - Total(ClearedInForce(k))

(* Rolling back never takes material that has been used up, at the store of *)
(* the import or at another section its rows went to.                       *)
NothingNegative == \A k \in Key : onHand[k] >= 0

(* The button of a list, whatever its filter, and the gate of the server    *)
(* agree: what is offered is not refused for its order, and the reverse.    *)
ButtonTellsTheTruth ==
    \A location \in Nullable(Locations), withHidden \in BOOLEAN :
        LET list == Listed(location, withHidden) IN
        \A b \in list : CanRollback(list, b) <=> RollbackAllowed(b)

Touches(batch, k) == batch.poured[k] > 0 \/ batch.cleared[k] > 0

OwnImportsOnly(b, k) ==
    \A n \in DOMAIN batches :
        Touches(batches[n], k) => batches[n].location = batches[b].location /\ ~batches[n].hidden

(* A rollback returns the store of the import to what it was before the     *)
(* import, but for what moved outside of imports since: no import applied   *)
(* later has a share in what is left, none applied earlier lost its own     *)
(* (the order of ADR-0053).  Left out are balances that a hidden batch or   *)
(* an import of another section touched.                                    *)
Restored ==
    \A b \in DOMAIN batches :
        (batches[b].active /\ ~batches'[b].active) =>
            \A k \in Key :
                (k[1] = batches[b].location /\ OwnImportsOnly(b, k)) =>
                    onHand'[k] - outside'[k] = before[b][k]

RollbackRestores == [][Restored]_vars
=============================================================================
