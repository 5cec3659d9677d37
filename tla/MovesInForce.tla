---------------------------- MODULE MovesInForce ----------------------------
(***************************************************************************)
(* What the stock ledger promises: a set of material movements in force,   *)
(* and a stock that changes only by them.  Posting a movement takes its     *)
(* quantity from one place and adds it to the other; cancelling movements   *)
(* takes exactly their effect back and leaves no trace in the stock.  How   *)
(* the cancellation is recorded (a compensating transaction, a deletion)    *)
(* and whether its records are later purged cannot be seen here.            *)
(***************************************************************************)
EXTENDS LedgerRules

VARIABLES moves,  \* the movements in force
          onHand  \* the stock of every balance key, 0 on the terminal ones

vars == << moves, onHand >>

Effect(M) == [ k \in BalanceKey |-> IF Materialised(k) THEN LedgerNet(M, k) ELSE 0 ]

Init ==
    /\ moves = {}
    /\ onHand = [ k \in BalanceKey |-> 0 ]

Post(m) ==
    /\ m \notin moves
    /\ moves' = moves \cup {m}
    /\ onHand' = [ k \in BalanceKey |-> onHand[k] + Effect({m})[k] ]

Cancel(M) ==
    /\ M # {}
    /\ moves' = moves \ M
    /\ onHand' = [ k \in BalanceKey |-> onHand[k] - Effect(M)[k] ]

(* The one movement a step adds is read off moves', so that a behaviour of  *)
(* the implementation can be checked without enumerating StockTransaction.  *)
Next ==
    \/ \E m \in moves' \ moves : Post(m)
    \/ \E M \in SUBSET moves : Cancel(M)

Spec == Init /\ [][Next]_vars

============================================================================
