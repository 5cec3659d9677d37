------------------------------ MODULE Amounts ------------------------------
(***************************************************************************)
(* coalesce(sum(...), 0) over the rows of a table: the sum of a function   *)
(* with natural values, counted unit by unit.                              *)
(***************************************************************************)
EXTENDS Integers, FiniteSets

Tally(amounts) == UNION { {b} \X (1..amounts[b]) : b \in DOMAIN amounts }
Total(amounts) == Cardinality(Tally(amounts))
=============================================================================
