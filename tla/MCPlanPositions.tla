--------------------------- MODULE MCPlanPositions ---------------------------
(***************************************************************************)
(* A file of two rows and one that brings the first of them with another    *)
(* quantity.                                                                *)
(***************************************************************************)
EXTENDS PlanPositions, TLC

CONSTANTS beam, rail

MCFiles ==
    { [ row \in {beam, rail} |-> 1 ],
      [ row \in {beam, rail} |-> IF row = beam THEN 2 ELSE NULL ] }

MCSymmetry == Permutations(Operators)
=============================================================================
