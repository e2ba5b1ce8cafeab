----------------------------- MODULE MCInventory -----------------------------
(***************************************************************************)
(* Four adjustments of one product in one warehouse.                       *)
(***************************************************************************)
EXTENDS Inventory, TLC

CONSTANTS a1, a2, a3, a4, k1

MCRequests == {a1, a2, a3, a4}
MCKeys == {k1}
MCKeyOf == [r \in MCRequests |-> k1]
MCSymmetry == Permutations(MCRequests)
=============================================================================
