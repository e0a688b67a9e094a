------------------------------- MODULE MCScreens -------------------------------
(***************************************************************************)
(* A small instance of WebScreens for TLC: two warehouses with one zone    *)
(* and one aisle each, and two locations in the first.                     *)
(***************************************************************************)
EXTENDS WebScreens

CONSTANTS w1, w2, z1, z2, a1, a2, l1, l2, p1, p2, c1, c2, i1, i2

MCParent ==
    z1 :> w1 @@ z2 :> w2 @@ a1 :> z1 @@ a2 :> z2 @@ l1 :> a1 @@ l2 :> a1
MCStockAt == p1 :> {l1, l2} @@ p2 :> {}
MCSymmetry == Permutations({l1, l2}) \cup Permutations({i1, i2})
MCCountWarehouse == c1 :> w1 @@ c2 :> w2
=============================================================================
