-------------------------- MODULE MCInventoryCounts --------------------------
(***************************************************************************)
(* Small instances of InventoryCounts for TLC.                             *)
(***************************************************************************)
EXTENDS InventoryCounts, TLC

CONSTANTS
    acme, globex, north, south,   \* two companies and a warehouse of each
    count1, count2,               \* a count in each warehouse
    locA, locB, locC,             \* locations: A and B in north, C in south
    line1, line2, line3,
    ana, bo, cy                   \* callers: ana and bo of acme, cy of globex

MCWarehouseCompany == [x \in Warehouses |-> IF x = north THEN acme ELSE globex]
MCCountWarehouse == [c \in Counts |-> IF c = count1 THEN north ELSE south]
MCLocationWarehouse == [l \in Locations |-> IF l = locC THEN south ELSE north]
MCCallerCompany == [r \in Callers |-> IF r = cy THEN globex ELSE acme]

\* Callers of one company, locations of one warehouse and unused ids are alike.
RacingSymmetry ==
    Permutations({ana, bo}) \cup Permutations({locA, locB}) \cup Permutations({line1, line2})
=============================================================================
