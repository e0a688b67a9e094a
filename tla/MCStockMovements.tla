-------------------------- MODULE MCStockMovements --------------------------
(***************************************************************************)
(* Small instances of StockMovements for TLC: one product in one company's *)
(* warehouse with two locations, and an instance with two companies.       *)
(***************************************************************************)
EXTENDS StockMovements, TLC

CONSTANTS locA, locB, bolt, north, acme,   \* model values of the one-company runs
          r1, r2, r3,
          nut, south, globex               \* the second company's, in the tenant run

Move(type, from, to, n) ==
    [type |-> type, product |-> bolt, warehouse |-> north,
     from |-> from, to |-> to, quantity |-> n]

MCProductCompany == [x \in Products |-> IF x = bolt THEN acme ELSE globex]
MCWarehouseCompany == [x \in Warehouses |-> IF x = north THEN acme ELSE globex]
MCCaller == [r \in Requests |-> acme]
MCMinStock == [x \in Products |-> 1]

\* One company: both locations are in its warehouse.
OneWarehouse == [l \in Locations |-> north]

\* Bodies whose effects meet on the same rows: both directions of a transfer,
\* and, at either location, arrivals, departures and absolute settings.
RacingBodies ==
    UNION {{Move("INBOUND", NoLocation, l, 1), Move("OUTBOUND", l, NoLocation, 1),
            Move("ADJUSTMENT", NoLocation, l, 1)} : l \in Locations}
    \cup {Move("TRANSFER", locA, locB, 1), Move("TRANSFER", locB, locA, 1)}

\* Two companies, bolt, north and locA being the first's, nut, south and locB
\* the other's: every type with every choice of locations for bolt, those that
\* the type rejects or ignores and the other company's included.
TwoWarehouses == [l \in Locations |-> IF l = locA THEN north ELSE south]
TwoCallers == [r \in Requests |-> IF r = r1 THEN acme ELSE globex]
MixedBodies ==
    {m \in Movements :
        m.quantity = 1 /\ (m.product = nut => m.type \in {"INBOUND", "TRANSFER"})}
    \cup {Move("ADJUSTMENT", NoLocation, locA, 2)}
MixedStocks == {[k \in {} |-> 0], [k \in {<<bolt, locA>>, <<nut, locB>>} |-> 1]}

\* Deadlocks: two transfers the opposite way, and a departure behind them.
CrossingBodies ==
    {Move("TRANSFER", locA, locB, 1), Move("TRANSFER", locB, locA, 1),
     Move("OUTBOUND", locA, NoLocation, 1)}

\* Both rows stocked.
BothRows(n) == [k \in {bolt} \X Locations |-> n]
RacingStocks == {BothRows(1)}
CrossingStocks == {BothRows(1)}

RequestSymmetry == Permutations(Requests)
RacingSymmetry == RequestSymmetry \cup Permutations({locA, locB})
=============================================================================
