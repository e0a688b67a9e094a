---------------------------- MODULE MovementRules ----------------------------
(***************************************************************************)
(* The vocabulary of stock movements: what a request may ask for and what  *)
(* each type of movement makes of the rows of stock_entries it touches.    *)
(* StockLedger and StockMovements share it.                                *)
(***************************************************************************)
EXTENDS Integers

CONSTANTS
    Requests,      \* calls of POST /stock/movements, each made once
    Products,
    Warehouses,
    Locations,
    MaxQty,        \* largest value of an Int column (2^31 - 1 in the schema)
    NoLocation,    \* an optional location id that was not given, or NULL
    NoMovement,    \* no movement recorded
    Bodies         \* the request bodies that are submitted (a bound for TLC)

ASSUME MaxQtyAssumption == MaxQty \in Nat \ {0}
ASSUME NoLocationAssumption == NoLocation \notin Locations

-----------------------------------------------------------------------------
Types == {"INBOUND", "RETURN", "OUTBOUND", "TRANSFER", "ADJUSTMENT"}

\* The body of the request: CreateMovementDto after validation.
Movements == [type: Types, product: Products, warehouse: Warehouses,
              from: Locations \cup {NoLocation},
              to: Locations \cup {NoLocation},
              quantity: 1..MaxQty]

ASSUME NoMovementAssumption == NoMovement \notin Movements
ASSUME BodiesAssumption == Bodies \subseteq Movements

\* One stock entry per product and location: @@unique([productId, locationId]).
Keys == Products \X Locations

Takes(m) == m.type \in {"OUTBOUND", "TRANSFER"}
Puts(m) == m.type \in {"INBOUND", "RETURN", "TRANSFER", "ADJUSTMENT"}
Source(m) == <<m.product, m.from>>
Destination(m) == <<m.product, m.to>>

\* The locations each branch of createMovement insists on.
HasItsLocations(m) ==
    /\ Takes(m) => m.from # NoLocation
    /\ Puts(m) => m.to # NoLocation
    /\ m.type = "TRANSFER" => m.from # m.to

\* What movement m makes of a row that holds n: what is taken from the source,
\* and what is put at the destination (an ADJUSTMENT sets the row absolutely).
AfterTake(m, n) == n - m.quantity
AfterPut(m, n) == IF m.type = "ADJUSTMENT" THEN m.quantity ELSE n + m.quantity

Effect(s, m) ==
    [k \in Keys |-> CASE Takes(m) /\ k = Source(m) -> AfterTake(m, s[k])
                      [] Puts(m) /\ k = Destination(m) -> AfterPut(m, s[k])
                      [] OTHER -> s[k]]
=============================================================================
