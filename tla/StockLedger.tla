----------------------------- MODULE StockLedger -----------------------------
(***************************************************************************)
(* What the stock service promises its callers: a stock movement is one    *)
(* atomic change of the committed stock, made at a moment when the source  *)
(* holds enough, or it is nothing at all.  StockMovements, which models    *)
(* createMovement statement by statement, is shown to implement this.      *)
(***************************************************************************)
EXTENDS MovementRules

VARIABLES
    stock,     \* the committed quantity of every key
    applied    \* for each request, the movement it has made

vars == <<stock, applied>>

Init ==
    /\ stock \in [Keys -> 0..MaxQty]
    /\ applied = [r \in Requests |-> NoMovement]

Apply(r, m) ==
    /\ applied[r] = NoMovement
    /\ applied' = [applied EXCEPT ![r] = m]
    /\ HasItsLocations(m)
    /\ Takes(m) => stock[Source(m)] >= m.quantity
    /\ stock' = Effect(stock, m)
    /\ stock' \in [Keys -> 0..MaxQty]

Next == \E r \in Requests, m \in Bodies : Apply(r, m)

Spec == Init /\ [][Next]_vars
=============================================================================
