--------------------------- MODULE CountLifecycle ---------------------------
(***************************************************************************)
(* What an inventory count promises: a count is drafted, started, and then *)
(* completed or cancelled for good.  Locations are added to its sheet and  *)
(* counted until then, and taken off only while it is a draft; completing  *)
(* it needs every line counted and records every difference.               *)
(***************************************************************************)
EXTENDS Integers

CONSTANTS
    Counts,
    Locations,
    Quantities,   \* bound: the quantities that are expected or counted
    NoLine,       \* a location that is not on the sheet
    Null          \* a quantity that has not been recorded

VARIABLES
    status,   \* of every count, "absent" before it is created
    sheet     \* for every count and location, its line

vars == <<status, sheet>>

Open == {"DRAFT", "IN_PROGRESS"}

Listed(c) == {l \in Locations : sheet[c][l] # NoLine}

Init ==
    /\ status = [c \in Counts |-> "absent"]
    /\ sheet = [c \in Counts |-> [l \in Locations |-> NoLine]]

Becomes(c, from, to) ==
    /\ status[c] \in from
    /\ status' = [status EXCEPT ![c] = to]

Create(c) == Becomes(c, {"absent"}, "DRAFT") /\ UNCHANGED sheet
Start(c) == Becomes(c, {"DRAFT"}, "IN_PROGRESS") /\ UNCHANGED sheet
Cancel(c) == Becomes(c, Open, "CANCELLED") /\ UNCHANGED sheet

Settle(line) == [line EXCEPT !.difference = line.counted - line.expected]

Complete(c) ==
    /\ Becomes(c, {"IN_PROGRESS"}, "COMPLETED")
    /\ Listed(c) # {}
    /\ \A l \in Listed(c) : sheet[c][l].counted # Null
    /\ sheet' = [sheet EXCEPT ![c] =
           [l \in Locations |-> IF l \in Listed(c) THEN Settle(@[l]) ELSE @[l]]]

Add(c, l, n) ==
    /\ status[c] \in Open
    /\ l \notin Listed(c)
    /\ sheet' = [sheet EXCEPT ![c][l] =
           [expected |-> n, counted |-> Null, difference |-> Null]]
    /\ UNCHANGED status

Count(c, l, n) ==
    /\ status[c] \in Open
    /\ l \in Listed(c)
    /\ sheet' = [sheet EXCEPT ![c][l].counted = n, ![c][l].difference = Null]
    /\ UNCHANGED status

Remove(c, l) ==
    /\ status[c] = "DRAFT"
    /\ l \in Listed(c)
    /\ sheet' = [sheet EXCEPT ![c][l] = NoLine]
    /\ UNCHANGED status

Next ==
    \E c \in Counts :
        \/ Create(c) \/ Start(c) \/ Cancel(c) \/ Complete(c)
        \/ \E l \in Locations :
             \/ Remove(c, l)
             \/ \E n \in Quantities : Add(c, l, n) \/ Count(c, l, n)

Spec == Init /\ [][Next]_vars
=============================================================================
