----------------------------- MODULE MCWarehouses -----------------------------
(***************************************************************************)
(* Small instances of WarehousesScreen and WarehouseTree for TLC.          *)
(***************************************************************************)
EXTENDS WarehousesScreen, TLC

CONSTANTS acme, globex, w1, w2, z1, a1, l1, n1, red, blue, tab1, tab2, api

Node(level, parent, name) == [level |-> level, parent |-> parent, name |-> name, active |-> TRUE]

\* A warehouse of acme with a path down to a location, and a second one, of
\* acme or of globex.
MCTree == {[i \in Ids |->
    CASE i = w1 -> Node(Warehouse, acme, red)
      [] i = w2 -> Node(Warehouse, c, blue)
      [] i = z1 -> Node(Zone, w1, red)
      [] i = a1 -> Node(Aisle, z1, red)
      [] i = l1 -> Node(Location, a1, red)
      [] OTHER -> NoRow] : c \in Companies}

Mix(ops, c, path, n) == {Call(op, c, path, n) : op \in ops}

\* Beside the screen: callers of acme that walk down the path, and one of
\* globex that mixes its own ids with acme's.
MCCalls ==
    UNION {Mix({"search", "create"}, acme, <<w1>>, red),
           Mix({"delete"}, acme, <<w1, z1, a1>>, red),
           Mix({"create", "list"}, globex, <<w2, z1>>, blue)}

TabSymmetry == Permutations({tab1, tab2})
=============================================================================
