---------------------------- MODULE WarehouseTree ----------------------------
(***************************************************************************)
(* WarehousesService: every handler as the look-ups that walk down the     *)
(* path it was called with, and then its one write, with other handlers    *)
(* between any two of them.  A node is an id with a row; the table it is   *)
(* in is its level, and a warehouse's parent is its company.               *)
(***************************************************************************)
EXTENDS Naturals, Sequences

CONSTANTS
    Companies, Ids, Names,
    Slots,      \* calls in flight at once; a slot is used again when answered
    Calls,      \* bound: the calls that are made
    FirstTree,  \* bound: the trees there may be at the start
    NoRow, NoCall

Warehouse == 1
Zone == 2
Aisle == 3
Location == 4

\* A call names its caller's company, the ids on its path from the warehouse
\* down to the node it is about (or, to create and to list, to the parent of
\* it), and the name in its body.
Ops == {"list", "search", "create", "rename", "toggle", "delete"}
Call(op, c, path, name) == [op |-> op, company |-> c, path |-> path, name |-> name]

VARIABLES
    row,        \* the rows of warehouses, zones, aisles and locations
    issued,     \* history: ids there has been a row with
    held,       \* locations that stock entries or count lines name
    pc, call,
    seen,       \* isActive of the warehouse findWarehouse returned
    result      \* the ids in the answer

server == <<row, issued, held, pc, call, seen, result>>

Rows == [level: Warehouse..Location, parent: Companies \cup Ids, name: Names, active: BOOLEAN]
Paths == UNION {[1..n -> Ids] : n \in 0..Location}
Depths == [list |-> 0..3, search |-> {1}, create |-> 0..3, rename |-> 1..4,
           toggle |-> {1}, delete |-> 2..4]
CallType == {c \in [op: Ops, company: Companies, path: Paths, name: Names] :
                Len(c.path) \in Depths[c.op]}

ASSUME CallsAreCalls == Calls \subseteq CallType
ASSUME CompaniesAreNoNodes == Companies \cap Ids = {}
ASSUME Markers == NoRow \notin Rows /\ NoCall \notin CallType

Exists(i) == i \in Ids /\ row[i] # NoRow
Children(i) == {j \in Ids : Exists(j) /\ row[j].parent = i}

\* The company at the top: four steps up from any node.
Owner(i) ==
    LET Up(j) == IF Exists(j) THEN row[j].parent ELSE j
    IN  Up(Up(Up(Up(i))))

-----------------------------------------------------------------------------
Path(r) == call[r].path
Depth(r) == Len(Path(r))
Target(r) == Path(r)[Depth(r)]

\* The parent a node on the path is looked up with: the caller's company, and
\* then the node before it.
Above(r, k) == IF k = 1 THEN call[r].company ELSE Path(r)[k - 1]

\* The parent of what a call creates or lists.
Under(r) == Above(r, Depth(r) + 1)

Go(r, to) == pc' = [pc EXCEPT ![r] = to]
KeepTree == UNCHANGED <<row, issued, held>>
KeepCall == UNCHANGED <<call, seen, result>>

Steps == <<"warehouse", "zone", "aisle", "location">>
Answers == {"ok", "refused"}

\* The statement after the first k look-ups: the next one, the query for
\* another warehouse of the name, or the handler's own.
After(c, k) ==
    IF k < Len(c.path) THEN Steps[k + 1]
    ELSE IF \/ c.op = "create" /\ c.path = <<>>
            \/ c.op = "rename" /\ Len(c.path) = 1
         THEN "name" ELSE "run"

Begin(r, c) ==
    /\ pc[r] = "idle"
    /\ call' = [call EXCEPT ![r] = c]
    /\ Go(r, After(c, 0))
    /\ KeepTree
    /\ UNCHANGED <<seen, result>>

Arrive(r) == \E c \in Calls : Begin(r, c)

\* The client hears the answer.
Finish(r) ==
    /\ pc[r] \in Answers
    /\ Go(r, "idle")
    /\ call' = [call EXCEPT ![r] = NoCall]
    /\ seen' = [seen EXCEPT ![r] = FALSE]
    /\ result' = [result EXCEPT ![r] = {}]
    /\ KeepTree

-----------------------------------------------------------------------------
(* The look-ups, each by id and parent at once. *)

Found(r, k) ==
    LET i == Path(r)[k]
    IN  Exists(i) /\ row[i].level = k /\ row[i].parent = Above(r, k)

LookUp(r, k) ==
    /\ pc[r] = Steps[k]
    /\ Go(r, IF Found(r, k) THEN After(call[r], k) ELSE "refused")
    /\ KeepTree

FindWarehouse(r) ==
    /\ LookUp(r, Warehouse)
    /\ seen' = [seen EXCEPT ![r] = Found(r, Warehouse) /\ row[Path(r)[1]].active]
    /\ UNCHANGED <<call, result>>

\* Mutation: the zone is looked up by its id alone.
FindZoneAnywhere(r) ==
    /\ pc[r] = "zone"
    /\ Go(r, IF Exists(Path(r)[2]) /\ row[Path(r)[2]].level = Zone
             THEN After(call[r], Zone) ELSE "refused")
    /\ KeepTree /\ KeepCall

FindZoneInWh(r) == LookUp(r, Zone) /\ KeepCall
FindAisleInZone(r) == LookUp(r, Aisle) /\ KeepCall
FindLocationInAisle(r) == LookUp(r, Location) /\ KeepCall

\* create and update of a warehouse ask for another of the name.
Rivals(r) ==
    {i \in Children(call[r].company) : row[i].name = call[r].name /\
        (call[r].op = "rename" => i # Target(r))}

FindConflict(r) ==
    /\ pc[r] = "name"
    /\ Go(r, IF Rivals(r) = {} THEN "run" ELSE "refused")
    /\ KeepTree /\ KeepCall

-----------------------------------------------------------------------------
(* The writes.  What PostgreSQL answers decides: a unique index on parent  *)
(* and name (P2002), a foreign key to the parent (P2003), a row that is    *)
(* gone (P2025).                                                           *)

AtRun(r, op, depth) == pc[r] = "run" /\ call[r].op = op /\ Depth(r) = depth

\* The row is written and answered, or the database refuses.
Put(r, allowed, i, new) ==
    /\ IF allowed
       THEN /\ row' = [row EXCEPT ![i] = new]
            /\ issued' = issued \cup {i}
            /\ Go(r, "ok")
       ELSE Go(r, "refused") /\ UNCHANGED <<row, issued>>
    /\ UNCHANGED held /\ KeepCall

\* Mutation: no unique index.
NoUniqueIndex(parent, name, i) == TRUE

UniqueIndex(parent, name, i) == \A j \in Children(parent) \ {i} : row[j].name # name

Insert(r, level) ==
    /\ AtRun(r, "create", level - 1)
    /\ \E i \in Ids \ issued :
         Put(r, /\ level > Warehouse => Exists(Target(r))
                /\ UniqueIndex(Under(r), call[r].name, i),
             i, [level |-> level, parent |-> Under(r), name |-> call[r].name, active |-> TRUE])

SetName(r, level) ==
    /\ AtRun(r, "rename", level)
    /\ LET i == Target(r)
       IN  Put(r, Exists(i) /\ UniqueIndex(row[i].parent, call[r].name, i),
               i, [row[i] EXCEPT !.name = call[r].name])

\* Mutation: a foreign key that does not restrict.
NothingHeld(i) == i \notin held

Unreferenced(i) == Children(i) = {} /\ i \notin held

Delete(r, level) ==
    /\ AtRun(r, "delete", level)
    /\ LET i == Target(r)
       IN  Put(r, Exists(i) /\ Unreferenced(i), i, NoRow)

CreateWarehouse(r) == Insert(r, Warehouse)
UpdateWarehouse(r) == SetName(r, Warehouse)

\* The negation of what was read.
ToggleActive(r) ==
    /\ AtRun(r, "toggle", Warehouse)
    /\ LET i == Target(r)
       IN  Put(r, Exists(i), i, [row[i] EXCEPT !.active = ~seen[r]])

CreateZone(r) == Insert(r, Zone)
RenameZone(r) == SetName(r, Zone)
DeleteZone(r) == Delete(r, Zone)
CreateAisle(r) == Insert(r, Aisle)
RenameAisle(r) == SetName(r, Aisle)
DeleteAisle(r) == Delete(r, Aisle)
CreateLocation(r) == Insert(r, Location)
RenameLocation(r) == SetName(r, Location)
DeleteLocation(r) == Delete(r, Location)

-----------------------------------------------------------------------------
(* The reads. *)

Answer(r, ids) ==
    /\ result' = [result EXCEPT ![r] = ids]
    /\ Go(r, "ok")
    /\ KeepTree
    /\ UNCHANGED <<call, seen>>

List(r, depth) == AtRun(r, "list", depth) /\ Answer(r, Children(Under(r)))

FindAll(r) == List(r, 0)
FindZones(r) == List(r, Warehouse)
FindAisles(r) == List(r, Zone)
FindLocations(r) == List(r, Aisle)

\* Codes are unique in an aisle, so several locations may have this one.
Coded(r) ==
    {l \in Ids : Exists(l) /\ row[l].level = Location /\ row[l].name = call[r].name /\
        row[row[row[l].parent].parent].parent = Path(r)[1]}

FindLocationByCode(r) ==
    /\ AtRun(r, "search", Warehouse)
    /\ \/ \E l \in Coded(r) : Answer(r, {l})
       \/ Coded(r) = {} /\ Go(r, "refused") /\ KeepTree /\ KeepCall

-----------------------------------------------------------------------------
\* A connection is lost, before the write or with the answer.
Fail(r) ==
    /\ pc[r] \notin {"idle", "refused"}
    /\ Go(r, "refused")
    /\ result' = [result EXCEPT ![r] = {}]
    /\ KeepTree
    /\ UNCHANGED <<call, seen>>

\* A movement or a count names a location; a line may be removed again.
Hold(i) ==
    /\ Exists(i) /\ row[i].level = Location
    /\ held' = IF i \in held THEN held \ {i} ELSE held \cup {i}
    /\ UNCHANGED <<row, issued, pc>> /\ KeepCall

Find(r) == FindWarehouse(r) \/ FindZoneInWh(r) \/ FindAisleInZone(r)
           \/ FindLocationInAisle(r) \/ FindConflict(r)
Write(r) == \/ CreateWarehouse(r) \/ UpdateWarehouse(r) \/ ToggleActive(r)
            \/ CreateZone(r) \/ RenameZone(r) \/ DeleteZone(r)
            \/ CreateAisle(r) \/ RenameAisle(r) \/ DeleteAisle(r)
            \/ CreateLocation(r) \/ RenameLocation(r) \/ DeleteLocation(r)
Read(r) == \/ FindAll(r) \/ FindZones(r) \/ FindAisles(r) \/ FindLocations(r)
           \/ FindLocationByCode(r)
Handle(r) == Find(r) \/ Write(r) \/ Read(r) \/ Fail(r)

\* The tree stays whole although every parent was looked up before the write:
\* a node's parent exists, one level up, and a warehouse's is a company; what
\* stock or a count names is a location that exists.
TreeIsWhole ==
    /\ \A i \in Ids : Exists(i) =>
           IF row[i].level = Warehouse
           THEN row[i].parent \in Companies
           ELSE Exists(row[i].parent) /\ row[row[i].parent].level = row[i].level - 1
    /\ \A i \in held : Exists(i) /\ row[i].level = Location

\* Two nodes under one parent never have the same name, whatever the checks of
\* create and update saw.
SiblingsDiffer ==
    \A i, j \in Ids :
        Exists(i) /\ Exists(j) /\ i # j /\ row[i].parent = row[j].parent
            => row[i].name # row[j].name

Init ==
    /\ row \in FirstTree \cap [Ids -> Rows \cup {NoRow}]
    /\ held = {}
    /\ TreeIsWhole /\ SiblingsDiffer
    /\ issued = {i \in Ids : Exists(i)}
    /\ pc = [r \in Slots |-> "idle"]
    /\ call = [r \in Slots |-> NoCall]
    /\ seen = [r \in Slots |-> FALSE]
    /\ result = [r \in Slots |-> {}]

Next ==
    \/ \E r \in Slots : Arrive(r) \/ Handle(r) \/ Finish(r)
    \/ \E i \in Ids : Hold(i)

Spec == Init /\ [][Next]_server

-----------------------------------------------------------------------------
(* Properties. *)

Statements == {"idle", "warehouse", "zone", "aisle", "location", "name", "run"} \cup Answers

\* Rows and the variables of the handlers keep their types.
TreeTypeOK ==
    /\ row \in [Ids -> Rows \cup {NoRow}]
    /\ issued \subseteq Ids /\ held \subseteq Ids
    /\ pc \in [Slots -> Statements]
    /\ call \in [Slots -> CallType \cup {NoCall}]
    /\ seen \in [Slots -> BOOLEAN]
    /\ result \in [Slots -> SUBSET Ids]
    /\ \A r \in Slots : pc[r] # "idle" => call[r] # NoCall

\* Every write is on behalf of the company that owns what it changes, although
\* only the path was checked, link by link, and before (tenant isolation).
WritesStayInCompany ==
    [][\A i \in Ids : row'[i] # row[i] =>
          \E r \in Slots : /\ pc[r] = "run" /\ pc'[r] = "ok"
                           /\ call[r].company =
                                  IF Exists(i) THEN Owner(i) ELSE Owner(row'[i].parent)
      ]_server

\* An answer names nothing of another company: no list, no scanned code.
AnswersStayInCompany ==
    \A r \in Slots : pc[r] = "ok" =>
        \A i \in result[r] : Exists(i) => Owner(i) = call[r].company
=============================================================================
