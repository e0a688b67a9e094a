------------------------- MODULE WarehouseTreeProofs -------------------------
(***************************************************************************)
(* What the handlers of WarehousesService keep for every number of         *)
(* companies, nodes, names and calls at once: the tree is whole, siblings  *)
(* differ, and no write and no answer crosses companies, although a        *)
(* handler checks the links of its path one by one and writes later.       *)
(***************************************************************************)
EXTENDS WarehouseTree, TLAPS, SequenceTheorems

\* A node has a row only under an id that has been issued.
IssuedCovers == \A i \in Ids : Exists(i) => i \in issued

\* What a handler knows of the k-th node of its path once it has been found:
\* the row may have been deleted since, but as long as it is there it is where
\* it was, because no id is issued twice and no handler moves a node.
Link(r, k) ==
    LET i == Path(r)[k]
    IN  i \in issued /\ (Exists(i) => row[i].level = k /\ row[i].parent = Above(r, k))

ChecksHold ==
    \A r \in Slots :
        /\ \A k \in 1..4 : pc[r] = Steps[k] =>
               k \in 1..Depth(r) /\ \A j \in 1..(k - 1) : Link(r, j)
        /\ pc[r] \in {"name", "run"} => \A j \in 1..Depth(r) : Link(r, j)

\* An answer holds ids that had a row when it was made; nobody else has one.
AnswersHold ==
    \A r \in Slots : result[r] \subseteq issued /\ (pc[r] # "ok" => result[r] = {})

IInv ==
    /\ TreeTypeOK /\ TreeIsWhole /\ SiblingsDiffer
    /\ IssuedCovers /\ ChecksHold /\ AnswersHold /\ AnswersStayInCompany

\* What every step leaves of the nodes: an id that has been issued stays so,
\* and its row is where it was or is gone for good.
NobodyMoves ==
    \A i \in issued :
        /\ i \in issued'
        /\ row'[i] # NoRow => row[i] # NoRow /\ row'[i].level = row[i].level
                                             /\ row'[i].parent = row[i].parent

-----------------------------------------------------------------------------
(* Data *)

LEMMA PathShape ==
    ASSUME NEW p \in Paths
    PROVE  Len(p) \in 0..4 /\ p \in [1..Len(p) -> Ids] /\ (p = <<>> <=> Len(p) = 0)
<1>1. PICK n \in 0..4 : p \in [1..n -> Ids]
  BY DEF Paths, Location
<1>2. p \in Seq(Ids)
  BY <1>1, SeqDef
<1>3. Len(p) \in Nat /\ p \in [1..Len(p) -> Ids] /\ DOMAIN p = 1..Len(p)
  BY <1>2, LenProperties
<1>4. Len(p) = n
  BY <1>1, <1>3
<1>5. p = <<>> <=> Len(p) = 0
  BY <1>2, EmptySeq
<1>. QED
  BY <1>1, <1>3, <1>4, <1>5

LEMMA CallShape ==
    ASSUME NEW c \in CallType
    PROVE  /\ c.op \in Ops /\ c.company \in Companies /\ c.name \in Names
           /\ Len(c.path) \in 0..4 /\ c.path \in [1..Len(c.path) -> Ids]
           /\ c.path = <<>> <=> Len(c.path) = 0
<1>1. c.op \in Ops /\ c.company \in Companies /\ c.name \in Names /\ c.path \in Paths
  BY DEF CallType
<1>. QED
  BY <1>1, PathShape

\* The owner of a node, level by level.
LEMMA OwnerChain ==
    ASSUME TreeTypeOK, TreeIsWhole, NEW i \in Ids, Exists(i)
    PROVE  /\ row[i].level = 1 => row[i].parent \in Companies /\ Owner(i) = row[i].parent
           /\ row[i].level # 1 => /\ row[i].parent \in Ids /\ Exists(row[i].parent)
                                  /\ row[row[i].parent].level = row[i].level - 1
                                  /\ Owner(i) = Owner(row[i].parent)
<1>1. \A j \in Ids : Exists(j) => row[j].level \in 1..4
  BY DEF TreeTypeOK, Rows, Exists, Warehouse, Location
<1>2. \A j \in Ids : Exists(j) /\ row[j].level = 1 => row[j].parent \in Companies
  BY DEF TreeIsWhole, Warehouse
<1>3. \A j \in Ids : Exists(j) /\ row[j].level # 1 =>
        row[j].parent \in Ids /\ Exists(row[j].parent)
          /\ row[row[j].parent].level = row[j].level - 1
  BY DEF TreeIsWhole, Warehouse, Exists
<1>4. \A c \in Companies : ~Exists(c)
  BY CompaniesAreNoNodes DEF Exists
<1>5. CASE row[i].level = 1
  BY <1>2, <1>4, <1>5 DEF Owner
<1>6. CASE row[i].level # 1
  <2>. DEFINE p == row[i].parent
  <2>1. p \in Ids /\ Exists(p) /\ row[p].level = row[i].level - 1
    BY <1>3, <1>6
  <2>2. CASE row[p].level = 1
    BY <1>2, <1>4, <2>1, <2>2 DEF Owner
  <2>3. CASE row[p].level = 2
    <3>. DEFINE w == row[p].parent
    <3>1. w \in Ids /\ Exists(w) /\ row[w].level = 1
      BY <1>3, <2>1, <2>3
    <3>. QED
      BY <1>2, <1>4, <2>1, <3>1 DEF Owner
  <2>4. CASE row[p].level = 3
    <3>. DEFINE q == row[p].parent
                w == row[q].parent
    <3>1. q \in Ids /\ Exists(q) /\ row[q].level = 2
      BY <1>3, <2>1, <2>4
    <3>2. w \in Ids /\ Exists(w) /\ row[w].level = 1
      BY <1>3, <3>1
    <3>. QED
      BY <1>2, <1>4, <2>1, <3>1, <3>2 DEF Owner
  <2>. QED
    BY <1>1, <1>6, <2>1, <2>2, <2>3, <2>4
<1>. QED
  BY <1>5, <1>6

\* Nodes that stay where they are stay their company's.
LEMMA OwnersStay ==
    ASSUME TreeTypeOK, TreeIsWhole, TreeTypeOK', TreeIsWhole', IssuedCovers, NobodyMoves,
           NEW i \in Ids, Exists(i), Exists(i)'
    PROVE  Owner(i)' = Owner(i)
<1>. DEFINE Stays(j) == j \in Ids /\ row[j] # NoRow /\ row'[j] # NoRow
<1>1. \A j \in Ids : Stays(j) =>
        /\ row[j].level \in 1..4
        /\ row'[j].level = row[j].level /\ row'[j].parent = row[j].parent
  BY DEF TreeTypeOK, Rows, Exists, Warehouse, Location, IssuedCovers, NobodyMoves
<1>2. \A j \in Ids : Stays(j) /\ row[j].level = 1 => row[j].parent \in Companies
  BY DEF TreeIsWhole, Warehouse, Exists
<1>3. \A j \in Ids : Stays(j) /\ row[j].level # 1 =>
        Stays(row[j].parent) /\ row[row[j].parent].level = row[j].level - 1
  <2>. SUFFICES ASSUME NEW j \in Ids, Stays(j), row[j].level # 1
                PROVE  Stays(row[j].parent) /\ row[row[j].parent].level = row[j].level - 1
    OBVIOUS
  <2>1. row'[j].level = row[j].level /\ row'[j].parent = row[j].parent
    BY <1>1
  <2>2. /\ row[j].parent \in Ids /\ row[row[j].parent] # NoRow
        /\ row[row[j].parent].level = row[j].level - 1
    BY DEF TreeIsWhole, Warehouse, Exists
  <2>3. row'[row'[j].parent] # NoRow
    BY <2>1 DEF TreeIsWhole, Warehouse, Exists
  <2>. QED
    BY <2>1, <2>2, <2>3
<1>4. \A c \in Companies : c \notin Ids
  BY CompaniesAreNoNodes
<1>5. Stays(i)
  BY DEF Exists
<1>6. CASE row[i].level = 1
  BY <1>1, <1>2, <1>4, <1>5, <1>6 DEF Owner, Exists
<1>7. CASE row[i].level = 2
  <2>. DEFINE w == row[i].parent
  <2>1. Stays(w) /\ row[w].level = 1
    BY <1>3, <1>5, <1>7
  <2>. QED
    BY <1>1, <1>2, <1>4, <1>5, <2>1 DEF Owner, Exists
<1>8. CASE row[i].level = 3
  <2>. DEFINE z == row[i].parent
              w == row[z].parent
  <2>1. Stays(z) /\ row[z].level = 2
    BY <1>3, <1>5, <1>8
  <2>2. Stays(w) /\ row[w].level = 1
    BY <1>3, <2>1
  <2>. QED
    BY <1>1, <1>2, <1>4, <1>5, <2>1, <2>2 DEF Owner, Exists
<1>9. CASE row[i].level = 4
  <2>. DEFINE a == row[i].parent
              z == row[a].parent
              w == row[z].parent
  <2>1. Stays(a) /\ row[a].level = 3
    BY <1>3, <1>5, <1>9
  <2>2. Stays(z) /\ row[z].level = 2
    BY <1>3, <2>1
  <2>3. Stays(w) /\ row[w].level = 1
    BY <1>3, <2>2
  <2>. QED
    BY <1>1, <1>2, <1>4, <1>5, <2>1, <2>2, <2>3 DEF Owner, Exists
<1>. QED
  BY <1>1, <1>5, <1>6, <1>7, <1>8, <1>9

\* The links a handler has checked lead to its caller's company, from any node
\* of the path that is still there.
LEMMA PathsAreOwned ==
    ASSUME IInv, NEW r \in Slots, pc[r] # "idle",
           NEW k \in 1..Depth(r), \A j \in 1..k : Link(r, j), Exists(Path(r)[k])
    PROVE  Owner(Path(r)[k]) = call[r].company
<1>1. /\ call[r].company \in Companies /\ Depth(r) \in 0..4
      /\ Path(r) \in [1..Depth(r) -> Ids]
  BY CallShape DEF IInv, TreeTypeOK, Path, Depth
<1>. DEFINE n(j) == Path(r)[j]
            Here(j) == Exists(n(j)) => Owner(n(j)) = call[r].company
<1>2. \A j \in 1..k : n(j) \in Ids
  BY <1>1
<1>3. Here(1)
  <2>. SUFFICES ASSUME Exists(n(1)) PROVE Owner(n(1)) = call[r].company
    OBVIOUS
  <2>1. row[n(1)].level = 1 /\ row[n(1)].parent = call[r].company
    BY <1>1 DEF Link, Above
  <2>. QED
    BY <1>1, <1>2, <2>1, OwnerChain DEF IInv
<1>4. ASSUME NEW j \in 2..k, Here(j - 1)
      PROVE  Here(j)
  <2>. SUFFICES ASSUME Exists(n(j)) PROVE Owner(n(j)) = call[r].company
    OBVIOUS
  <2>1. row[n(j)].level = j /\ row[n(j)].parent = n(j - 1)
    BY <1>1 DEF Link, Above
  <2>. QED
    BY <1>1, <1>2, <1>4, <2>1, OwnerChain DEF IInv
<1>5. k \in 1..4
  BY <1>1
<1>6. k >= 2 => Here(2)
  BY <1>3, <1>4, <1>5
<1>7. k >= 3 => Here(3)
  BY <1>4, <1>5, <1>6
<1>8. k >= 4 => Here(4)
  BY <1>4, <1>5, <1>7
<1>. QED
  BY <1>3, <1>5, <1>6, <1>7, <1>8

-----------------------------------------------------------------------------
(* What a write does to the tree: one row is added, changed or removed. *)

Puts(r, i, new) ==
    /\ pc[r] = "run" /\ pc' = [pc EXCEPT ![r] = "ok"]
    /\ row' = [row EXCEPT ![i] = new]
    /\ issued' = issued \cup {i}
    /\ UNCHANGED <<held, call, seen, result>>

Inserts(r, i, new) ==
    /\ i \in Ids \ issued /\ new \in Rows
    /\ IF new.level = 1
       THEN new.parent = call[r].company
       ELSE /\ Depth(r) \in 1..3 /\ new.level = Depth(r) + 1
            /\ new.parent = Target(r) /\ Exists(Target(r))
    /\ UniqueIndex(new.parent, new.name, i)
    /\ Puts(r, i, new)

Changes(r, i, new) ==
    /\ Depth(r) \in 1..4 /\ i = Target(r) /\ Exists(i) /\ new \in Rows
    /\ new.level = row[i].level /\ new.parent = row[i].parent
    /\ UniqueIndex(new.parent, new.name, i)
    /\ Puts(r, i, new)

Removes(r, i) ==
    /\ Depth(r) \in 2..4 /\ i = Target(r) /\ Exists(i)
    /\ Unreferenced(i)
    /\ Puts(r, i, NoRow)

TreeStep(r, i) == (\E new \in Rows : Inserts(r, i, new) \/ Changes(r, i, new)) \/ Removes(r, i)

\* A write of a handler is one such change, or is refused.
LEMMA Written ==
    ASSUME IInv, NEW r \in Slots, Write(r)
    PROVE  (\E i \in Ids : TreeStep(r, i))
             \/ (pc[r] = "run" /\ KeepTree /\ KeepCall /\ Go(r, "refused"))
<1>1. pc[r] = "run" => /\ call[r] \in CallType /\ call[r].company \in Companies
                       /\ call[r].name \in Names /\ Depth(r) \in 0..4
                       /\ Path(r) \in [1..Depth(r) -> Ids]
                       /\ Depth(r) > 0 => Target(r) \in Ids
  BY CallShape DEF IInv, TreeTypeOK, Path, Depth, Target
<1>2. ASSUME NEW level \in 1..4, Insert(r, level)
      PROVE  (\E i \in Ids : TreeStep(r, i))
               \/ (pc[r] = "run" /\ KeepTree /\ KeepCall /\ Go(r, "refused"))
  <2>. DEFINE new == [level |-> level, parent |-> Under(r), name |-> call[r].name, active |-> TRUE]
  <2>1. pc[r] = "run" /\ Depth(r) = level - 1
    BY <1>2 DEF Insert, AtRun
  <2>2. PICK i \in Ids \ issued :
          Put(r, (level > 1 => Exists(Target(r))) /\ UniqueIndex(Under(r), call[r].name, i), i, new)
    BY <1>2 DEF Insert, Warehouse
  <2>3. Under(r) = IF level = 1 THEN call[r].company ELSE Target(r)
    BY <1>1, <2>1 DEF Under, Above, Target
  <2>4. new \in Rows
    BY <1>1, <2>1, <2>3 DEF Rows, Warehouse, Location
  <2>5. CASE (level > 1 => Exists(Target(r))) /\ UniqueIndex(Under(r), call[r].name, i)
    <3>1. Inserts(r, i, new)
      BY <2>1, <2>2, <2>3, <2>4, <2>5 DEF Put, Inserts, Puts, Go, KeepCall
    <3>. QED
      BY <2>4, <3>1 DEF TreeStep
  <2>6. CASE ~((level > 1 => Exists(Target(r))) /\ UniqueIndex(Under(r), call[r].name, i))
    BY <2>1, <2>2, <2>6 DEF Put, KeepTree
  <2>. QED
    BY <2>5, <2>6
<1>3. ASSUME NEW level \in 1..4, SetName(r, level)
      PROVE  (\E i \in Ids : TreeStep(r, i))
               \/ (pc[r] = "run" /\ KeepTree /\ KeepCall /\ Go(r, "refused"))
  <2>. DEFINE i == Target(r)
              new == [row[i] EXCEPT !.name = call[r].name]
  <2>1. pc[r] = "run" /\ Depth(r) = level /\ i \in Ids
    BY <1>1, <1>3 DEF SetName, AtRun
  <2>2. CASE Exists(i) /\ UniqueIndex(row[i].parent, call[r].name, i)
    <3>1. row[i] \in Rows
      BY <2>1, <2>2 DEF IInv, TreeTypeOK, Exists
    <3>2. new \in Rows /\ new.level = row[i].level /\ new.parent = row[i].parent
            /\ new.name = call[r].name
      BY <1>1, <2>1, <3>1 DEF Rows
    <3>3. Changes(r, i, new)
      BY <1>3, <2>1, <2>2, <3>2 DEF SetName, Put, Changes, Puts, Go, KeepCall
    <3>. QED
      BY <2>1, <3>2, <3>3 DEF TreeStep
  <2>3. CASE ~(Exists(i) /\ UniqueIndex(row[i].parent, call[r].name, i))
    BY <1>3, <2>1, <2>3 DEF SetName, Put, KeepTree
  <2>. QED
    BY <2>2, <2>3
<1>4. ASSUME NEW level \in 2..4, Delete(r, level)
      PROVE  (\E i \in Ids : TreeStep(r, i))
               \/ (pc[r] = "run" /\ KeepTree /\ KeepCall /\ Go(r, "refused"))
  <2>. DEFINE i == Target(r)
  <2>1. pc[r] = "run" /\ Depth(r) = level /\ i \in Ids
    BY <1>1, <1>4 DEF Delete, AtRun
  <2>2. CASE Exists(i) /\ Unreferenced(i)
    BY <1>4, <2>1, <2>2 DEF Delete, Put, TreeStep, Removes, Puts, Go, KeepCall
  <2>3. CASE ~(Exists(i) /\ Unreferenced(i))
    BY <1>4, <2>1, <2>3 DEF Delete, Put, KeepTree
  <2>. QED
    BY <2>2, <2>3
<1>5. ASSUME ToggleActive(r)
      PROVE  (\E i \in Ids : TreeStep(r, i))
               \/ (pc[r] = "run" /\ KeepTree /\ KeepCall /\ Go(r, "refused"))
  <2>. DEFINE i == Target(r)
              new == [row[i] EXCEPT !.active = ~seen[r]]
  <2>1. pc[r] = "run" /\ Depth(r) = 1 /\ i \in Ids
    BY <1>1, <1>5 DEF ToggleActive, AtRun, Warehouse
  <2>2. CASE Exists(i)
    <3>1. row[i] \in Rows
      BY <2>1, <2>2 DEF IInv, TreeTypeOK, Exists
    <3>2. new \in Rows /\ new.level = row[i].level /\ new.parent = row[i].parent
            /\ new.name = row[i].name
      BY <2>1, <3>1 DEF Rows, IInv, TreeTypeOK
    <3>3. UniqueIndex(new.parent, new.name, i)
      BY <2>1, <2>2, <3>2 DEF IInv, SiblingsDiffer, UniqueIndex, Children, Exists
    <3>4. Changes(r, i, new)
      BY <1>5, <2>1, <2>2, <3>2, <3>3 DEF ToggleActive, Put, Changes, Puts, Go, KeepCall
    <3>. QED
      BY <2>1, <3>2, <3>4 DEF TreeStep
  <2>3. CASE ~Exists(i)
    BY <1>5, <2>1, <2>3 DEF ToggleActive, Put, KeepTree
  <2>. QED
    BY <2>2, <2>3
<1>. QED
  BY <1>2, <1>3, <1>4, <1>5
  DEF Write, CreateWarehouse, UpdateWarehouse, CreateZone, RenameZone, DeleteZone, CreateAisle,
      RenameAisle, DeleteAisle, CreateLocation, RenameLocation, DeleteLocation,
      Warehouse, Zone, Aisle, Location

\* A write keeps the tree: its types, the parents, the names, the ids.
LEMMA TreeStepKeepsTree ==
    ASSUME IInv, NEW r \in Slots, NEW i \in Ids, TreeStep(r, i)
    PROVE  TreeTypeOK' /\ TreeIsWhole' /\ SiblingsDiffer' /\ IssuedCovers' /\ NobodyMoves
<1>1. /\ row \in [Ids -> Rows \cup {NoRow}] /\ issued \subseteq Ids /\ held \subseteq Ids
      /\ \A j \in Ids : Exists(j) => row[j] \in Rows /\ row[j].level \in 1..4
      /\ pc[r] = "run" /\ call[r].company \in Companies
  BY CallShape DEF IInv, TreeTypeOK, Exists, Rows, Warehouse, Location, TreeStep, Inserts,
                   Changes, Removes, Puts
<1>2. PICK new \in Rows \cup {NoRow} :
        /\ Puts(r, i, new)
        /\ \/ new \in Rows /\ (Inserts(r, i, new) \/ Changes(r, i, new))
           \/ new = NoRow /\ Removes(r, i)
  BY DEF TreeStep, Inserts, Changes, Removes
<1>3. /\ row' \in [Ids -> Rows \cup {NoRow}] /\ row'[i] = new
      /\ \A j \in Ids \ {i} : row'[j] = row[j]
      /\ issued' = issued \cup {i} /\ held' = held
  BY <1>1, <1>2 DEF Puts
<1>4. \A j \in Ids : Exists(j) => j \in issued
  BY DEF IInv, IssuedCovers
<1>5. TreeTypeOK'
  BY <1>1, <1>2, <1>3 DEF IInv, TreeTypeOK, Puts, Statements, Answers
<1>6. IssuedCovers'
  BY <1>3, <1>4 DEF IssuedCovers, Exists
<1>7. NobodyMoves
  BY <1>1, <1>2, <1>3, <1>4, Markers DEF NobodyMoves, Inserts, Changes, Removes, Exists
<1>8. new \in Rows => /\ new # NoRow /\ new.level \in 1..4
                      /\ UniqueIndex(new.parent, new.name, i)
  BY <1>2, Markers DEF Rows, Warehouse, Location, Inserts, Changes, Removes
<1>9. SiblingsDiffer'
  <2>. SUFFICES ASSUME NEW j \in Ids, NEW k \in Ids, row'[j] # NoRow, row'[k] # NoRow, j # k,
                       row'[j].parent = row'[k].parent
                PROVE  row'[j].name # row'[k].name
    BY DEF SiblingsDiffer, Exists
  <2>1. CASE j # i /\ k # i
    BY <1>3, <2>1 DEF IInv, SiblingsDiffer, Exists
  <2>2. CASE j = i
    <3>1. new \in Rows /\ row'[k] = row[k]
      BY <1>2, <1>3, <2>2
    <3>. QED
      BY <1>3, <1>8, <2>2, <3>1 DEF UniqueIndex, Children, Exists
  <2>3. CASE k = i
    <3>1. new \in Rows /\ row'[j] = row[j]
      BY <1>2, <1>3, <2>3
    <3>. QED
      BY <1>3, <1>8, <2>3, <3>1 DEF UniqueIndex, Children, Exists
  <2>. QED
    BY <2>1, <2>2, <2>3
<1>10. ASSUME NEW j \in Ids, row'[j] # NoRow
       PROVE  IF row'[j].level = 1 THEN row'[j].parent \in Companies
              ELSE /\ row'[j].parent \in Ids /\ row'[row'[j].parent] # NoRow
                   /\ row'[row'[j].parent].level = row'[j].level - 1
  <2>1. \A k \in Ids : Exists(k) =>
          IF row[k].level = 1 THEN row[k].parent \in Companies
          ELSE /\ row[k].parent \in Ids /\ Exists(row[k].parent)
               /\ row[row[k].parent].level = row[k].level - 1
    BY DEF IInv, TreeIsWhole, Warehouse, Exists
  <2>2. CASE Inserts(r, i, new)
    <3>1. i \notin issued
      BY <2>2 DEF Inserts
    <3>2. \A k \in Ids : Exists(k) => row'[k] = row[k] /\ row'[k] # NoRow
      BY <1>3, <1>4, <3>1 DEF Exists
    <3>3. CASE j = i
      <4>1. CASE new.level = 1
        BY <1>1, <1>3, <2>2, <3>3, <4>1 DEF Inserts
      <4>2. CASE new.level # 1
        <5>1. /\ Depth(r) \in 1..3 /\ Link(r, Depth(r)) /\ Exists(Target(r))
              /\ new.parent = Target(r) /\ new.level = Depth(r) + 1
          BY <1>1, <2>2, <4>2 DEF Inserts, IInv, ChecksHold
        <5>2. Target(r) \in Ids /\ row[Target(r)].level = Depth(r)
          BY <5>1 DEF Link, Target, Exists
        <5>. QED
          BY <1>3, <3>2, <3>3, <4>2, <5>1, <5>2
      <4>. QED
        BY <4>1, <4>2
    <3>4. CASE j # i
      <4>1. Exists(j) /\ row'[j] = row[j]
        BY <1>3, <1>10, <3>4 DEF Exists
      <4>. QED
        BY <2>1, <3>2, <4>1
    <3>. QED
      BY <3>3, <3>4
  <2>3. CASE new \in Rows /\ Changes(r, i, new)
    <3>1. Exists(i) /\ new.level = row[i].level /\ new.parent = row[i].parent /\ new # NoRow
      BY <1>8, <2>3 DEF Changes
    <3>2. \A k \in Ids : Exists(k) =>
            row'[k] # NoRow /\ row'[k].level = row[k].level /\ row'[k].parent = row[k].parent
      BY <1>3, <3>1 DEF Exists
    <3>3. Exists(j)
      BY <1>3, <1>10, <3>1 DEF Exists
    <3>. QED
      BY <2>1, <3>2, <3>3
  <2>4. CASE Removes(r, i)
    <3>1. new = NoRow /\ Unreferenced(i)
      BY <1>1, <1>3, <2>4 DEF Removes, Puts
    <3>2. j # i /\ row'[j] = row[j] /\ Exists(j)
      BY <1>3, <1>10, <3>1 DEF Exists
    <3>3. row[j].parent # i
      BY <3>1, <3>2 DEF Unreferenced, Children
    <3>. QED
      BY <1>3, <2>1, <3>2, <3>3 DEF Exists
  <2>. QED
    BY <1>2, <2>2, <2>3, <2>4
<1>11. ASSUME NEW j \in held
       PROVE  j \in Ids /\ row'[j] # NoRow /\ row'[j].level = 4
  <2>1. j \in Ids /\ Exists(j) /\ row[j].level = 4
    BY <1>1, <1>11 DEF IInv, TreeIsWhole, Location
  <2>2. new = NoRow => j # i
    BY <1>2, <1>11, Markers DEF Removes, Unreferenced
  <2>3. j = i => new.level = row[i].level
    BY <1>2, <1>4, <2>1, <2>2 DEF Inserts, Changes
  <2>. QED
    BY <1>3, <1>8, <1>2, <2>1, <2>2, <2>3 DEF Exists
<1>12. TreeIsWhole'
  BY <1>3, <1>10, <1>11 DEF TreeIsWhole, Exists, Warehouse, Location
<1>. QED
  BY <1>5, <1>6, <1>7, <1>9, <1>12

\* A write is on behalf of the company whose tree it is in.
LEMMA TreeStepStaysInCompany ==
    ASSUME IInv, NEW r \in Slots, NEW i \in Ids, TreeStep(r, i)
    PROVE  call[r].company = IF Exists(i) THEN Owner(i) ELSE Owner(row'[i].parent)
<1>1. /\ pc[r] = "run" /\ call[r].company \in Companies /\ Depth(r) \in 0..4
      /\ \A j \in 1..Depth(r) : Link(r, j)
      /\ \A j \in Ids : Exists(j) => j \in issued
  BY CallShape DEF IInv, TreeTypeOK, ChecksHold, IssuedCovers, Depth, Path,
                   TreeStep, Inserts, Changes, Removes, Puts
<1>2. Depth(r) > 0 /\ Exists(Target(r)) => Owner(Target(r)) = call[r].company
  BY <1>1, PathsAreOwned DEF Target
<1>3. ASSUME NEW new \in Rows, Inserts(r, i, new)
      PROVE  ~Exists(i) /\ Owner(row'[i].parent) = call[r].company
  <2>1. ~Exists(i) /\ row'[i] = new
    BY <1>1, <1>3 DEF Inserts, Puts, IInv, TreeTypeOK
  <2>2. CASE new.level = 1
    <3>1. new.parent = call[r].company /\ call[r].company \notin Ids
      BY <1>1, <1>3, <2>2, CompaniesAreNoNodes DEF Inserts
    <3>. QED
      BY <2>1, <3>1 DEF Owner, Exists
  <2>3. CASE new.level # 1
    BY <1>2, <1>3, <2>1, <2>3 DEF Inserts
  <2>. QED
    BY <2>1, <2>2, <2>3
<1>4. ASSUME NEW new \in Rows, Changes(r, i, new)
      PROVE  Exists(i) /\ Owner(i) = call[r].company
  BY <1>2, <1>4 DEF Changes
<1>5. ASSUME Removes(r, i)
      PROVE  Exists(i) /\ Owner(i) = call[r].company
  BY <1>2, <1>5 DEF Removes
<1>. QED
  BY <1>3, <1>4, <1>5 DEF TreeStep

-----------------------------------------------------------------------------
(* Every step *)

LEMMA InitEstablishesIInv == Init => IInv
<1>. SUFFICES ASSUME Init PROVE IInv
  OBVIOUS
<1>1. TreeTypeOK
  BY DEF Init, TreeTypeOK, Statements
<1>2. TreeIsWhole /\ SiblingsDiffer /\ IssuedCovers
  BY DEF Init, IssuedCovers
<1>3. ChecksHold /\ AnswersHold /\ AnswersStayInCompany
  BY DEF Init, ChecksHold, AnswersHold, AnswersStayInCompany, Steps
<1>. QED
  BY <1>1, <1>2, <1>3 DEF IInv

\* Where a handler goes after k look-ups.
LEMMA AfterShape ==
    ASSUME NEW c \in CallType, NEW k \in 0..4, k <= Len(c.path)
    PROVE  \/ k < Len(c.path) /\ k + 1 \in 1..4 /\ After(c, k) = Steps[k + 1]
           \/ k = Len(c.path) /\ After(c, k) \in {"name", "run"}
<1>1. Len(c.path) \in 0..4
  BY CallShape
<1>2. CASE k < Len(c.path)
  <2>1. After(c, k) = Steps[k + 1]
    BY <1>2 DEF After
  <2>2. \A n \in 0..4 : k < n => k + 1 \in 1..4
    OBVIOUS
  <2>. QED
    BY <1>1, <1>2, <2>1, <2>2
<1>3. CASE ~(k < Len(c.path))
  <2>1. k = Len(c.path)
    BY <1>1, <1>3
  <2>2. After(c, k) \in {"name", "run"}
    BY <1>3 DEF After
  <2>. QED
    BY <2>1, <2>2
<1>. QED
  BY <1>2, <1>3

\* A look-up moves its handler on, past the link it found, or refuses.
LEMMA LookUpShape ==
    ASSUME IInv, NEW r \in Slots, NEW k \in 1..4, LookUp(r, k)
    PROVE  /\ KeepTree /\ pc' = [pc EXCEPT ![r] = pc'[r]]
           /\ pc[r] \notin {"idle", "ok", "refused"}
           /\ \/ pc'[r] = "refused"
              \/ /\ k \in 1..Depth(r) /\ \A j \in 1..k : Link(r, j)
                 /\ \/ k < Depth(r) /\ k + 1 \in 1..4 /\ pc'[r] = Steps[k + 1]
                    \/ k = Depth(r) /\ pc'[r] \in {"name", "run"}
<1>1. pc[r] = Steps[k] /\ pc[r] # "idle" /\ pc[r] \notin {"ok", "refused"}
  BY DEF LookUp, Steps
<1>2. call[r] \in CallType /\ Depth(r) \in 0..4 /\ Path(r) \in [1..Depth(r) -> Ids]
  BY <1>1, CallShape DEF IInv, TreeTypeOK, Depth, Path
<1>3. k \in 1..Depth(r) /\ \A j \in 1..(k - 1) : Link(r, j)
  BY <1>1 DEF IInv, ChecksHold
<1>4. KeepTree /\ pc' = [pc EXCEPT ![r] = pc'[r]]
        /\ pc'[r] = IF Found(r, k) THEN After(call[r], k) ELSE "refused"
  BY DEF LookUp, Go, IInv, TreeTypeOK
<1>5. CASE Found(r, k)
  <2>1. Link(r, k)
    BY <1>2, <1>3, <1>5 DEF Found, Link, IInv, IssuedCovers, Exists
  <2>2. \A j \in 1..k : Link(r, j)
    BY <1>3, <2>1
  <2>3. pc'[r] = After(call[r], k)
    BY <1>4, <1>5
  <2>4. k <= Len(call[r].path) /\ Depth(r) = Len(call[r].path)
    BY <1>2, <1>3 DEF Depth, Path
  <2>5. \/ k < Depth(r) /\ k + 1 \in 1..4 /\ pc'[r] = Steps[k + 1]
        \/ k = Depth(r) /\ pc'[r] \in {"name", "run"}
    <3>1. \/ k < Len(call[r].path) /\ k + 1 \in 1..4 /\ After(call[r], k) = Steps[k + 1]
          \/ k = Len(call[r].path) /\ After(call[r], k) \in {"name", "run"}
      <4>1. call[r] \in CallType /\ k \in 0..4 /\ k <= Len(call[r].path)
        BY <1>2, <2>4
      <4>. QED
        BY <4>1, AfterShape
    <3>. QED
      BY <2>3, <2>4, <3>1
  <2>. QED
    BY <1>1, <1>3, <1>4, <2>2, <2>5
<1>. QED
  BY <1>1, <1>4, <1>5

\* What a step of a handler that does not write does: it goes somewhere.
Turn(r) ==
    /\ KeepTree
    /\ pc' = [pc EXCEPT ![r] = pc'[r]]
    /\ call' = [call EXCEPT ![r] = call'[r]] /\ seen' = [seen EXCEPT ![r] = seen'[r]]
    /\ result' = [result EXCEPT ![r] = result'[r]]
    /\ pc'[r] \in Statements /\ seen'[r] \in BOOLEAN /\ result'[r] \in SUBSET Ids
    /\ call'[r] \in CallType \/ (pc'[r] = "idle" /\ call'[r] = NoCall)

LEMMA Turns ==
    ASSUME IInv, NEW r \in Slots, Arrive(r) \/ Find(r) \/ Read(r) \/ Fail(r) \/ Finish(r)
    PROVE  Turn(r)
<1>. USE DEF Turn
<1>1. /\ pc \in [Slots -> Statements] /\ seen \in [Slots -> BOOLEAN]
      /\ call \in [Slots -> CallType \cup {NoCall}] /\ result \in [Slots -> SUBSET Ids]
      /\ pc[r] # "idle" => call[r] \in CallType
  BY DEF IInv, TreeTypeOK
<1>2. CASE Arrive(r)
  <2>1. PICK c \in Calls : Begin(r, c)
    BY <1>2 DEF Arrive
  <2>2. c \in CallType /\ Len(c.path) \in 0..4
    BY CallsAreCalls, CallShape
  <2>3. After(c, 0) \in Statements
    BY <2>2, AfterShape DEF Steps, Statements
  <2>. QED
    BY <1>1, <2>1, <2>2, <2>3 DEF Begin, Go
<1>3. ASSUME NEW k \in 1..4, LookUp(r, k)
      PROVE  KeepTree /\ pc' = [pc EXCEPT ![r] = pc'[r]] /\ pc'[r] \in Statements
               /\ call[r] \in CallType
  BY <1>1, <1>3, LookUpShape DEF Steps, Statements, Answers
<1>4. CASE FindWarehouse(r)
  <2>1. seen'[r] \in BOOLEAN
    BY <1>1, <1>4 DEF FindWarehouse, Found, IInv, TreeTypeOK, Exists, Rows
  <2>. QED
    BY <1>1, <1>3, <1>4, <2>1 DEF FindWarehouse, Warehouse
<1>5. CASE FindZoneInWh(r) \/ FindAisleInZone(r) \/ FindLocationInAisle(r)
  BY <1>1, <1>3, <1>5 DEF FindZoneInWh, FindAisleInZone, FindLocationInAisle, KeepCall,
                          Zone, Aisle, Location
<1>6. CASE FindConflict(r)
  BY <1>1, <1>6 DEF FindConflict, Go, KeepCall, Statements, Answers
<1>7. ASSUME NEW ids \in SUBSET Ids, pc[r] = "run", Answer(r, ids)
      PROVE  Turn(r)
  BY <1>1, <1>7 DEF Answer, Go, Statements, Answers
<1>8. CASE Read(r)
  <2>1. \A x : Children(x) \in SUBSET Ids
    BY DEF Children
  <2>2. ASSUME NEW depth \in 0..3, List(r, depth)
        PROVE  Turn(r)
    BY <1>7, <2>1, <2>2 DEF List, AtRun
  <2>3. CASE FindLocationByCode(r)
    <3>1. ASSUME NEW l \in Coded(r), Answer(r, {l})
          PROVE  Turn(r)
      BY <1>7, <2>3, <3>1 DEF FindLocationByCode, AtRun, Coded
    <3>2. CASE Go(r, "refused") /\ KeepTree /\ KeepCall
      BY <1>1, <2>3, <3>2 DEF Go, KeepCall, FindLocationByCode, AtRun, Statements, Answers
    <3>. QED
      BY <2>3, <3>1, <3>2 DEF FindLocationByCode
  <2>. QED
    BY <1>8, <2>2, <2>3 DEF Read, FindAll, FindZones, FindAisles, FindLocations,
                            Warehouse, Zone, Aisle
<1>9. CASE Fail(r)
  BY <1>1, <1>9 DEF Fail, Go, Statements, Answers
<1>10. CASE Finish(r)
  BY <1>1, <1>10 DEF Finish, Go, Statements, Answers
<1>. QED
  BY <1>2, <1>4, <1>5, <1>6, <1>8, <1>9, <1>10 DEF Find

LEMMA RefusalTurns ==
    ASSUME IInv, NEW r \in Slots, pc[r] = "run", KeepTree, KeepCall, Go(r, "refused")
    PROVE  Turn(r)
  BY DEF Turn, Go, KeepCall, IInv, TreeTypeOK, Statements, Answers

\* Every step is one of a handler that turns, one that writes, or a line that
\* takes or leaves a location.
LEMMA Steppers ==
    ASSUME IInv, Next
    PROVE  \/ \E r \in Slots : Turn(r) /\ (Arrive(r) \/ Find(r) \/ Read(r) \/ Fail(r)
                                 \/ Finish(r) \/ (pc[r] = "run" /\ KeepCall /\ Go(r, "refused")))
           \/ \E r \in Slots, i \in Ids : TreeStep(r, i)
           \/ \E i \in Ids : Hold(i)
  BY Turns, Written, RefusalTurns DEF Next, Handle

LEMMA TreeStays ==
    ASSUME IInv, [Next]_server
    PROVE  TreeTypeOK' /\ TreeIsWhole' /\ SiblingsDiffer' /\ IssuedCovers' /\ NobodyMoves
<1>1. CASE UNCHANGED server
  BY <1>1 DEF server, IInv, TreeTypeOK, TreeIsWhole, SiblingsDiffer, IssuedCovers, NobodyMoves,
              Exists
<1>2. ASSUME NEW r \in Slots, Turn(r)
      PROVE  TreeTypeOK' /\ TreeIsWhole' /\ SiblingsDiffer' /\ IssuedCovers' /\ NobodyMoves
  <2>1. TreeIsWhole' /\ SiblingsDiffer' /\ IssuedCovers' /\ NobodyMoves
    BY <1>2 DEF Turn, KeepTree, IInv, TreeIsWhole, SiblingsDiffer, IssuedCovers, NobodyMoves,
                Exists
  <2>2. TreeTypeOK'
    BY <1>2, Markers DEF Turn, KeepTree, IInv, TreeTypeOK
  <2>. QED
    BY <2>1, <2>2
<1>3. ASSUME NEW i \in Ids, Hold(i)
      PROVE  TreeTypeOK' /\ TreeIsWhole' /\ SiblingsDiffer' /\ IssuedCovers' /\ NobodyMoves
  <2>1. UNCHANGED <<row, issued, pc, call, seen, result>> /\ held' \subseteq held \cup {i}
    BY <1>3 DEF Hold, KeepCall
  <2>2. TreeTypeOK' /\ SiblingsDiffer' /\ IssuedCovers' /\ NobodyMoves
    BY <2>1 DEF IInv, TreeTypeOK, SiblingsDiffer, IssuedCovers, NobodyMoves, Exists
  <2>3. TreeIsWhole'
    BY <1>3, <2>1 DEF Hold, IInv, TreeIsWhole, Exists
  <2>. QED
    BY <2>2, <2>3
<1>. QED
  BY <1>1, <1>2, <1>3, Steppers, TreeStepKeepsTree

\* A link that has been checked stays checked.
LEMMA LinkStays ==
    ASSUME NobodyMoves, NEW r \in Slots, NEW k, call'[r] = call[r], Link(r, k),
           Path(r)[k] \in Ids
    PROVE  Link(r, k)'
  BY DEF Link, NobodyMoves, Exists, Path, Above

LEMMA ChecksStay ==
    ASSUME IInv, [Next]_server
    PROVE  ChecksHold'
<1>1. NobodyMoves
  BY TreeStays
<1>2. \A s \in Slots : pc[s] # "idle" =>
        Depth(s) \in 0..4 /\ \A k \in 1..Depth(s) : Path(s)[k] \in Ids
  BY CallShape DEF IInv, TreeTypeOK, Depth, Path
<1>. DEFINE Checked(s) ==
        /\ \A k \in 1..4 : pc[s] = Steps[k] =>
               k \in 1..Depth(s) /\ \A j \in 1..(k - 1) : Link(s, j)
        /\ pc[s] \in {"name", "run"} => \A j \in 1..Depth(s) : Link(s, j)
<1>3. \A s \in Slots : Checked(s)
  BY DEF IInv, ChecksHold
<1>4. ASSUME NEW s \in Slots, pc'[s] = pc[s], call'[s] = call[s]
      PROVE  Checked(s)'
  <2>1. Depth(s)' = Depth(s)
    BY <1>4 DEF Depth, Path
  <2>2. CASE pc[s] # "idle"
    <3>1. \A k \in 1..Depth(s) : Link(s, k) => Link(s, k)'
      BY <1>1, <1>2, <1>4, <2>2, LinkStays
    <3>. QED
      BY <1>2, <1>3, <1>4, <2>1, <2>2, <3>1
  <2>3. CASE pc[s] = "idle"
    BY <1>4, <2>3 DEF Steps
  <2>. QED
    BY <2>2, <2>3
<1>5. ASSUME NEW s \in Slots, pc'[s] \in {"idle", "ok", "refused"}
      PROVE  Checked(s)'
  BY <1>5 DEF Steps
<1>6. ASSUME NEW r \in Slots, Turn(r),
             Arrive(r) \/ Find(r) \/ Read(r) \/ Fail(r) \/ Finish(r) \/ Go(r, "refused")
      PROVE  Checked(r)'
  <2>0. pc \in [Slots -> Statements]
    BY DEF IInv, TreeTypeOK
  <2>1. CASE Arrive(r)
    <3>1. PICK c \in Calls : Begin(r, c)
      BY <2>1 DEF Arrive
    <3>2. c \in CallType /\ Len(c.path) \in 0..4
      BY CallsAreCalls, CallShape
    <3>3. call'[r] = c /\ pc'[r] = After(c, 0)
      BY <2>0, <3>1 DEF Begin, Go, IInv, TreeTypeOK
    <3>4. Depth(r)' = Len(c.path)
      BY <3>3 DEF Depth, Path
    <3>5. \/ Depth(r)' \in 1..4 /\ pc'[r] = "warehouse"
          \/ Depth(r)' = 0 /\ pc'[r] \in {"name", "run"}
      BY <3>2, <3>3, <3>4, AfterShape DEF Steps
    <3>. QED
      BY <3>5 DEF Steps
  <2>2. ASSUME NEW k \in 1..4, LookUp(r, k), call'[r] = call[r]
        PROVE  Checked(r)'
    <3>1. \/ pc'[r] = "refused"
          \/ /\ k \in 1..Depth(r) /\ \A j \in 1..k : Link(r, j)
             /\ \/ k < Depth(r) /\ k + 1 \in 1..4 /\ pc'[r] = Steps[k + 1]
                \/ k = Depth(r) /\ pc'[r] \in {"name", "run"}
      BY <2>2, LookUpShape
    <3>2. pc[r] # "idle" /\ Depth(r)' = Depth(r) /\ Depth(r) \in 0..4
      BY <1>2, <2>2, LookUpShape DEF Depth, Path
    <3>3. \A j \in 1..Depth(r) : Link(r, j) => Link(r, j)'
      BY <1>1, <1>2, <2>2, <3>2, LinkStays
    <3>4. CASE /\ k \in 1..Depth(r) /\ \A j \in 1..k : Link(r, j)
               /\ k < Depth(r) /\ k + 1 \in 1..4 /\ pc'[r] = Steps[k + 1]
      <4>1. \A m, n \in {1, 2, 3, 4} : Steps[m] = Steps[n] => m = n
        BY DEF Steps
      <4>2. \A m \in 1..4 : pc'[r] = Steps[m] =>
              m \in 1..Depth(r) /\ \A j \in 1..(m - 1) : Link(r, j)'
        <5>. SUFFICES ASSUME NEW m \in 1..4, pc'[r] = Steps[m]
                      PROVE  m \in 1..Depth(r) /\ \A j \in 1..(m - 1) : Link(r, j)'
          OBVIOUS
        <5>1. m \in {1, 2, 3, 4} /\ k + 1 \in {1, 2, 3, 4}
          BY <3>4
        <5>2. m = k + 1
          BY <3>4, <4>1, <5>1
        <5>3. m \in 1..Depth(r) /\ m - 1 = k
          BY <3>2, <3>4, <5>2
        <5>. QED
          BY <3>2, <3>3, <3>4, <5>3
      <4>3. pc'[r] \notin {"name", "run"}
        BY <3>4 DEF Steps
      <4>. QED
        BY <3>2, <4>2, <4>3
    <3>5. CASE /\ k \in 1..Depth(r) /\ \A j \in 1..k : Link(r, j)
               /\ k = Depth(r) /\ pc'[r] \in {"name", "run"}
      BY <3>2, <3>3, <3>5 DEF Steps
    <3>. QED
      BY <1>5, <3>1, <3>4, <3>5
  <2>3. CASE FindConflict(r)
    <3>1. pc[r] = "name" /\ pc'[r] \in {"run", "refused"} /\ call'[r] = call[r]
      BY <2>0, <2>3 DEF FindConflict, Go, KeepCall
    <3>2. Depth(r)' = Depth(r) /\ \A j \in 1..Depth(r) : Link(r, j)'
      BY <1>1, <1>2, <1>3, <3>1, LinkStays DEF Depth, Path
    <3>. QED
      BY <3>1, <3>2 DEF Steps
  <2>4. CASE Read(r) \/ Fail(r) \/ Finish(r) \/ Go(r, "refused")
    <3>1. pc'[r] \in {"idle", "ok", "refused"}
      BY <2>0, <2>4 DEF Read, FindAll, FindZones, FindAisles, FindLocations, FindLocationByCode,
                        List, Answer, Fail, Finish, Go
    <3>. QED
      BY <1>5, <3>1
  <2>. QED
    BY <1>6, <2>1, <2>2, <2>3, <2>4
    DEF Find, FindWarehouse, FindZoneInWh, FindAisleInZone, FindLocationInAisle, KeepCall,
        Warehouse, Zone, Aisle, Location
<1>7. ASSUME NEW r \in Slots, NEW i \in Ids, TreeStep(r, i), NEW s \in Slots
      PROVE  Checked(s)'
  <2>1. pc' = [pc EXCEPT ![r] = "ok"] /\ call' = call /\ pc \in [Slots -> Statements]
    BY <1>7 DEF TreeStep, Inserts, Changes, Removes, Puts, IInv, TreeTypeOK
  <2>. QED
    BY <1>4, <1>5, <2>1
<1>8. ASSUME NEW r \in Slots, Turn(r), NEW s \in Slots, s # r
      PROVE  Checked(s)'
  <2>1. pc'[s] = pc[s] /\ call'[s] = call[s]
    BY <1>8 DEF Turn, IInv, TreeTypeOK
  <2>. QED
    BY <1>4, <2>1
<1>9. ASSUME UNCHANGED server \/ \E i \in Ids : Hold(i), NEW s \in Slots
      PROVE  Checked(s)'
  BY <1>4, <1>9 DEF server, Hold, KeepCall
<1>10. ASSUME NEW s \in Slots PROVE Checked(s)'
  BY <1>6, <1>7, <1>8, <1>9, Steppers
<1>. QED
  BY <1>10 DEF ChecksHold

\* What a read answers is the caller's company's when it is read.
LEMMA ReadsAreOwned ==
    ASSUME IInv, NEW r \in Slots, Read(r), pc'[r] = "ok", NEW i \in result'[r]
    PROVE  i \in Ids /\ Exists(i) /\ Owner(i) = call[r].company
<1>1. /\ pc[r] = "run" /\ Depth(r) \in 0..4 /\ call[r].company \in Companies
      /\ Path(r) \in [1..Depth(r) -> Ids] /\ \A j \in 1..Depth(r) : Link(r, j)
      /\ result \in [Slots -> SUBSET Ids] /\ pc \in [Slots -> Statements]
  BY CallShape DEF IInv, TreeTypeOK, ChecksHold, Path, Depth, Read, FindAll, FindZones,
                   FindAisles, FindLocations, FindLocationByCode, List, AtRun
<1>2. ASSUME NEW depth \in 0..3, List(r, depth)
      PROVE  i \in Ids /\ Exists(i) /\ Owner(i) = call[r].company
  <2>1. i \in Ids /\ Exists(i) /\ row[i].parent = Under(r) /\ Depth(r) = depth
    BY <1>1, <1>2 DEF List, Answer, Children, AtRun
  <2>2. CASE depth = 0
    <3>1. row[i].parent = call[r].company /\ call[r].company \notin Ids
      BY <1>1, <2>1, <2>2, CompaniesAreNoNodes DEF Under, Above
    <3>2. row[i].level = 1
      BY <2>1, <3>1, OwnerChain DEF IInv
    <3>. QED
      BY <2>1, <3>1, <3>2, OwnerChain DEF IInv
  <2>3. CASE depth # 0
    <3>1. row[i].parent = Target(r) /\ Target(r) \in Ids
      BY <1>1, <2>1, <2>3 DEF Under, Above, Target
    <3>2. row[i].level # 1
      BY <2>1, <3>1, OwnerChain, CompaniesAreNoNodes DEF IInv
    <3>3. Exists(Target(r)) /\ Owner(i) = Owner(Target(r))
      BY <2>1, <3>1, <3>2, OwnerChain DEF IInv
    <3>. QED
      BY <1>1, <2>1, <2>3, <3>3, PathsAreOwned DEF Target
  <2>. QED
    BY <2>2, <2>3
<1>3. ASSUME FindLocationByCode(r)
      PROVE  i \in Ids /\ Exists(i) /\ Owner(i) = call[r].company
  <2>1. i \in Coded(r) /\ Depth(r) = 1
    <3>1. Depth(r) = 1 /\ ~Go(r, "refused")
      BY <1>1, <1>3 DEF FindLocationByCode, AtRun, Warehouse, Go
    <3>2. PICK l \in Coded(r) : Answer(r, {l})
      BY <1>3, <3>1 DEF FindLocationByCode
    <3>. QED
      BY <1>1, <3>1, <3>2 DEF Answer
  <2>. DEFINE a == row[i].parent
              z == row[a].parent
              w == Path(r)[1]
  <2>2. i \in Ids /\ Exists(i) /\ row[i].level = 4 /\ row[z].parent = w /\ w \in Ids
    BY <1>1, <2>1 DEF Coded, Location
  <2>3. a \in Ids /\ Exists(a) /\ row[a].level = 3 /\ Owner(i) = Owner(a)
    BY <2>2, OwnerChain DEF IInv
  <2>4. z \in Ids /\ Exists(z) /\ row[z].level = 2 /\ Owner(a) = Owner(z)
    BY <2>3, OwnerChain DEF IInv
  <2>5. Exists(w) /\ Owner(z) = Owner(w)
    BY <2>2, <2>4, OwnerChain DEF IInv
  <2>. QED
    BY <1>1, <2>1, <2>2, <2>3, <2>4, <2>5, PathsAreOwned
<1>. QED
  BY <1>2, <1>3 DEF Read, FindAll, FindZones, FindAisles, FindLocations, Warehouse, Zone, Aisle

\* What a step does to the answers: it leaves one, empties it, or reads it.
LEMMA AnswersMade ==
    ASSUME IInv, [Next]_server, NEW s \in Slots
    PROVE  \/ pc'[s] # "ok" /\ result'[s] = {}
           \/ pc'[s] = "ok" /\ pc[s] = "run" /\ result'[s] = {} /\ call'[s] = call[s]
           \/ pc[s] = "ok" /\ pc'[s] = "ok" /\ result'[s] = result[s] /\ call'[s] = call[s]
           \/ pc'[s] = "ok" /\ Read(s) /\ call'[s] = call[s]
<1>1. /\ pc \in [Slots -> Statements] /\ result \in [Slots -> SUBSET Ids]
      /\ call \in [Slots -> CallType \cup {NoCall}]
      /\ pc[s] # "ok" => result[s] = {}
  BY DEF IInv, TreeTypeOK, AnswersHold
<1>2. CASE UNCHANGED <<pc, call, result>>
  BY <1>1, <1>2
<1>3. ASSUME NEW r \in Slots, NEW i \in Ids, TreeStep(r, i)
      PROVE  \/ pc'[s] # "ok" /\ result'[s] = {}
             \/ pc'[s] = "ok" /\ pc[s] = "run" /\ result'[s] = {} /\ call'[s] = call[s]
             \/ pc[s] = "ok" /\ pc'[s] = "ok" /\ result'[s] = result[s] /\ call'[s] = call[s]
  BY <1>1, <1>3 DEF TreeStep, Inserts, Changes, Removes, Puts
<1>4. ASSUME NEW r \in Slots, Turn(r), r # s
      PROVE  pc'[s] = pc[s] /\ result'[s] = result[s] /\ call'[s] = call[s]
  BY <1>1, <1>4 DEF Turn
<1>5. ASSUME Turn(s), Arrive(s) \/ Find(s) \/ Fail(s) \/ Finish(s)
                        \/ (pc[s] = "run" /\ KeepCall /\ Go(s, "refused"))
      PROVE  pc'[s] # "ok" /\ result'[s] = {}
  <2>1. ASSUME pc'[s] # "ok", pc[s] # "ok", result'[s] = result[s]
        PROVE  pc'[s] # "ok" /\ result'[s] = {}
    BY <1>1, <2>1
  <2>2. CASE Arrive(s)
    <3>1. PICK c \in Calls : Begin(s, c)
      BY <2>2 DEF Arrive
    <3>2. c \in CallType /\ Len(c.path) \in 0..4
      BY CallsAreCalls, CallShape
    <3>3. After(c, 0) # "ok"
      BY <3>2, AfterShape DEF Steps
    <3>. QED
      BY <1>1, <2>1, <3>1, <3>3 DEF Begin, Go
  <2>3. ASSUME NEW k \in 1..4, LookUp(s, k), result' = result
        PROVE  pc'[s] # "ok" /\ result'[s] = {}
    BY <1>1, <2>3, LookUpShape DEF Steps
  <2>4. CASE FindConflict(s)
    BY <1>1, <2>1, <2>4 DEF FindConflict, Go, KeepCall
  <2>5. CASE Find(s)
    BY <2>3, <2>4, <2>5
    DEF Find, FindWarehouse, FindZoneInWh, FindAisleInZone, FindLocationInAisle, KeepCall,
        Warehouse, Zone, Aisle, Location
  <2>6. CASE Fail(s) \/ Finish(s) \/ (pc[s] = "run" /\ KeepCall /\ Go(s, "refused"))
    BY <1>1, <2>6 DEF Fail, Finish, Go, KeepCall
  <2>. QED
    BY <1>5, <2>2, <2>5, <2>6
<1>6. CASE Read(s) /\ Turn(s)
  <2>1. call'[s] = call[s] /\ pc[s] = "run"
    BY <1>6 DEF Read, FindAll, FindZones, FindAisles, FindLocations, FindLocationByCode, List,
                Answer, KeepCall, AtRun
  <2>2. pc'[s] # "ok" => result'[s] = {}
    BY <1>1, <1>6, <2>1 DEF Read, FindAll, FindZones, FindAisles, FindLocations,
                            FindLocationByCode, List, Answer, KeepCall, AtRun, Go
  <2>. QED
    BY <1>6, <2>1, <2>2
<1>7. CASE UNCHANGED server \/ \E i \in Ids : Hold(i)
  BY <1>2, <1>7 DEF server, Hold, KeepCall
<1>. QED
  BY <1>1, <1>3, <1>4, <1>5, <1>6, <1>7, Steppers

LEMMA AnswersStay ==
    ASSUME IInv, [Next]_server
    PROVE  AnswersHold' /\ AnswersStayInCompany'
<1>1. TreeTypeOK' /\ TreeIsWhole' /\ NobodyMoves /\ TreeTypeOK /\ TreeIsWhole /\ IssuedCovers
  BY TreeStays DEF IInv
<1>2. /\ \A j \in issued : j \in issued'
      /\ \A j \in issued : row'[j] # NoRow => row[j] # NoRow
  BY <1>1 DEF NobodyMoves
<1>3. ASSUME NEW j \in Ids, Exists(j), row'[j] # NoRow
      PROVE  Owner(j)' = Owner(j)
  BY <1>1, <1>3, OwnersStay DEF Exists
<1>4. ASSUME NEW s \in Slots
      PROVE  /\ result'[s] \subseteq issued' /\ (pc'[s] # "ok" => result'[s] = {})
             /\ pc'[s] = "ok" => \A j \in result'[s] : row'[j] # NoRow /\ j \in Ids =>
                                     Owner(j)' = call'[s].company
  <2>1. result[s] \subseteq issued /\ result[s] \subseteq Ids /\ issued \subseteq Ids
    BY DEF IInv, AnswersHold, TreeTypeOK
  <2>2. CASE result'[s] = {}
    BY <2>2
  <2>3. CASE pc[s] = "ok" /\ pc'[s] = "ok" /\ result'[s] = result[s] /\ call'[s] = call[s]
    <3>1. \A j \in result[s] : row[j] # NoRow => Owner(j) = call[s].company
      BY <2>1, <2>3 DEF IInv, AnswersStayInCompany, Exists
    <3>. QED
      BY <1>2, <1>3, <2>1, <2>3, <3>1 DEF Exists
  <2>4. CASE pc'[s] = "ok" /\ Read(s) /\ call'[s] = call[s]
    <3>1. \A j \in result'[s] : j \in Ids /\ Exists(j) /\ Owner(j) = call[s].company
      BY <2>4, ReadsAreOwned
    <3>2. result'[s] \subseteq issued
      BY <1>1, <3>1 DEF IssuedCovers
    <3>. QED
      BY <1>2, <1>3, <2>4, <3>1, <3>2
  <2>. QED
    BY <2>2, <2>3, <2>4, AnswersMade
<1>. QED
  BY <1>4 DEF AnswersHold, AnswersStayInCompany, Exists

LEMMA NextPreservesIInv == IInv /\ [Next]_server => IInv'
  BY TreeStays, ChecksStay, AnswersStay DEF IInv

\* Whose row is written, in the words of WritesStayInCompany.
WrittenByOwner(i) ==
    \E r \in Slots : /\ pc[r] = "run" /\ pc'[r] = "ok"
                     /\ call[r].company =
                            IF Exists(i) THEN Owner(i) ELSE Owner(row'[i].parent)

LEMMA WritesComeFromOwners ==
    IInv /\ Next => \A i \in Ids : row'[i] # row[i] => WrittenByOwner(i)
<1>. SUFFICES ASSUME IInv, Next, NEW i \in Ids, row'[i] # row[i]
              PROVE  WrittenByOwner(i)
  OBVIOUS
<1>1. PICK r \in Slots, j \in Ids : TreeStep(r, j)
  BY Steppers DEF Turn, KeepTree, Hold
<1>2. pc[r] = "run" /\ pc'[r] = "ok" /\ i = j
  BY <1>1 DEF TreeStep, Inserts, Changes, Removes, Puts, IInv, TreeTypeOK
<1>. QED
  BY <1>1, <1>2, TreeStepStaysInCompany DEF WrittenByOwner

-----------------------------------------------------------------------------
(* Theorems *)

\* The inductive invariant: the tree, what handlers have checked, the answers.
THEOREM Invariance == Spec => []IInv
  BY InitEstablishesIInv, NextPreservesIInv, PTL DEF Spec

\* Rows and the handlers' variables keep their types.
THEOREM TypeCorrectness == Spec => []TreeTypeOK
  BY Invariance, PTL DEF IInv

\* Whatever is deleted while something is created under it: every node has its
\* parent, one level up, and no stock or count names a location that is gone.
THEOREM NoOrphans == Spec => []TreeIsWhole
  BY Invariance, PTL DEF IInv

\* However many creations and renamings find a name free at once, it is given
\* once under each parent.
THEOREM NamesAreUnique == Spec => []SiblingsDiffer
  BY Invariance, PTL DEF IInv

\* No list and no scanned code answers a company with a node of another.
THEOREM ReadsAreIsolated == Spec => []AnswersStayInCompany
  BY Invariance, PTL DEF IInv

\* No create, rename, toggle or delete changes the tree of another company than
\* its caller's, although it looked at its path link by link, before.
THEOREM WritesAreIsolated == Spec => WritesStayInCompany
  BY WritesComeFromOwners, Invariance, PTL DEF Spec, WritesStayInCompany, WrittenByOwner
=============================================================================
