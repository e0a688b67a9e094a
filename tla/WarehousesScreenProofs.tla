------------------------ MODULE WarehousesScreenProofs ------------------------
(***************************************************************************)
(* What the warehouses screen and the server keep together, however many   *)
(* requests are in flight: the tree's own invariants, the flags of the     *)
(* dialogs, and where an accepted write lands.                             *)
(***************************************************************************)
EXTENDS WarehousesScreen, WarehouseTreeProofs

\* What a handler has found on its path stays true of its answer.
AcceptedHold == \A r \in Slots : pc[r] = "ok" => \A k \in 1..Depth(r) : Link(r, k)

\* A dialog is about the view that it was opened in, because no list can be
\* entered or left behind its backdrop.
DialogFits ==
    /\ modal.level = View /\ modal.kind \in Dialogs
    /\ \/ modal.op = "create"
       \/ modal.op = "rename" /\ modal.id \in Ids
       \/ modal.op = "toggle" /\ modal.id \in Ids /\ modal.level = Warehouse
       \/ modal.op = "delete" /\ modal.id \in Ids /\ modal.level > Warehouse

\* A subscriber waits for every request that is in flight, and only for those.
SubscribersWait ==
    /\ todo \in [Slots -> TodoType \cup {Nothing}]
    /\ \A r \in ScreenSlots : pc[r] = "idle" <=> todo[r] = Nothing

\* Where the user is, and the dialog over it.
PlaceOK ==
    /\ selected \in Seq(Ids) /\ Len(selected) \in 0..3
    /\ modal = NoModal \/ DialogFits

ScreenIInv == IInv /\ AcceptedHold /\ PlaceOK /\ SubscribersWait /\ FlagsAreHonest

-----------------------------------------------------------------------------
(* A request sent by the screen *)

LEMMA OneLevelDown == \A n \in 0..3 : n \in 0..4 /\ n + 1 \in 1..4 /\ (n + 1) - 1 = n
  OBVIOUS

LEMMA FourLevels == \A n \in 1..4 : n \in 0..4 /\ (n > 1 => n \in 2..4)
  OBVIOUS

LEMMA PathOfSequence ==
    ASSUME NEW p \in Seq(Ids), Len(p) \in 0..4
    PROVE  p \in Paths
<1>1. p \in [1..Len(p) -> Ids]
  BY LenProperties
<1>. QED
  BY <1>1 DEF Paths, Location

\* A slot that sends starts from the caller's company: nothing of the tree, and
\* of no other slot, changes.
LEMMA SendKeepsIInv ==
    ASSUME IInv, AcceptedHold, NEW r \in Slots, NEW c \in CallType, NEW t, Send(r, c, t)
    PROVE  IInv' /\ AcceptedHold' /\ pc'[r] # "idle" /\ pc'[r] # "ok"
             /\ \A s \in Slots \ {r} : pc'[s] = pc[s]
<1>1. /\ pc \in [Slots -> Statements] /\ seen \in [Slots -> BOOLEAN]
      /\ call \in [Slots -> CallType \cup {NoCall}] /\ result \in [Slots -> SUBSET Ids]
  BY DEF IInv, TreeTypeOK
<1>2. row' = row /\ issued' = issued /\ held' = held
  BY DEF Send, KeepTree
<1>3. /\ call'[r] = c /\ seen'[r] = FALSE /\ result'[r] = {} /\ pc'[r] = After(c, 0)
      /\ \A s \in Slots \ {r} : /\ pc'[s] = pc[s] /\ call'[s] = call[s]
                                /\ result'[s] = result[s]
  BY <1>1 DEF Send, Go
<1>4. Len(c.path) \in 0..4
  BY CallShape
<1>5. \/ Len(c.path) \in 1..4 /\ pc'[r] = "warehouse"
      \/ Len(c.path) = 0 /\ pc'[r] \in {"name", "run"}
  BY <1>3, <1>4, AfterShape DEF Steps
<1>6. pc'[r] \in Statements /\ pc'[r] # "idle" /\ pc'[r] \notin Answers
  BY <1>5 DEF Statements, Answers
<1>7. TreeTypeOK'
  <2>1. /\ pc' \in [Slots -> Statements] /\ seen' \in [Slots -> BOOLEAN]
        /\ call' \in [Slots -> CallType \cup {NoCall}] /\ result' \in [Slots -> SUBSET Ids]
    BY <1>1, <1>3, <1>6 DEF Send, Go
  <2>2. \A s \in Slots : pc'[s] # "idle" => call'[s] # NoCall
    BY <1>3, Markers DEF IInv, TreeTypeOK
  <2>. QED
    BY <1>2, <2>1, <2>2 DEF IInv, TreeTypeOK
<1>8. TreeIsWhole' /\ SiblingsDiffer' /\ IssuedCovers'
  BY <1>2 DEF IInv, TreeIsWhole, SiblingsDiffer, IssuedCovers, Exists
<1>9. \A s \in Slots \ {r} : /\ Depth(s)' = Depth(s)
                             /\ \A k : Link(s, k)' <=> Link(s, k)
  BY <1>2, <1>3 DEF Depth, Path, Link, Above, Exists
<1>10. ChecksHold'
  <2>1. Depth(r)' = Len(c.path)
    BY <1>3 DEF Depth, Path
  <2>2. /\ \A k \in 1..4 : pc'[r] = Steps[k] =>
             k \in 1..Depth(r)' /\ \A j \in 1..(k - 1) : Link(r, j)'
        /\ pc'[r] \in {"name", "run"} => \A j \in 1..Depth(r)' : Link(r, j)'
    <3>1. CASE Depth(r)' \in 1..4 /\ pc'[r] = "warehouse"
      BY <3>1 DEF Steps
    <3>2. CASE Depth(r)' = 0 /\ pc'[r] \in {"name", "run"}
      BY <3>2 DEF Steps
    <3>. QED
      BY <1>5, <2>1, <3>1, <3>2
  <2>. QED
    BY <1>3, <1>9, <2>2 DEF IInv, ChecksHold
<1>11. AcceptedHold'
  BY <1>3, <1>6, <1>9 DEF AcceptedHold, Answers
<1>12. AnswersHold'
  BY <1>2, <1>3, <1>6 DEF IInv, AnswersHold, Answers
<1>13. AnswersStayInCompany'
  <2>1. \A i : Owner(i)' = Owner(i) /\ (Exists(i)' <=> Exists(i))
    BY <1>2 DEF Owner, Exists
  <2>. QED
    BY <1>3, <1>6, <2>1 DEF IInv, AnswersStayInCompany, Answers
<1>. QED
  BY <1>3, <1>6, <1>7, <1>8, <1>10, <1>11, <1>12, <1>13 DEF IInv, Answers

\* A step of the tree keeps what accepted calls have found.
LEMMA TreeKeepsAccepted ==
    ASSUME IInv, AcceptedHold, [Next]_server
    PROVE  AcceptedHold'
<1>. SUFFICES ASSUME NEW s \in Slots, pc'[s] = "ok"
              PROVE  \A k \in 1..Depth(s)' : Link(s, k)'
  BY DEF AcceptedHold
<1>1. pc[s] \in {"run", "ok"} /\ call'[s] = call[s]
  BY AnswersMade DEF Read, FindAll, FindZones, FindAisles, FindLocations, FindLocationByCode,
                     List, AtRun
<1>2. \A k \in 1..Depth(s) : Link(s, k)
  BY <1>1 DEF AcceptedHold, IInv, ChecksHold
<1>3. Depth(s)' = Depth(s) /\ \A k \in 1..Depth(s) : Path(s)[k] \in Ids
  BY <1>1, CallShape DEF Depth, Path, IInv, TreeTypeOK
<1>4. NobodyMoves
  BY TreeStays
<1>. QED
  BY <1>1, <1>2, <1>3, <1>4, LinkStays

\* A handler that works neither begins nor ends.
LEMMA HandlersWork ==
    ASSUME IInv, NEW r \in Slots, Handle(r)
    PROVE  \A s \in Slots : pc'[s] = "idle" <=> pc[s] = "idle"
<1>1. pc \in [Slots -> Statements]
  BY DEF IInv, TreeTypeOK
<1>2. ASSUME NEW to, to # "idle", pc[r] # "idle", pc' = [pc EXCEPT ![r] = to]
      PROVE  \A s \in Slots : pc'[s] = "idle" <=> pc[s] = "idle"
  BY <1>1, <1>2
<1>3. ASSUME NEW k \in 1..4, LookUp(r, k)
      PROVE  \A s \in Slots : pc'[s] = "idle" <=> pc[s] = "idle"
  <2>1. pc'[r] # "idle"
    BY <1>3, LookUpShape DEF Steps
  <2>. QED
    BY <1>2, <1>3, <2>1, LookUpShape
<1>4. CASE FindConflict(r)
  BY <1>2, <1>4 DEF FindConflict, Go
<1>5. CASE Find(r)
  BY <1>3, <1>4, <1>5
  DEF Find, FindWarehouse, FindZoneInWh, FindAisleInZone, FindLocationInAisle,
      Warehouse, Zone, Aisle, Location
<1>6. CASE Write(r)
  <2>1. CASE pc[r] = "run" /\ Go(r, "refused")
    BY <1>2, <2>1 DEF Go
  <2>2. ASSUME NEW i \in Ids, TreeStep(r, i)
        PROVE  \A s \in Slots : pc'[s] = "idle" <=> pc[s] = "idle"
    BY <1>2, <2>2 DEF TreeStep, Inserts, Changes, Removes, Puts
  <2>. QED
    BY <1>6, <2>1, <2>2, Written
<1>7. CASE Read(r)
  <2>1. pc[r] = "run" /\ (Go(r, "ok") \/ Go(r, "refused"))
    BY <1>7 DEF Read, FindAll, FindZones, FindAisles, FindLocations, FindLocationByCode, List,
                Answer, AtRun
  <2>. QED
    BY <1>2, <2>1 DEF Go
<1>8. CASE Fail(r)
  BY <1>2, <1>8 DEF Fail, Go
<1>. QED
  BY <1>5, <1>6, <1>7, <1>8 DEF Handle

-----------------------------------------------------------------------------
(* The steps of the screen *)

\* What a step of the screen asks of the server: a request is sent with a path
\* that can be walked, from a slot that is free or answered, or an answer is
\* taken, or nothing.
Sends(r, t) == \E c \in CallType : Send(r, c, t)

LEMMA LoadsAreCalls ==
    ASSUME NEW r, NEW path \in Seq(Ids), Len(path) \in 0..3, Load(r, path)
    PROVE  Sends(r, Todo("load", Len(path) + 1)) /\ Todo("load", Len(path) + 1) \in TodoType
<1>. DEFINE c == Call("list", UserCompany, path, AnyName)
<1>1. Len(path) \in 0..3
  OBVIOUS
<1>2. path \in Paths
  BY <1>1, OneLevelDown, PathOfSequence
<1>3. AnyName \in Names
  BY ThereAreNames DEF AnyName
<1>4. c \in CallType
  BY <1>1, <1>2, <1>3, ScreenHasSlots DEF CallType, Call, Ops, Depths
<1>5. Todo("load", Len(path) + 1) \in TodoType
  BY <1>1, OneLevelDown DEF Todo, TodoType, Warehouse, Location
<1>. QED
  BY <1>4, <1>5 DEF Load, Sends

LEMMA SubmitsAreCalls ==
    ASSUME PlaceOK, NEW r, NEW kind \in Dialogs, Submit(r, kind)
    PROVE  Sends(r, Todo(kind, modal.level)) /\ Todo(kind, modal.level) \in TodoType
<1>1. /\ modal # NoModal /\ modal.kind = kind /\ DialogFits
      /\ selected \in Seq(Ids) /\ Len(selected) \in 0..3 /\ modal.level = Len(selected) + 1
  BY DEF Submit, PlaceOK, DialogFits, View
<1>2. Before(modal.level) = selected
  BY <1>1, OneLevelDown, SubSeqFull DEF Before
<1>. DEFINE path == IF modal.op = "create" THEN Before(modal.level)
                    ELSE Append(Before(modal.level), modal.id)
<1>3. PICK name \in Names : Send(r, Call(modal.op, UserCompany, path, name), Todo(kind, modal.level))
  <2>1. AnyName \in Names
    BY ThereAreNames DEF AnyName
  <2>. QED
    BY <2>1, ScreenHasSlots DEF Submit
<1>. DEFINE c == Call(modal.op, UserCompany, path, name)
<1>4. Todo(kind, modal.level) \in TodoType
  BY <1>1, OneLevelDown DEF Todo, TodoType, Warehouse, Location
<1>5. CASE modal.op = "create"
  <2>1. path = selected /\ selected \in Paths
    BY <1>1, <1>2, <1>5, OneLevelDown, PathOfSequence
  <2>2. Len(path) \in Depths[modal.op]
    BY <1>1, <1>5, <2>1 DEF Depths
  <2>3. c \in CallType
    BY <1>3, <1>5, <2>1, <2>2, ScreenHasSlots DEF CallType, Call, Ops
  <2>. QED
    BY <1>3, <1>4, <2>3 DEF Sends
<1>6. CASE modal.op # "create"
  <2>1. modal.id \in Ids /\ modal.op \in {"rename", "toggle", "delete"}
    BY <1>1, <1>6 DEF DialogFits
  <2>2. path \in Seq(Ids) /\ Len(path) = modal.level
    BY <1>1, <1>2, <1>6, <2>1, AppendProperties
  <2>3. modal.level \in 1..4
    BY <1>1, OneLevelDown
  <2>4. path \in Paths
    BY <2>2, <2>3, FourLevels, PathOfSequence
  <2>5. Len(path) \in Depths[modal.op]
    BY <1>1, <2>1, <2>2, <2>3, FourLevels DEF DialogFits, Depths, Warehouse
  <2>6. c \in CallType
    BY <1>3, <2>1, <2>4, <2>5, ScreenHasSlots DEF CallType, Call, Ops
  <2>. QED
    BY <1>3, <1>4, <2>6 DEF Sends
<1>. QED
  BY <1>5, <1>6

LEMMA PlacesStay ==
    ASSUME PlaceOK, ScreenNext
    PROVE  PlaceOK'
<1>1. CASE selected' = selected /\ modal' \in {modal, NoModal}
  BY <1>1 DEF PlaceOK, DialogFits, View
<1>2. ASSUME NEW r, NEW level \in 1..3, NEW i \in Ids, Enter(r, level, i)
      PROVE  PlaceOK'
  <2>1. modal' = NoModal /\ Len(selected) + 1 \in 1..3 /\ selected' = Append(selected, i)
    BY <1>2 DEF Enter, Clickable, Idle, View
  <2>2. selected' \in Seq(Ids) /\ Len(selected') = Len(selected) + 1
    BY <2>1, AppendProperties DEF PlaceOK
  <2>3. \A n \in 1..3 : n \in 0..3
    OBVIOUS
  <2>. QED
    BY <2>1, <2>2, <2>3 DEF PlaceOK
<1>3. ASSUME NEW level \in 1..3, GoToLevel(level)
      PROVE  PlaceOK'
  <2>1. /\ modal' = NoModal /\ level - 1 \in 0..Len(selected) /\ level - 1 \in 0..3
        /\ selected' = SubSeq(selected, 1, level - 1)
    BY <1>3 DEF GoToLevel, Idle, View, Before, PlaceOK
  <2>2. \A i \in 1..(level - 1) : selected[i] \in Ids
    BY <2>1, ElementOfSeq DEF PlaceOK
  <2>3. selected' \in Seq(Ids) /\ Len(selected') = level - 1
    BY <2>1, <2>2, SubSeqProperties
  <2>. QED
    BY <2>1, <2>3 DEF PlaceOK
<1>4. ASSUME selected' = selected,
             modal'.level = View, modal'.kind \in Dialogs,
             \/ modal'.op = "create"
             \/ modal'.op = "rename" /\ modal'.id \in Ids
             \/ modal'.op = "toggle" /\ modal'.id \in Ids /\ modal'.level = Warehouse
             \/ modal'.op = "delete" /\ modal'.id \in Ids /\ modal'.level > Warehouse
      PROVE  PlaceOK'
  BY <1>4 DEF PlaceOK, DialogFits, View
<1>5. CASE OpenCreateWh \/ OpenCreate
  BY <1>4, <1>5 DEF OpenCreateWh, OpenCreate, Open, Modal, Dialogs
<1>6. ASSUME NEW i \in Ids, OpenEditWh(i) \/ ConfirmToggle(i) \/ OpenEdit(i) \/ ConfirmDelete(i)
      PROVE  PlaceOK'
  BY <1>4, <1>6 DEF OpenEditWh, ConfirmToggle, OpenEdit, ConfirmDelete, Open, Modal, Dialogs
<1>7. ASSUME NEW r, Hear(r)
      PROVE  PlaceOK'
  BY <1>1, <1>7 DEF Hear, HearList, HearWh, HearToggle, HearSub, HearDelete, Settle, Close
<1>8. ASSUME NEW r, NEW kind, Submit(r, kind)
      PROVE  PlaceOK'
  BY <1>1, <1>8 DEF Submit
<1>9. CASE CloseModal \/ UNCHANGED <<selected, modal>> \/ UNCHANGED screen
  BY <1>1, <1>9 DEF CloseModal, screen
<1>. QED
  BY <1>2, <1>3, <1>5, <1>6, <1>7, <1>8, <1>9
  DEF ScreenNext, Click, EnterZones, EnterAisles, EnterLocations, SubmitWhForm, ExecuteToggle,
      SubmitSubForm, ExecuteDelete, Warehouse, Zone, Aisle

-----------------------------------------------------------------------------
(* The steps of the screen by what they do to a subscriber and its flag *)

\* A slot of the screen takes an answer or sends a request, or both at once,
\* and its subscriber is replaced.
Replaces(r, t) ==
    /\ r \in ScreenSlots /\ todo' = [todo EXCEPT ![r] = t]
    /\ \/ t = Nothing /\ Finish(r)
       \/ t \in TodoType /\ Sends(r, t)

Asks(r, t) ==
    /\ t \in TodoType /\ t.kind \in Dialogs /\ Replaces(r, t) /\ pc[r] = "idle"
    /\ Flag(t.kind) \notin saving /\ saving' = saving \cup {Flag(t.kind)}

LoadsOrEnds(r, t) == Replaces(r, t) /\ (t # Nothing => t.kind = "load")

Settles(r, t) ==
    /\ LoadsOrEnds(r, t) /\ pc[r] # "idle" /\ todo[r].kind \in Dialogs
    /\ saving' = saving \ {Flag(todo[r].kind)}

Fetches(r, t) ==
    /\ LoadsOrEnds(r, t) /\ (pc[r] # "idle" => todo[r].kind = "load")
    /\ saving' = saving

Works ==
    /\ [Next]_server /\ UNCHANGED <<saving, todo>>
    /\ \A r \in ScreenSlots : pc'[r] = "idle" <=> pc[r] = "idle"

LEMMA LoadsReplace ==
    ASSUME NEW r \in ScreenSlots, NEW path \in Seq(Ids), Len(path) \in 0..3, Load(r, path)
    PROVE  \E t \in TodoType : LoadsOrEnds(r, t)
<1>. DEFINE t == Todo("load", Len(path) + 1)
<1>1. t \in TodoType /\ t.kind = "load" /\ Sends(r, t)
  BY LoadsAreCalls DEF Todo
<1>2. todo' = [todo EXCEPT ![r] = t]
  BY <1>1 DEF Sends, Send
<1>. QED
  BY <1>1, <1>2 DEF LoadsOrEnds, Replaces

LEMMA EndsReplace ==
    ASSUME NEW r \in ScreenSlots, Done(r)
    PROVE  LoadsOrEnds(r, Nothing)
  BY DEF Done, LoadsOrEnds, Replaces

\* An answer that is heard leaves its slot free, or loading a list.
LEMMA HearingReplaces ==
    ASSUME PlaceOK, NEW r \in ScreenSlots, Hear(r)
    PROVE  \E t \in TodoType \cup {Nothing} : LoadsOrEnds(r, t)
<1>1. <<>> \in Seq(Ids) /\ Len(<<>>) \in 0..3
  BY EmptySeq
<1>2. CASE Done(r)
  BY <1>2, EndsReplace
<1>3. CASE Load(r, <<>>)
  BY <1>1, <1>3, LoadsReplace
<1>4. CASE Load(r, selected)
  BY <1>4, LoadsReplace DEF PlaceOK
<1>. QED
  BY <1>2, <1>3, <1>4
  DEF Hear, HearList, HearWh, HearToggle, HearSub, HearDelete, ReloadCurrentLevel

LEMMA ScreenSteps ==
    ASSUME IInv, PlaceOK, ScreenNext
    PROVE  \/ Works
           \/ \E r \in ScreenSlots, t \in TodoType \cup {Nothing} :
                  Asks(r, t) \/ Settles(r, t) \/ Fetches(r, t)
<1>1. ASSUME NEW r \in ScreenSlots, NEW kind \in Dialogs, Submit(r, kind)
      PROVE  \E t \in TodoType : Asks(r, t)
  <2>. DEFINE t == Todo(kind, modal.level)
  <2>1. t \in TodoType /\ t.kind = kind /\ Sends(r, t)
    BY <1>1, SubmitsAreCalls DEF Todo
  <2>2. todo' = [todo EXCEPT ![r] = t]
    BY <2>1 DEF Sends, Send
  <2>3. pc[r] = "idle" /\ Flag(kind) \notin saving /\ saving' = saving \cup {Flag(kind)}
    BY <1>1 DEF Submit, Enabled, Clicked
  <2>. QED
    BY <2>1, <2>2, <2>3 DEF Asks, Replaces
<1>2. ASSUME NEW r \in ScreenSlots, NEW level \in 1..3, NEW i \in Ids, Enter(r, level, i)
      PROVE  \E t \in TodoType : Fetches(r, t)
  <2>. DEFINE p == Append(selected, i)
  <2>1. Len(selected) + 1 \in 1..3 /\ Load(r, p)
    BY <1>2 DEF Enter, View
  <2>2. p \in Seq(Ids) /\ Len(p) = Len(selected) + 1
    BY AppendProperties DEF PlaceOK
  <2>3. \A n \in 1..3 : n \in 0..3
    OBVIOUS
  <2>4. Len(p) \in 0..3
    BY <2>1, <2>2, <2>3
  <2>5. \E t \in TodoType : LoadsOrEnds(r, t)
    BY <2>1, <2>2, <2>4, LoadsReplace
  <2>6. pc[r] = "idle" /\ saving' = saving
    BY <1>2 DEF Enter, Clicked
  <2>. QED
    BY <2>5, <2>6 DEF Fetches
<1>3. ASSUME NEW r \in ScreenSlots, Hear(r)
      PROVE  \E t \in TodoType \cup {Nothing} : Settles(r, t) \/ Fetches(r, t)
  <2>1. pc[r] # "idle"
    BY <1>3 DEF Hear, HearList, HearWh, HearToggle, HearSub, HearDelete, Settle, Heard, Answers
  <2>2. \/ todo[r].kind = "load" /\ saving' = saving
        \/ todo[r].kind \in Dialogs /\ saving' = saving \ {Flag(todo[r].kind)}
    BY <1>3 DEF Hear, HearList, HearWh, HearToggle, HearSub, HearDelete, Settle, Heard, Dialogs
  <2>. QED
    BY <1>3, <2>1, <2>2, HearingReplaces DEF Settles, Fetches
<1>4. ASSUME NEW r \in Slots, Handle(r), UNCHANGED screen
      PROVE  Works
  <2>1. Next /\ UNCHANGED <<saving, todo>>
    BY <1>4 DEF Next, screen
  <2>. QED
    BY <1>4, <2>1, HandlersWork, ScreenHasSlots DEF Works
<1>5. ASSUME NEW r \in Slots \ ScreenSlots, Arrive(r) \/ Finish(r), UNCHANGED <<saving, todo>>
      PROVE  Works
  <2>1. Next
    BY <1>5 DEF Next
  <2>2. \A s \in ScreenSlots : pc'[s] = pc[s]
    BY <1>5, ScreenHasSlots DEF Arrive, Begin, Finish, Go, IInv, TreeTypeOK
  <2>. QED
    BY <1>5, <2>1, <2>2 DEF Works
<1>6. ASSUME NEW i \in Ids, Hold(i), UNCHANGED screen
      PROVE  Works
  BY <1>6 DEF Works, Next, Hold, screen
<1>7. ASSUME UNCHANGED <<server, saving, todo>>
      PROVE  Works
  BY <1>7 DEF Works, server
<1>8. CASE \E i \in Ids : OpenEditWh(i) \/ ConfirmToggle(i) \/ OpenEdit(i) \/ ConfirmDelete(i)
  BY <1>7, <1>8 DEF OpenEditWh, ConfirmToggle, OpenEdit, ConfirmDelete, Open
<1>9. CASE OpenCreateWh \/ OpenCreate \/ CloseModal \/ \E level \in Warehouse..Aisle : GoToLevel(level)
  BY <1>7, <1>9 DEF OpenCreateWh, OpenCreate, Open, CloseModal, GoToLevel
<1>. QED
  BY <1>1, <1>2, <1>3, <1>4, <1>5, <1>6, <1>8, <1>9
  DEF ScreenNext, Click, EnterZones, EnterAisles, EnterLocations, SubmitWhForm, ExecuteToggle,
      SubmitSubForm, ExecuteDelete, Warehouse, Zone, Aisle, Dialogs, screen

-----------------------------------------------------------------------------
(* Every step *)

LEMMA ServerStays ==
    ASSUME IInv, AcceptedHold, PlaceOK, ScreenNext
    PROVE  IInv' /\ AcceptedHold'
<1>1. CASE [Next]_server
  BY <1>1, NextPreservesIInv, TreeKeepsAccepted
<1>2. ASSUME NEW r \in ScreenSlots, NEW t, Replaces(r, t)
      PROVE  IInv' /\ AcceptedHold'
  <2>1. r \in Slots
    BY ScreenHasSlots
  <2>2. CASE Finish(r)
    BY <1>1, <2>1, <2>2 DEF Next
  <2>3. CASE Sends(r, t)
    BY <2>1, <2>3, SendKeepsIInv DEF Sends
  <2>. QED
    BY <1>2, <2>2, <2>3 DEF Replaces
<1>. QED
  BY <1>1, <1>2, ScreenSteps DEF Works, Asks, Settles, Fetches, LoadsOrEnds

LEMMA SubscribersStay ==
    ASSUME IInv, AcceptedHold, PlaceOK, SubscribersWait, ScreenNext
    PROVE  SubscribersWait'
<1>1. CASE Works
  BY <1>1 DEF Works, SubscribersWait
<1>2. ASSUME NEW r \in ScreenSlots, NEW t \in TodoType \cup {Nothing}, Replaces(r, t)
      PROVE  SubscribersWait'
  <2>1. r \in Slots /\ ScreenSlots \subseteq Slots
    BY ScreenHasSlots
  <2>2. /\ todo' \in [Slots -> TodoType \cup {Nothing}]
        /\ todo'[r] = t /\ \A s \in Slots \ {r} : todo'[s] = todo[s]
    BY <1>2, <2>1 DEF Replaces, SubscribersWait
  <2>3. /\ pc'[r] = "idle" <=> t = Nothing
        /\ \A s \in Slots \ {r} : pc'[s] = pc[s]
    <3>1. CASE t = Nothing /\ Finish(r)
      BY <2>1, <3>1 DEF Finish, Go, IInv, TreeTypeOK
    <3>2. CASE t \in TodoType /\ Sends(r, t)
      BY <2>1, <3>2, NothingIsNoTodo, SendKeepsIInv DEF Sends
    <3>. QED
      BY <1>2, <3>1, <3>2 DEF Replaces
  <2>. QED
    BY <2>1, <2>2, <2>3 DEF SubscribersWait
<1>. QED
  BY <1>1, <1>2, ScreenSteps DEF Asks, Settles, Fetches, LoadsOrEnds

\* A slot waits with a flag set.
WaitsFor(r, flag) ==
    todo[r] # Nothing /\ todo[r].kind # "load" /\ Flag(todo[r].kind) = flag

\* FlagsAreHonest, slot by slot: a flag is set when a slot waits with it, and
\* then no other slot does.
HonestFlags ==
    \A flag \in {"wh", "sub", "delete"} :
        /\ flag \in saving => \E r \in ScreenSlots : WaitsFor(r, flag)
        /\ \A r \in ScreenSlots : WaitsFor(r, flag) =>
               flag \in saving /\ \A s \in ScreenSlots : WaitsFor(s, flag) => s = r

LEMMA HonestyIsHonest == FlagsAreHonest <=> HonestFlags
<1>. DEFINE waiting(flag) == {r \in ScreenSlots : WaitsFor(r, flag)}
<1>1. FlagsAreHonest <=>
        \A flag \in {"wh", "sub", "delete"} :
            IF flag \in saving THEN \E r \in waiting(flag) : waiting(flag) = {r}
            ELSE waiting(flag) = {}
  BY DEF FlagsAreHonest, WaitsFor
<1>2. ASSUME NEW flag
      PROVE  (IF flag \in saving THEN \E r \in waiting(flag) : waiting(flag) = {r}
              ELSE waiting(flag) = {})
             <=> /\ flag \in saving => \E r \in ScreenSlots : WaitsFor(r, flag)
                 /\ \A r \in ScreenSlots : WaitsFor(r, flag) =>
                        flag \in saving /\ \A s \in ScreenSlots : WaitsFor(s, flag) => s = r
  OBVIOUS
<1>. QED
  BY <1>1, <1>2 DEF HonestFlags

LEMMA FlagsStay ==
    ASSUME IInv, PlaceOK, SubscribersWait, FlagsAreHonest, ScreenNext
    PROVE  FlagsAreHonest'
<1>1. HonestFlags
  BY HonestyIsHonest
<1>. SUFFICES HonestFlags'
  BY HonestyIsHonest, PTL
<1>2. CASE Works
  BY <1>1, <1>2 DEF Works, HonestFlags, WaitsFor
<1>3. ASSUME NEW r \in ScreenSlots, NEW t, Replaces(r, t)
      PROVE  /\ todo'[r] = t
             /\ \A s \in ScreenSlots \ {r} : \A flag : WaitsFor(s, flag)' <=> WaitsFor(s, flag)
  BY <1>3, ScreenHasSlots DEF Replaces, SubscribersWait, WaitsFor
<1>4. \A kind \in Dialogs : kind # "load" /\ Flag(kind) \in {"wh", "sub", "delete"}
  BY DEF Dialogs, Flag
<1>5. ASSUME NEW r \in ScreenSlots, NEW t \in TodoType, Asks(r, t)
      PROVE  HonestFlags'
  <2>. DEFINE f == Flag(t.kind)
  <2>1. todo[r] = Nothing /\ todo'[r] = t /\ t # Nothing /\ t.kind # "load"
    BY <1>3, <1>4, <1>5, NothingIsNoTodo DEF Asks, SubscribersWait
  <2>2. \A flag : ~WaitsFor(r, flag) /\ (WaitsFor(r, flag)' <=> flag = f)
    BY <2>1 DEF WaitsFor
  <2>3. f \in {"wh", "sub", "delete"} /\ f \notin saving /\ saving' = saving \cup {f}
    BY <1>4, <1>5 DEF Asks
  <2>4. \A s \in ScreenSlots \ {r} : \A flag : WaitsFor(s, flag)' <=> WaitsFor(s, flag)
    BY <1>3, <1>5 DEF Asks
  <2>. QED
    BY <1>1, <2>2, <2>3, <2>4 DEF HonestFlags
<1>6. ASSUME NEW r \in ScreenSlots, NEW t \in TodoType \cup {Nothing}, LoadsOrEnds(r, t)
      PROVE  /\ \A flag : ~WaitsFor(r, flag)'
             /\ \A s \in ScreenSlots \ {r} : \A flag : WaitsFor(s, flag)' <=> WaitsFor(s, flag)
  BY <1>3, <1>6 DEF LoadsOrEnds, WaitsFor
<1>7. ASSUME NEW r \in ScreenSlots, NEW t \in TodoType \cup {Nothing}, Settles(r, t)
      PROVE  HonestFlags'
  <2>. DEFINE f == Flag(todo[r].kind)
  <2>1. \A flag : WaitsFor(r, flag) <=> flag = f
    BY <1>4, <1>7 DEF Settles, SubscribersWait, WaitsFor
  <2>2. f \in {"wh", "sub", "delete"} /\ saving' = saving \ {f}
    BY <1>4, <1>7 DEF Settles
  <2>3. /\ \A flag : ~WaitsFor(r, flag)'
        /\ \A s \in ScreenSlots \ {r} : \A flag : WaitsFor(s, flag)' <=> WaitsFor(s, flag)
    BY <1>6, <1>7 DEF Settles
  <2>. QED
    BY <1>1, <2>1, <2>2, <2>3 DEF HonestFlags
<1>8. ASSUME NEW r \in ScreenSlots, NEW t \in TodoType \cup {Nothing}, Fetches(r, t)
      PROVE  HonestFlags'
  <2>1. \A flag : ~WaitsFor(r, flag)
    BY <1>8 DEF Fetches, SubscribersWait, WaitsFor
  <2>2. /\ \A flag : ~WaitsFor(r, flag)'
        /\ \A s \in ScreenSlots \ {r} : \A flag : WaitsFor(s, flag)' <=> WaitsFor(s, flag)
    BY <1>6, <1>8 DEF Fetches
  <2>3. saving' = saving
    BY <1>8 DEF Fetches
  <2>. QED
    BY <1>1, <2>1, <2>2, <2>3 DEF HonestFlags
<1>9. ASSUME NEW r \in ScreenSlots, NEW t \in TodoType \cup {Nothing}, Asks(r, t)
      PROVE  HonestFlags'
  BY <1>5, <1>9 DEF Asks
<1>. QED
  BY <1>2, <1>7, <1>8, <1>9, ScreenSteps

LEMMA ScreenInitEstablishes == ScreenInit => ScreenIInv
<1>. SUFFICES ASSUME ScreenInit PROVE ScreenIInv
  OBVIOUS
<1>1. IInv
  BY InitEstablishesIInv DEF ScreenInit
<1>2. AcceptedHold
  BY DEF ScreenInit, Init, AcceptedHold
<1>3. PlaceOK
  BY EmptySeq DEF ScreenInit, PlaceOK
<1>4. SubscribersWait
  BY ScreenHasSlots DEF ScreenInit, Init, SubscribersWait
<1>5. FlagsAreHonest
  BY ScreenHasSlots DEF ScreenInit, FlagsAreHonest
<1>. QED
  BY <1>1, <1>2, <1>3, <1>4, <1>5 DEF ScreenIInv

LEMMA ScreenNextPreserves == ScreenIInv /\ [ScreenNext]_all => ScreenIInv'
<1>1. ASSUME ScreenIInv, ScreenNext
      PROVE  ScreenIInv'
  BY <1>1, ServerStays, PlacesStay, SubscribersStay, FlagsStay DEF ScreenIInv
<1>2. ASSUME ScreenIInv, UNCHANGED all
      PROVE  ScreenIInv'
  <2>1. UNCHANGED server /\ UNCHANGED <<selected, modal, saving, todo>>
    BY <1>2 DEF all, screen
  <2>2. IInv' /\ AcceptedHold'
    BY <1>2, <2>1, NextPreservesIInv, TreeKeepsAccepted DEF ScreenIInv
  <2>3. PlaceOK'
    BY <1>2, <2>1 DEF ScreenIInv, PlaceOK, DialogFits, View
  <2>4. SubscribersWait'
    BY <1>2, <2>1 DEF ScreenIInv, SubscribersWait, server
  <2>5. FlagsAreHonest'
    BY <1>2, <2>1 DEF ScreenIInv, FlagsAreHonest
  <2>. QED
    BY <2>2, <2>3, <2>4, <2>5 DEF ScreenIInv
<1>. QED
  BY <1>1, <1>2

-----------------------------------------------------------------------------
(* Theorems *)

\* The inductive invariant of the screen and the server together.
THEOREM ScreenInvariance == ScreenSpec => []ScreenIInv
  BY ScreenInitEstablishes, ScreenNextPreserves, PTL DEF ScreenSpec

\* However often dialogs are closed and opened again while requests are in
\* flight, a flag is set exactly while one request of its dialogs is unanswered.
THEOREM FlagsStayHonest == ScreenSpec => []FlagsAreHonest
  BY ScreenInvariance, PTL DEF ScreenIInv

\* A create, rename or delete that is accepted is about a node of the parents
\* on the screen, although the list may be of another parent than the path.
THEOREM AcceptedWritesLand == ScreenSpec => []WritesLandWhereShown
<1>1. ScreenIInv => WritesLandWhereShown
  <2>. SUFFICES ASSUME AcceptedHold, NEW r \in ScreenSlots, pc[r] = "ok",
                       NEW k \in 2..Depth(r), Exists(Path(r)[k])
                PROVE  row[Path(r)[k]].parent = Path(r)[k - 1]
    BY DEF ScreenIInv, WritesLandWhereShown
  <2>. QED
    BY ScreenHasSlots DEF AcceptedHold, Link, Above
<1>. QED
  BY <1>1, ScreenInvariance, PTL

\* The screen keeps the tree whole, names unique among siblings and answers in
\* their company, whatever it sends while lists are loading.
THEOREM ScreenKeepsTree ==
    ScreenSpec => [](TreeIsWhole /\ SiblingsDiffer /\ AnswersStayInCompany)
  BY ScreenInvariance, PTL DEF ScreenIInv, IInv

\* And nothing that is sent from it changes the tree of another company.
THEOREM ScreenStaysInCompany == ScreenSpec => WritesStayInCompany
<1>1. ASSUME ScreenIInv, ScreenNext
      PROVE  \A i \in Ids : row'[i] # row[i] => WrittenByOwner(i)
  <2>1. CASE Works
    BY <1>1, <2>1, WritesComeFromOwners DEF Works, ScreenIInv, server
  <2>2. ASSUME NEW r, NEW t, Replaces(r, t)
        PROVE  row' = row
    BY <2>2 DEF Replaces, Sends, Send, Finish, KeepTree
  <2>. QED
    BY <1>1, <2>1, <2>2, ScreenSteps DEF ScreenIInv, Asks, Settles, Fetches, LoadsOrEnds
<1>2. UNCHANGED all => UNCHANGED server
  BY DEF all
<1>. QED
  BY <1>1, <1>2, ScreenInvariance, PTL DEF ScreenSpec, WritesStayInCompany, WrittenByOwner
=============================================================================
