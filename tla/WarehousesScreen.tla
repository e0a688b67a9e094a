-------------------------- MODULE WarehousesScreen --------------------------
(***************************************************************************)
(* The warehouses screen of the web client on top of WarehouseTree: a user *)
(* drills down from warehouses to locations while lists are loading, and   *)
(* edits at each level.  No request is cancelled by the next one, so an    *)
(* answer sets the list of its level whatever is selected by then.         *)
(***************************************************************************)
EXTENDS WarehouseTree

CONSTANTS
    ScreenSlots,    \* requests the screen has in flight at once
    UserCompany,
    Typed,          \* bound: the names the user types
    MaxRequests,    \* bound: the requests users cause, on this screen and elsewhere
    NoModal, Nothing

ASSUME ScreenHasSlots ==
    ScreenSlots \subseteq Slots /\ UserCompany \in Companies /\ Typed \subseteq Names
ASSUME ThereAreNames == Names # {}

VARIABLES
    selected,   \* selectedWarehouse, selectedZone, selectedAisle: a path
    shown,      \* by level, the ids in warehouses, zones, aisles, locations
    loading,    \* whLoading, subLoading
    saving,     \* whSaving, subSaving, subDeleting
    modal,      \* showWhModal, showSubModal, toggleTarget or deleteTarget
    todo,       \* what the subscriber of a request does with the answer
    requests    \* how many requests users have caused

screen == <<selected, shown, loading, saving, modal, todo, requests>>
all == <<server, screen>>

Modal(kind, op, level, id) == [kind |-> kind, op |-> op, level |-> level, id |-> id]
Todo(kind, level) == [kind |-> kind, level |-> level]

Dialogs == {"wh", "toggle", "sub", "delete"}
TodoType == [kind: Dialogs \cup {"load"}, level: Warehouse..Location]

ASSUME NothingIsNoTodo == Nothing \notin TodoType

\* currentView
View == Len(selected) + 1
Before(level) == SubSeq(selected, 1, level - 1)

ListFlag(level) == IF level = Warehouse THEN "wh" ELSE "sub"

\* What the user can click: a list that is not loading, under no backdrop.
Idle == modal = NoModal
Clickable(i) == Idle /\ ListFlag(View) \notin loading /\ i \in shown[View]

Send(r, c, t) ==
    /\ call' = [call EXCEPT ![r] = c]
    /\ Go(r, After(c, 0))
    /\ todo' = [todo EXCEPT ![r] = t]
    /\ result' = [result EXCEPT ![r] = {}]
    /\ seen' = [seen EXCEPT ![r] = FALSE]
    /\ KeepTree

Another == requests < MaxRequests /\ requests' = requests + 1

\* A request of the user's, not of a subscriber's.
Clicked(r) == r \in ScreenSlots /\ pc[r] = "idle" /\ Another

\* Where the body has no name.
AnyName == CHOOSE name \in Names : TRUE

\* The list of a level under the path that is selected.
Load(r, path) ==
    /\ Send(r, Call("list", UserCompany, path, AnyName),
            Todo("load", Len(path) + 1))
    /\ loading' = loading \cup {ListFlag(Len(path) + 1)}

-----------------------------------------------------------------------------
(* Navigation *)

Enter(r, level, i) ==
    /\ View = level /\ Clickable(i)
    /\ Clicked(r)
    /\ selected' = Append(selected, i)
    /\ Load(r, selected')
    /\ UNCHANGED <<shown, saving, modal>>

EnterZones(r, w) == Enter(r, Warehouse, w)
EnterAisles(r, z) == Enter(r, Zone, z)
EnterLocations(r, a) == Enter(r, Aisle, a)

\* goBack and the breadcrumb: the lists stay as they are.
GoToLevel(level) ==
    /\ Idle /\ level < View
    /\ selected' = Before(level)
    /\ UNCHANGED <<server, shown, loading, saving, modal, todo, requests>>

-----------------------------------------------------------------------------
(* Dialogs.  Each can be closed while its request is in flight. *)

Open(m) ==
    /\ Idle
    /\ modal' = m
    /\ UNCHANGED <<server, selected, shown, loading, saving, todo, requests>>

OpenCreateWh == View = Warehouse /\ Open(Modal("wh", "create", Warehouse, Nothing))
OpenEditWh(w) == View = Warehouse /\ Clickable(w) /\ Open(Modal("wh", "rename", Warehouse, w))
ConfirmToggle(w) ==
    View = Warehouse /\ Clickable(w) /\ Open(Modal("toggle", "toggle", Warehouse, w))
OpenCreate == View > Warehouse /\ Open(Modal("sub", "create", View, Nothing))
OpenEdit(i) == View > Warehouse /\ Clickable(i) /\ Open(Modal("sub", "rename", View, i))
ConfirmDelete(i) == View > Warehouse /\ Clickable(i) /\ Open(Modal("delete", "delete", View, i))

CloseModal ==
    /\ ~Idle
    /\ modal' = NoModal
    /\ UNCHANGED <<server, selected, shown, loading, saving, todo, requests>>

\* The button of the dialog is disabled while its flag is set.
Flag(kind) == IF kind \in {"wh", "toggle"} THEN "wh" ELSE kind

\* Mutation: a button that is not disabled.
AlwaysEnabled(kind) == TRUE

Enabled(kind) == Flag(kind) \notin saving

\* The path is what is selected when the dialog is submitted.
Submit(r, kind) ==
    /\ modal # NoModal /\ modal.kind = kind /\ Enabled(kind)
    /\ Clicked(r)
    /\ \E name \in IF kind \in {"wh", "sub"} THEN Typed ELSE {AnyName} :
         Send(r, Call(modal.op, UserCompany,
                      IF modal.op = "create" THEN Before(modal.level)
                      ELSE Append(Before(modal.level), modal.id), name),
              Todo(kind, modal.level))
    /\ saving' = saving \cup {Flag(kind)}
    /\ UNCHANGED <<selected, shown, loading, modal>>

SubmitWhForm(r) == Submit(r, "wh")
ExecuteToggle(r) == Submit(r, "toggle")
SubmitSubForm(r) == Submit(r, "sub")
ExecuteDelete(r) == Submit(r, "delete")

-----------------------------------------------------------------------------
(* Answers *)

Heard(r, kind) == r \in ScreenSlots /\ pc[r] \in Answers /\ todo[r].kind = kind

Done(r) == Finish(r) /\ todo' = [todo EXCEPT ![r] = Nothing]

HearList(r) ==
    /\ Heard(r, "load")
    /\ shown' = IF pc[r] = "ok" THEN [shown EXCEPT ![todo[r].level] = result[r]] ELSE shown
    /\ loading' = loading \ {ListFlag(todo[r].level)}
    /\ Done(r)
    /\ UNCHANGED <<selected, saving, modal, requests>>

\* The dialog of that kind that is open now is closed, whoever opened it.
Close(kind) == modal' = IF ~Idle /\ modal.kind = kind THEN NoModal ELSE modal

Settle(r, kind) ==
    /\ Heard(r, kind)
    /\ saving' = saving \ {Flag(kind)}
    /\ UNCHANGED <<selected, shown, requests>>

\* loadWarehouses, from any view.
HearWh(r) ==
    /\ Settle(r, "wh")
    /\ IF pc[r] = "ok" THEN Close("wh") /\ Load(r, <<>>)
       ELSE Done(r) /\ UNCHANGED <<modal, loading>>

HearToggle(r) ==
    /\ Settle(r, "toggle")
    /\ Close("toggle")
    /\ IF pc[r] = "ok" THEN Load(r, <<>>) ELSE Done(r) /\ UNCHANGED loading

ReloadCurrentLevel(r) ==
    IF selected = <<>> THEN Done(r) /\ UNCHANGED loading ELSE Load(r, selected)

HearSub(r) ==
    /\ Settle(r, "sub")
    /\ IF pc[r] = "ok" THEN Close("sub") /\ ReloadCurrentLevel(r)
       ELSE Done(r) /\ UNCHANGED <<modal, loading>>

HearDelete(r) ==
    /\ Settle(r, "delete")
    /\ IF pc[r] = "ok" THEN Close("delete") /\ ReloadCurrentLevel(r)
       ELSE Done(r) /\ UNCHANGED <<modal, loading>>

-----------------------------------------------------------------------------
\* ngOnInit has loaded the warehouses.
ScreenInit ==
    /\ Init
    /\ selected = <<>>
    /\ shown = [level \in Warehouse..Location |->
                  IF level = Warehouse THEN Children(UserCompany) ELSE {}]
    /\ loading = {} /\ saving = {}
    /\ modal = NoModal
    /\ todo = [r \in Slots |-> Nothing]
    /\ requests = 0

Click(r) ==
    \/ \E i \in Ids : EnterZones(r, i) \/ EnterAisles(r, i) \/ EnterLocations(r, i)
    \/ SubmitWhForm(r) \/ ExecuteToggle(r) \/ SubmitSubForm(r) \/ ExecuteDelete(r)

Hear(r) == HearList(r) \/ HearWh(r) \/ HearToggle(r) \/ HearSub(r) \/ HearDelete(r)

ScreenNext ==
    \/ \E r \in ScreenSlots : Click(r) \/ Hear(r)
    \/ \E level \in Warehouse..Aisle : GoToLevel(level)
    \/ \E i \in Ids : OpenEditWh(i) \/ ConfirmToggle(i) \/ OpenEdit(i) \/ ConfirmDelete(i)
    \/ OpenCreateWh \/ OpenCreate \/ CloseModal
    \/ \E r \in Slots \ ScreenSlots :
         \/ Arrive(r) /\ Another /\ UNCHANGED <<selected, shown, loading, saving, modal, todo>>
         \/ Finish(r) /\ UNCHANGED screen
    \/ \E r \in Slots : Handle(r) /\ UNCHANGED screen
    \/ \E i \in Ids : Hold(i) /\ UNCHANGED screen

ScreenSpec == ScreenInit /\ [][ScreenNext]_all

-----------------------------------------------------------------------------
(* Properties. *)

\* whSaving serves two dialogs that can be closed and opened again while a
\* request is in flight, and an answer to either clears it: still, a flag is
\* set exactly while one request of its dialogs is unanswered, so nothing is
\* submitted twice and no button stays disabled.
FlagsAreHonest ==
    \A flag \in {"wh", "sub", "delete"} :
        LET waiting == {r \in ScreenSlots : todo[r] # Nothing /\ todo[r].kind # "load"
                                              /\ Flag(todo[r].kind) = flag}
        IN  IF flag \in saving THEN \E r \in waiting : waiting = {r} ELSE waiting = {}

\* The list of one parent may be shown under another that was entered since,
\* and what is clicked there is sent with the other's path.  A write that is
\* accepted is nonetheless about a node of the parents on the screen.
WritesLandWhereShown ==
    \A r \in ScreenSlots :
        pc[r] = "ok" /\ call[r].op \in {"create", "rename", "delete"} =>
            \A k \in 2..Depth(r) :
                Exists(Path(r)[k]) => row[Path(r)[k]].parent = Path(r)[k - 1]
=============================================================================
