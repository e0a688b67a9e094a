------------------------------ MODULE CountScreen ------------------------------
(***************************************************************************)
(* The page of the inventory counts: a list, the detail of the selected    *)
(* count, the cascade of the line that is being added, and one saving flag *)
(* for every kind of write.                                                *)
(***************************************************************************)
EXTENDS Cascade

CONSTANTS Counts, CountWarehouse

ASSUME CountsHaveWarehouses == CountWarehouse \in [Counts -> Warehouses]

VARIABLES
    detail      \* selectedCount, detailLoading, saving, showCreate

\* act stands for start, complete and cancel, which differ in their route.
LineOps == {"addLine", "removeLine"}
Ops == LineOps \cup {"create", "act", "updateLine"}

NewDetail == [selected |-> None, loading |-> FALSE, saving |-> FALSE, showCreate |-> FALSE]

Write(op, c, l) == Call("write", [op |-> op, count |-> c, loc |-> l])
Send(op, c, l) == calls' = Append(calls, Write(op, c, l))

AskDetail(c, cs) == Append(cs, Call("detail", [count |-> c]))

\* The options of zones stay until the new ones come.
ResetForWarehouse(w, cs) ==
    /\ pick' = [NoPick EXCEPT !.wh = w]
    /\ options' = [options EXCEPT !.aisles = {}, !.locs = {}]
    /\ calls' = AskOptions("zones", pick', cs)

\* The list is hidden while it loads, the detail while it loads.
Listing == ~detail.showCreate /\ ~list.loading
Detailing == ~detail.showCreate /\ ~detail.loading /\ detail.selected # None

-----------------------------------------------------------------------------
(* What the user does *)

LoadDetail(c) ==
    /\ Listing
    /\ detail' = [detail EXCEPT !.loading = TRUE]
    /\ calls' = AskDetail(c, calls)
    /\ UNCHANGED <<list, pick, options>>

ToggleCreate ==
    /\ detail' = [detail EXCEPT !.showCreate = ~@]
    /\ UNCHANGED <<calls, list, pick, options>>

\* c will be the count it makes.
SubmitCreate(c) ==
    /\ detail.showCreate /\ ~detail.saving
    /\ Send("create", c, None)
    /\ detail' = [detail EXCEPT !.saving = TRUE]
    /\ UNCHANGED <<list, pick, options>>

ActOnSelected ==
    /\ Detailing /\ ~detail.saving
    /\ Send("act", detail.selected, None)
    /\ detail' = [detail EXCEPT !.saving = TRUE]
    /\ UNCHANGED <<list, pick, options>>

SubmitCountLine ==
    /\ Detailing /\ ~detail.saving
    /\ None \notin {pick.zone, pick.aisle, pick.loc}
    /\ Send("addLine", detail.selected, pick.loc)
    /\ detail' = [detail EXCEPT !.saving = TRUE]
    /\ UNCHANGED <<list, pick, options>>

\* Its button is not disabled by saving.
RemoveCountLine ==
    /\ Detailing
    /\ Send("removeLine", detail.selected, None)
    /\ detail' = [detail EXCEPT !.saving = TRUE]
    /\ UNCHANGED <<list, pick, options>>

UpdateCountLine ==
    /\ Detailing
    /\ Send("updateLine", detail.selected, None)
    /\ UNCHANGED <<list, pick, options, detail>>

PickLocation ==
    /\ Detailing
    /\ \/ \E z \in Zones \cup {None} : OnZoneChange(z)
       \/ \E a \in Aisles \cup {None} : OnAisleChange(a)
       \/ \E l \in Locations \cup {None} : OnLocationChange(l)
    /\ UNCHANGED <<list, detail>>

\* The code of l is scanned and looked up in the warehouse of the count that
\* was selected then.
ScanLocation(l) ==
    /\ Detailing /\ ~detail.saving
    /\ calls' = Append(calls, Call("lookup", [wh |-> CountWarehouse[detail.selected], loc |-> l]))
    /\ UNCHANGED <<list, pick, options, detail>>

-----------------------------------------------------------------------------
(* What it hears *)

\* A count that is no longer in the list is no longer selected.
HearCounts(k, ok, found) ==
    /\ HearList(k, ok)
    /\ detail' = IF ok /\ ~found THEN [detail EXCEPT !.selected = None] ELSE detail
    /\ UNCHANGED <<pick, options>>

HearDetail(k, ok) ==
    /\ Answered(k, "detail")
    /\ LET c == calls[k].about.count
       IN  IF ok
           THEN /\ detail' = [detail EXCEPT !.selected = c, !.loading = FALSE]
                /\ ResetForWarehouse(CountWarehouse[c], Rest(k))
           ELSE /\ detail' = [detail EXCEPT !.loading = FALSE]
                /\ calls' = Rest(k) /\ UNCHANGED <<pick, options>>
    /\ UNCHANGED list

\* applyScannedLocation, in the cascade of whatever count is selected now
HearLookup(k, ok) ==
    /\ Answered(k, "lookup")
    /\ LET l == calls[k].about.loc
           p == [wh |-> pick.wh, zone |-> Parent[Parent[l]], aisle |-> Parent[l], loc |-> l]
       IN  IF ok
           THEN /\ WarehouseOf(l) = calls[k].about.wh
                /\ pick' = [pick EXCEPT !.zone = p.zone, !.aisle = None, !.loc = None]
                /\ options' = [options EXCEPT !.locs = {}]
                /\ calls' = Append(Rest(k), Call("scannedAisles", p))
           ELSE calls' = Rest(k) /\ UNCHANGED <<pick, options>>
    /\ UNCHANGED <<list, detail>>

HearScannedAisles(k, ok) ==
    /\ Answered(k, "scannedAisles")
    /\ LET p == calls[k].about
       IN  IF ok
           THEN /\ Parent[p.zone] = p.wh
                /\ options' = [options EXCEPT !.aisles = Under(p.zone)]
                /\ pick' = [pick EXCEPT !.aisle = p.aisle]
                /\ calls' = Append(Rest(k), Call("scannedLocs", p))
           ELSE calls' = Rest(k) /\ UNCHANGED <<pick, options>>
    /\ UNCHANGED <<list, detail>>

HearScannedLocs(k, ok) ==
    /\ Answered(k, "scannedLocs")
    /\ options' = IF ok THEN [options EXCEPT !.locs = Under(calls[k].about.aisle)] ELSE options
    /\ pick' = IF ok THEN [pick EXCEPT !.loc = calls[k].about.loc] ELSE pick
    /\ calls' = Rest(k)
    /\ UNCHANGED <<list, detail>>

\* The API's check of a new line
Fits(w) == w.op = "addLine" => WarehouseOf(w.loc) = CountWarehouse[w.count]

\* An error may be the loss of an answer, so that a write is refused or not.
HearWrite(k, ops, ok) ==
    /\ Answered(k, "write") /\ calls[k].about.op \in ops
    /\ ok => Fits(calls[k].about)
    /\ UNCHANGED <<pick, options>>

HearCreate(k) ==
    /\ HearWrite(k, {"create"}, TRUE)
    /\ list' = Loading(list)
    /\ calls' = AskDetail(calls[k].about.count, Ask(list, Rest(k)))
    /\ detail' = [detail EXCEPT !.saving = FALSE, !.showCreate = FALSE, !.loading = TRUE]

\* The cascade is not reset.
AfterDetailAction(k) ==
    /\ HearWrite(k, {"act"}, TRUE)
    /\ Load(list, Rest(k))
    /\ detail' = [detail EXCEPT !.saving = FALSE, !.selected = calls[k].about.count]

\* updateLine leaves saving as it is.
HearLine(k) ==
    /\ HearWrite(k, LineOps \cup {"updateLine"}, TRUE)
    /\ calls' = AskDetail(calls[k].about.count, Rest(k))
    /\ detail' = [detail EXCEPT !.loading = TRUE,
                                !.saving = @ /\ calls[k].about.op = "updateLine"]
    /\ UNCHANGED list

NotSaving == detail' = [detail EXCEPT !.saving = FALSE]

HandleActionError(k) ==
    /\ HearWrite(k, Ops, FALSE)
    /\ NotSaving
    /\ calls' = Rest(k)
    /\ UNCHANGED list

-----------------------------------------------------------------------------
CountInit == detail = NewDetail

UseCounts ==
    \/ ToggleCreate \/ ActOnSelected \/ SubmitCountLine \/ RemoveCountLine
    \/ UpdateCountLine \/ PickLocation
    \/ \E c \in Counts : LoadDetail(c) \/ SubmitCreate(c)
    \/ \E l \in Locations : ScanLocation(l)

HearCountCalls ==
    \E k \in DOMAIN calls, ok \in BOOLEAN :
        \/ \E found \in BOOLEAN : HearCounts(k, ok, found)
        \/ HearOptions(k, ok) /\ UNCHANGED <<list, detail>>
        \/ HearDetail(k, ok) \/ HearLookup(k, ok)
        \/ HearScannedAisles(k, ok) \/ HearScannedLocs(k, ok)
        \/ HearCreate(k) \/ AfterDetailAction(k) \/ HearLine(k) \/ HandleActionError(k)

CountNext ==
    /\ page = "inventory"
    /\ (Room /\ UseCounts) \/ HearCountCalls
    /\ UNCHANGED page

-----------------------------------------------------------------------------
(* Properties. *)

\* One flag stands for every write of the page: while it disables the
\* buttons there is a write whose answer will enable them again.
SavingEnds ==
    detail.saving =>
        \E k \in DOMAIN calls : calls[k].kind = "write" /\ calls[k].about.op # "updateLine"
=============================================================================
