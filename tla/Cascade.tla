-------------------------------- MODULE Cascade --------------------------------
(***************************************************************************)
(* The selects of zone, aisle and location under a warehouse, as three     *)
(* forms of the client have them.  Each choice clears what depends on it   *)
(* and asks for the options of the next; the answers may come after the    *)
(* choice they belong to has been changed.                                 *)
(***************************************************************************)
EXTENDS PageLists

CONSTANTS Warehouses, Zones, Aisles, Locations, Parent

ASSUME PlacesFormATree ==
    /\ None \notin Warehouses \cup Zones \cup Aisles
    /\ Parent \in [Zones \cup Aisles \cup Locations -> Warehouses \cup Zones \cup Aisles]

VARIABLES
    pick,       \* selectedWarehouseId, selectedZoneId, ...
    options     \* zones, aisles, locations

NoPick == [wh |-> None, zone |-> None, aisle |-> None, loc |-> None]
NoOptions == [zones |-> {}, aisles |-> {}, locs |-> {}]

Under(n) == {m \in DOMAIN Parent : Parent[m] = n}
WarehouseOf(l) == Parent[Parent[Parent[l]]]

\* getZones, getAisles, getLocations with the ids of the form at this moment
AskOptions(kind, p, cs) == Append(cs, Call(kind, p))

OnWarehouse(w, cs) ==
    /\ pick' = [NoPick EXCEPT !.wh = w]
    /\ options' = NoOptions
    /\ calls' = IF w = None THEN cs ELSE AskOptions("zones", pick', cs)

\* Mutation: the options under the zone before stay.
OnZoneKept(z) ==
    /\ z \in (options.zones \cup {None}) \ {pick.zone}
    /\ pick' = [pick EXCEPT !.zone = z, !.aisle = None, !.loc = None]
    /\ calls' = IF z = None THEN calls ELSE AskOptions("aisles", pick', calls)
    /\ UNCHANGED options

OnZoneChange(z) ==
    /\ z \in (options.zones \cup {None}) \ {pick.zone}
    /\ pick' = [pick EXCEPT !.zone = z, !.aisle = None, !.loc = None]
    /\ options' = [options EXCEPT !.aisles = {}, !.locs = {}]
    /\ calls' = IF z = None THEN calls ELSE AskOptions("aisles", pick', calls)

OnAisleChange(a) ==
    /\ a \in (options.aisles \cup {None}) \ {pick.aisle}
    /\ pick' = [pick EXCEPT !.aisle = a, !.loc = None]
    /\ options' = [options EXCEPT !.locs = {}]
    /\ calls' = IF a = None THEN calls ELSE AskOptions("locs", pick', calls)

OnLocationChange(l) ==
    /\ l \in (options.locs \cup {None}) \ {pick.loc}
    /\ pick' = [pick EXCEPT !.loc = l]
    /\ UNCHANGED <<options, calls>>

\* The API lists what is under a path that exists and refuses any other.
Exists(p) ==
    /\ p.zone # None => Parent[p.zone] = p.wh
    /\ p.aisle # None => p.zone # None /\ Parent[p.aisle] = p.zone

Listed(kind, p) ==
    CASE kind = "zones" -> [options EXCEPT !.zones = Under(p.wh)]
      [] kind = "aisles" -> [options EXCEPT !.aisles = Under(p.zone)]
      [] kind = "locs" -> [options EXCEPT !.locs = Under(p.aisle)]

\* An error is not handled: the options stay as they are.
HearOptions(k, ok) ==
    /\ k \in DOMAIN calls /\ calls[k].kind \in {"zones", "aisles", "locs"}
    /\ ok => Exists(calls[k].about)
    /\ options' = IF ok THEN Listed(calls[k].kind, calls[k].about) ELSE options
    /\ calls' = Rest(k)
    /\ UNCHANGED pick
=============================================================================
