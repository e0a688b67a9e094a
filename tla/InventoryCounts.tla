--------------------------- MODULE InventoryCounts ---------------------------
(***************************************************************************)
(* InventoryService: every handler reads the status of the count, checks   *)
(* it, perhaps reads more, and then writes by id without looking again.    *)
(* One action per statement it awaits, so that the handlers of concurrent  *)
(* callers interleave between the check and the write.  A transaction here *)
(* writes only, and is one action: its rows become visible together.       *)
(***************************************************************************)
EXTENDS Integers, FiniteSets

CONSTANTS
    Counts, Locations, Quantities, NoLine, Null,
    Callers,            \* open connections, each with at most one call running
    LineIds,            \* bound: the lines that are ever created
    Warehouses, Companies,
    WarehouseCompany,   \* warehouses.companyId
    CountWarehouse,     \* inventory_counts.warehouseId, given at creation
    LocationWarehouse,  \* the warehouse a location belongs to
    CallerCompany,      \* the company in each caller's access token
    InFlight,           \* bound: how many calls run at once
    NoCall              \* a caller with no call running

ASSUME QuantitiesAreNaturals == Quantities \subseteq Nat
ASSUME NullIsNoQuantity == Null \notin Int
ASSUME CountScoping ==
    /\ WarehouseCompany \in [Warehouses -> Companies]
    /\ CountWarehouse \in [Counts -> Warehouses]
    /\ LocationWarehouse \in [Locations -> Warehouses]
    /\ CallerCompany \in [Callers -> Companies]

LineOps == {"updateLine", "removeLine"}
CountOps == {"create", "start", "complete", "cancel"}

\* A call: the operation, the count, the location or the line it names, and
\* the quantity in its body (expectedQty or countedQty).
Call(op, c, arg, n) == [op |-> op, count |-> c, arg |-> arg, qty |-> n]

Calls ==
    {Call(op, c, Null, Null) : op \in CountOps, c \in Counts}
    \cup {Call("addLine", c, l, n) : c \in Counts, l \in Locations, n \in Quantities}
    \cup {Call("updateLine", c, i, n) : c \in Counts, i \in LineIds, n \in Quantities}
    \cup {Call("removeLine", c, i, Null) : c \in Counts, i \in LineIds}

ASSUME NoLineIsNone ==
    /\ NoLine \notin [count: Counts, location: Locations, expected: Quantities,
                     counted: Quantities \cup {Null}, difference: Int \cup {Null}]
    /\ NoLine \notin [expected: Quantities, counted: Quantities \cup {Null},
                     difference: Int \cup {Null}]
ASSUME CallersAreFinite == IsFiniteSet(Callers)
ASSUME NoCallIsNone == NoCall \notin Calls

VARIABLES
    status,      \* of every count, "absent" before it is created
    startedAt,   \* whether inventory_counts.startedAt is set
    completedAt, \* whether inventory_counts.completedAt is set
    line,        \* inventory_count_lines by id, NoLine where there is no row
    issued,      \* the line ids used so far: an id is a fresh UUID
    live,        \* the locations that exist
    audit,       \* audit_logs: the terminal statuses written, and by whom
    pc,          \* the statement each caller's handler is about to run
    call,        \* the call it is handling
    differences  \* the local variable of complete: line id to difference

database == <<status, startedAt, completedAt, line, issued, live, audit>>
vars == <<database, pc, call, differences>>

Nothing == [i \in {} |-> 0]
LinesOf(c) == {i \in LineIds : line[i] # NoLine /\ line[i].count = c}
Listed(c, l) == \E i \in LinesOf(c) : line[i].location = l

Init ==
    /\ status = [c \in Counts |-> "absent"]
    /\ startedAt = [c \in Counts |-> FALSE]
    /\ completedAt = [c \in Counts |-> FALSE]
    /\ line = [i \in LineIds |-> NoLine]
    /\ issued = {}
    /\ live = Locations
    /\ audit = {}
    /\ pc = [r \in Callers |-> "idle"]
    /\ call = [r \in Callers |-> NoCall]
    /\ differences = [r \in Callers |-> Nothing]

-----------------------------------------------------------------------------
\* The handler goes on to its next statement, or answers: its local variables
\* are gone then.
Go(r, to) == pc' = [pc EXCEPT ![r] = to] /\ UNCHANGED call

Answer(r) ==
    /\ pc' = [pc EXCEPT ![r] = "idle"]
    /\ call' = [call EXCEPT ![r] = NoCall]
    /\ differences' = [differences EXCEPT ![r] = Nothing]

Refuse(r) == Answer(r) /\ UNCHANGED database

Receive(r) ==
    /\ pc[r] = "idle"
    /\ Cardinality({s \in Callers : pc[s] # "idle"}) < InFlight
    /\ \E m \in Calls : call' = [call EXCEPT ![r] = m]
    /\ pc' = [pc EXCEPT ![r] = "status"]
    /\ UNCHANGED <<database, differences>>

\* Mutation: a draft may be completed.
RequiredToCompleteDrafts(op) ==
    CASE op = "create" -> {"absent"}
      [] op \in {"start", "removeLine"} -> {"DRAFT"}
      [] OTHER -> {"DRAFT", "IN_PROGRESS"}

\* Mutation: a line may be removed from a count in progress.
RequiredToPruneOpen(op) ==
    CASE op = "create" -> {"absent"}
      [] op = "start" -> {"DRAFT"}
      [] op = "complete" -> {"IN_PROGRESS"}
      [] OTHER -> {"DRAFT", "IN_PROGRESS"}

\* findWarehouse, findCount and findMutableCount: the count in the caller's
\* company, and the status the operation requires.
Required(op) ==
    CASE op = "create" -> {"absent"}
      [] op \in {"start", "removeLine"} -> {"DRAFT"}
      [] op = "complete" -> {"IN_PROGRESS"}
      [] OTHER -> {"DRAFT", "IN_PROGRESS"}

Visible(r, c) == WarehouseCompany[CountWarehouse[c]] = CallerCompany[r]

AfterStatus(op) ==
    CASE op = "complete" -> "lines"
      [] op = "addLine" -> "location"
      [] op \in LineOps -> "line"
      [] OTHER -> "write"

StatusAllows(r) ==
    /\ Visible(r, call[r].count)
    /\ status[call[r].count] \in Required(call[r].op)

ReadStatus(r) ==
    /\ pc[r] = "status"
    /\ \/ /\ StatusAllows(r)
          /\ Go(r, AfterStatus(call[r].op))
          /\ UNCHANGED <<database, differences>>
       \/ ~StatusAllows(r) /\ Refuse(r)

\* A warehouse may be inactive: create is refused then.
FindInactiveWarehouse(r) ==
    /\ pc[r] = "status" /\ call[r].op = "create"
    /\ Refuse(r)

\* complete: read the lines, refuse if there is none or one is not counted.
AllCounted(c) == LinesOf(c) # {} /\ \A i \in LinesOf(c) : line[i].counted # Null

ReadLines(r) ==
    LET c == call[r].count
    IN  /\ pc[r] = "lines"
        /\ \/ /\ AllCounted(c)
              /\ differences' = [differences EXCEPT ![r] =
                     [i \in LinesOf(c) |-> line[i].counted - line[i].expected]]
              /\ Go(r, "write")
              /\ UNCHANGED database
           \/ ~AllCounted(c) /\ Refuse(r)

\* A look-up that either lets the handler go on or refuses the call.
LookUp(r, at, found, next) ==
    /\ pc[r] = at
    /\ \/ found /\ Go(r, next) /\ UNCHANGED <<database, differences>>
       \/ ~found /\ Refuse(r)

\* Mutation: the location looked up in any warehouse.
InAnyWarehouse(m) == m.arg \in live

\* findLocation: the location, in the warehouse of the count.
InItsWarehouse(m) ==
    /\ m.arg \in live
    /\ LocationWarehouse[m.arg] = CountWarehouse[m.count]

FindLocation(r) == LookUp(r, "location", InItsWarehouse(call[r]), "existing")

\* The existing line of addLine; the expected quantity is the one of the body
\* or the stock summed then: the member of Quantities in the call is either.
FindExistingLine(r) ==
    LookUp(r, "existing", ~Listed(call[r].count, call[r].arg), "write")

FindLine(r) == LookUp(r, "line", call[r].arg \in LinesOf(call[r].count), "write")

-----------------------------------------------------------------------------
(* The writes, each by id. *)

Writing(r, op) == pc[r] = "write" /\ call[r].op = op

\* The id is a fresh UUID: a member of Counts not created before.
WriteCreate(r) ==
    /\ Writing(r, "create")
    /\ status[call[r].count] = "absent"
    /\ status' = [status EXCEPT ![call[r].count] = "DRAFT"]
    /\ Answer(r)
    /\ UNCHANGED <<startedAt, completedAt, line, issued, live, audit>>

WriteStart(r) ==
    /\ Writing(r, "start")
    /\ status' = [status EXCEPT ![call[r].count] = "IN_PROGRESS"]
    /\ startedAt' = [startedAt EXCEPT ![call[r].count] = TRUE]
    /\ Answer(r)
    /\ UNCHANGED <<completedAt, line, issued, live, audit>>

AuditRow(r, s) == [count |-> call[r].count, status |-> s, caller |-> r]

\* The transaction of complete: it fails as a whole when a line is gone.
WriteComplete(r) ==
    LET d == differences[r]
    IN  /\ Writing(r, "complete")
        /\ \A i \in DOMAIN d : line[i] # NoLine
        /\ line' = [i \in LineIds |->
               IF i \in DOMAIN d THEN [line[i] EXCEPT !.difference = d[i]] ELSE line[i]]
        /\ audit' = audit \cup {AuditRow(r, "COMPLETED")}
        /\ status' = [status EXCEPT ![call[r].count] = "COMPLETED"]
        /\ completedAt' = [completedAt EXCEPT ![call[r].count] = TRUE]
        /\ Answer(r)
        /\ UNCHANGED <<startedAt, issued, live>>

\* Mutation: the audit row left out of the transaction, and lost.
WriteCancelUnaudited(r) ==
    /\ Writing(r, "cancel")
    /\ status' = [status EXCEPT ![call[r].count] = "CANCELLED"]
    /\ Answer(r)
    /\ UNCHANGED <<startedAt, completedAt, line, issued, live, audit>>

WriteCancel(r) ==
    /\ Writing(r, "cancel")
    /\ audit' = audit \cup {AuditRow(r, "CANCELLED")}
    /\ status' = [status EXCEPT ![call[r].count] = "CANCELLED"]
    /\ Answer(r)
    /\ UNCHANGED <<startedAt, completedAt, line, issued, live>>

\* Mutation: no unique index.
InsertFitsTwice(m) == m.arg \in live

\* The insert holds to the unique (count, location) and to the foreign key.
InsertFits(m) == ~Listed(m.count, m.arg) /\ m.arg \in live

WriteAddLine(r) ==
    LET m == call[r]
    IN  /\ Writing(r, "addLine")
        /\ InsertFits(m)
        /\ \E i \in LineIds \ issued :
             /\ issued' = issued \cup {i}
             /\ line' = [line EXCEPT ![i] =
                    [count |-> m.count, location |-> m.arg, expected |-> m.qty,
                     counted |-> Null, difference |-> Null]]
        /\ Answer(r)
        /\ UNCHANGED <<status, startedAt, completedAt, live, audit>>

WriteUpdateLine(r) ==
    LET i == call[r].arg
    IN  /\ Writing(r, "updateLine")
        /\ line[i] # NoLine
        /\ line' = [line EXCEPT ![i].counted = call[r].qty, ![i].difference = Null]
        /\ Answer(r)
        /\ UNCHANGED <<status, startedAt, completedAt, issued, live, audit>>

WriteRemoveLine(r) ==
    LET i == call[r].arg
    IN  /\ Writing(r, "removeLine")
        /\ line[i] # NoLine
        /\ line' = [line EXCEPT ![i] = NoLine]
        /\ Answer(r)
        /\ UNCHANGED <<status, startedAt, completedAt, issued, live, audit>>

Write(r) ==
    \/ WriteCreate(r) \/ WriteStart(r) \/ WriteComplete(r) \/ WriteCancel(r)
    \/ WriteAddLine(r) \/ WriteUpdateLine(r) \/ WriteRemoveLine(r)

\* The write fails: a constraint, a row that is gone, a lost connection.
FailWrite(r) == pc[r] = "write" /\ Refuse(r)

\* WarehousesService.deleteLocation: inventory lines restrict it.
DeleteLocation(l) ==
    /\ l \in live
    /\ \A i \in LineIds : line[i] # NoLine => line[i].location # l
    /\ live' = live \ {l}
    /\ UNCHANGED <<status, startedAt, completedAt, line, issued, audit,
                   pc, call, differences>>

Next ==
    \/ \E r \in Callers :
         \/ Receive(r) \/ ReadStatus(r) \/ FindInactiveWarehouse(r)
         \/ ReadLines(r) \/ FindLocation(r) \/ FindExistingLine(r) \/ FindLine(r)
         \/ Write(r) \/ FailWrite(r)
    \/ \E l \in Locations : DeleteLocation(l)

Spec == Init /\ [][Next]_vars

-----------------------------------------------------------------------------
(* Properties. *)

Terminal == {"COMPLETED", "CANCELLED"}
Statuses == {"absent", "DRAFT", "IN_PROGRESS"} \cup Terminal
Statements == {"idle", "status", "location", "existing", "line", "lines", "write"}
CountLines == [count: Counts, location: Locations, expected: Quantities,
               counted: Quantities \cup {Null}, difference: Int \cup {Null}]

\* The rows and the handlers' variables have their types (schema.prisma
\* 280-318), and a line id is issued once.
TypeOK ==
    /\ status \in [Counts -> Statuses]
    /\ startedAt \in [Counts -> BOOLEAN]
    /\ completedAt \in [Counts -> BOOLEAN]
    /\ line \in [LineIds -> CountLines \cup {NoLine}]
    /\ issued \subseteq LineIds
    /\ \A i \in LineIds : line[i] # NoLine => i \in issued
    /\ live \subseteq Locations
    /\ audit \subseteq [count: Counts, status: Terminal, caller: Callers]
    /\ pc \in [Callers -> Statements]
    /\ call \in [Callers -> Calls \cup {NoCall}]
    /\ \A r \in Callers : pc[r] # "idle" => call[r] \in Calls
    /\ \A r \in Callers :
           /\ DOMAIN differences[r] \subseteq issued
           /\ \A i \in DOMAIN differences[r] : differences[r][i] \in Int

\* Two concurrent addLine calls that both found the location free leave one
\* line: the unique index decides, not the lookup.
OneLinePerLocation ==
    \A i, j \in LineIds :
        /\ line[i] # NoLine /\ line[j] # NoLine
        /\ line[i].count = line[j].count
        /\ line[i].location = line[j].location
        => i = j

\* The location of a line exists, although it may be deleted between the
\* lookup and the insert, and it belongs to the warehouse of the count: no
\* count lists another warehouse's or another company's location.
LinesKeepTheirLocation ==
    \A i \in LineIds : line[i] # NoLine =>
        /\ line[i].location \in live
        /\ LocationWarehouse[line[i].location] = CountWarehouse[line[i].count]

\* Whoever wins a race to end a count, the status it is in was written with an
\* audit row, by a caller of the count's company.
TerminalStatusIsAudited ==
    /\ \A c \in Counts : status[c] \in Terminal =>
           \E a \in audit : a.count = c /\ a.status = status[c]
    /\ \A a \in audit :
           CallerCompany[a.caller] = WarehouseCompany[CountWarehouse[a.count]]

\* A count that was ever completed had been started, whatever ran beside the
\* two calls.
CompletedWasStarted ==
    \A c \in Counts :
        status[c] = "COMPLETED" \/ completedAt[c] => startedAt[c] /\ status[c] # "DRAFT"

\* With one call at a time the handlers implement the life of a count: the
\* statuses, the sheet that is frozen at the end, the lines that are only
\* removed from a draft and the completion that needs every line counted.
LineAt(c, l) == line[CHOOSE i \in LinesOf(c) : line[i].location = l]
SheetLine(c, l) ==
    IF Listed(c, l)
    THEN [expected |-> LineAt(c, l).expected, counted |-> LineAt(c, l).counted,
          difference |-> LineAt(c, l).difference]
    ELSE NoLine

Lifecycle == INSTANCE CountLifecycle
    WITH sheet <- [c \in Counts |-> [l \in Locations |-> SheetLine(c, l)]]
ImplementsLifecycle == Lifecycle!Spec

\* "rejects cancelling counts that are already completed or cancelled"
\* (inventory.service.spec.ts 174): a terminal status is final.
TerminalStatusIsFinal ==
    [][\A c \in Counts : status[c] \in Terminal => status'[c] = status[c]]_vars
=============================================================================
