--------------------------- MODULE StockMovements ---------------------------
(***************************************************************************)
(* StockService.createMovement, one action per statement it awaits, run by *)
(* concurrent requests against PostgreSQL at its default isolation level,  *)
(* READ COMMITTED: a plain read sees what is committed when it runs; a     *)
(* write locks its row until the transaction ends, waits for another       *)
(* writer's lock, and re-evaluates its WHERE clause on the row that writer *)
(* committed.  `pending` holds the uncommitted version of a locked row.    *)
(* The deletion of a location and of a product run beside the requests.    *)
(***************************************************************************)
EXTENDS MovementRules, FiniteSets, Functions

CONSTANTS
    Companies,
    ProductCompany,     \* products.companyId
    WarehouseCompany,   \* warehouses.companyId
    LocationWarehouse,  \* the warehouse a location's aisle and zone belong to
    Caller,             \* the company in each request's access token
    MinStock,           \* products.minStock; bound: nobody edits it meanwhile
    NoRequest,          \* a row nobody has locked
    InitialStocks       \* bound: the stock entries that may exist at the start

\* The rows of a table are finitely many, so that their SUM is a number.
ASSUME LocationsAreFinite == IsFiniteSet(Locations)
ASSUME NoRequestIsNone == NoRequest \notin Requests
ASSUME Scoping ==
    /\ ProductCompany \in [Products -> Companies]
    /\ WarehouseCompany \in [Warehouses -> Companies]
    /\ LocationWarehouse \in [Locations -> Warehouses]
    /\ Caller \in [Requests -> Companies]
    /\ MinStock \in [Products -> Nat]

LocationCompany(l) == WarehouseCompany[LocationWarehouse[l]]
SameTenant(k) == ProductCompany[k[1]] = LocationCompany(k[2])

ASSUME InitialStocksAreStocks == \A s \in InitialStocks :
    /\ DOMAIN s \subseteq {k \in Keys : SameTenant(k)}
    /\ \A k \in DOMAIN s : s[k] \in 0..MaxQty

-----------------------------------------------------------------------------
VARIABLES
    active,    \* products with isActive = true
    live,      \* locations that exist
    rows,      \* keys that have a committed row in stock_entries
    qty,       \* the committed quantity of every key, 0 where there is no row
    holder,    \* the request whose transaction has locked (or inserted) a key
    pending,   \* the value the holder has written, qty where there is none
    pc,        \* the statement each request is about to run
    body,      \* its CreateMovementDto
    previousStock, newStock,  \* the local variables of the two totals
    total,     \* the local variable of the total read after the transaction
    movement,  \* each request's committed row of stock_movements
    alerts     \* the low-stock events emitted

database == <<active, live, rows, qty, holder, pending, movement>>
locals == <<body, previousStock, newStock, total>>
vars == <<database, pc, locals, alerts>>

InTransaction == {"product", "locations", "aggregate", "source", "current",
                  "destination", "record", "commit"}
AfterCommit == {"recheck", "emit"}
Committed == {"recheck", "emit", "done", "lost"}
Settled == {"done", "rejected", "failed", "lost"}

SourceOf(r) == Source(body[r])
DestinationOf(r) == Destination(body[r])

\* SELECT SUM(quantity) FROM stock_entries WHERE product_id = p
SumOver(q, p) == SumFunction([l \in Locations |-> q[<<p, l>>]])
Total(p) == SumOver(qty, p)

Init ==
    /\ active = Products
    /\ live = Locations
    /\ \E s \in InitialStocks :
         /\ rows = DOMAIN s
         /\ qty = [k \in Keys |-> IF k \in DOMAIN s THEN s[k] ELSE 0]
    /\ holder = [k \in Keys |-> NoRequest]
    /\ pending = qty
    /\ pc = [r \in Requests |-> "idle"]
    /\ body = [r \in Requests |-> NoMovement]
    /\ previousStock = [r \in Requests |-> 0]
    /\ newStock = [r \in Requests |-> 0]
    /\ total = [r \in Requests |-> 0]
    /\ movement = [r \in Requests |-> NoMovement]
    /\ alerts = {}

-----------------------------------------------------------------------------
(* How a request moves on, and how its transaction ends. *)

Go(r, to) == pc' = [pc EXCEPT ![r] = to]

Write(r, k, n) ==
    /\ holder' = [holder EXCEPT ![k] = r]
    /\ pending' = [pending EXCEPT ![k] = n]

\* Mutation: the upsert and the decrement computed without a row lock.
LockNotNeeded(r, k) == TRUE

LockFree(r, k) == holder[k] \in {NoRequest, r}

\* Mutations of Rollback: writes made outside a transaction stay; an early
\* return leaves the transaction open and its rows locked.
RollbackKeepsWrites(r, outcome) ==
    /\ Go(r, outcome)
    /\ holder' = [k \in Keys |-> IF holder[k] = r THEN NoRequest ELSE holder[k]]
    /\ qty' = [k \in Keys |-> IF holder[k] = r THEN pending[k] ELSE qty[k]]
    /\ UNCHANGED <<active, live, rows, pending, movement, locals, alerts>>

RollbackKeepsLocks(r, outcome) ==
    /\ Go(r, outcome)
    /\ UNCHANGED <<database, locals, alerts>>

\* ROLLBACK: the locked rows keep their committed value.
Rollback(r, outcome) ==
    /\ Go(r, outcome)
    /\ holder' = [k \in Keys |-> IF holder[k] = r THEN NoRequest ELSE holder[k]]
    /\ pending' = [k \in Keys |-> IF holder[k] = r THEN qty[k] ELSE pending[k]]
    /\ UNCHANGED <<active, live, rows, qty, movement, locals, alerts>>

-----------------------------------------------------------------------------
(* createMovement, statement by statement. *)

Submit(r) ==
    /\ pc[r] = "idle"
    /\ \E m \in Bodies : body' = [body EXCEPT ![r] = m]
    /\ Go(r, "product")
    /\ UNCHANGED <<database, previousStock, newStock, total, alerts>>

\* The product and the warehouse are looked up in the caller's company.  A
\* warehouse never changes company, so its lookup needs no step of its own.
Visible(r) ==
    /\ body[r].product \in active
    /\ ProductCompany[body[r].product] = Caller[r]
    /\ WarehouseCompany[body[r].warehouse] = Caller[r]

FindProductAndWarehouse(r) ==
    /\ pc[r] = "product"
    /\ \/ Visible(r) /\ Go(r, "locations")
          /\ UNCHANGED <<database, locals, alerts>>
       \/ ~Visible(r) /\ Rollback(r, "rejected")

\* Mutation: the location looked up by its id alone.
InAnyWarehouse(l, w) == l \in live

InWarehouse(l, w) == l \in live /\ LocationWarehouse[l] = w

LocationsFound(r) ==
    \A l \in {body[r].from, body[r].to} \ {NoLocation} :
        InWarehouse(l, body[r].warehouse)

FindMovementLocations(r) ==
    /\ pc[r] = "locations"
    /\ \/ LocationsFound(r) /\ Go(r, "aggregate")
          /\ UNCHANGED <<database, locals, alerts>>
       \/ ~LocationsFound(r) /\ Rollback(r, "rejected")

\* The total is read without a lock; the branch on the type then runs its
\* guards on it.  newStock is final here except for an ADJUSTMENT.
MayProceed(m, prev) ==
    /\ HasItsLocations(m)
    /\ m.type = "OUTBOUND" => prev >= m.quantity

\* Mutation: a TRANSFER counted like an OUTBOUND.
NewStockAfterTaking(m, prev) ==
    CASE m.type \in {"INBOUND", "RETURN"} -> prev + m.quantity
      [] Takes(m) -> prev - m.quantity
      [] OTHER -> prev

NewStockOf(m, prev) ==
    CASE m.type \in {"INBOUND", "RETURN"} -> prev + m.quantity
      [] m.type = "OUTBOUND" -> prev - m.quantity
      [] OTHER -> prev

FirstWrite(m) ==
    CASE Takes(m) -> "source"
      [] m.type = "ADJUSTMENT" -> "current"
      [] OTHER -> "destination"

ReadPreviousStock(r) ==
    LET m == body[r]
        prev == Total(m.product)
    IN  /\ pc[r] = "aggregate"
        /\ \/ /\ MayProceed(m, prev)
              /\ previousStock' = [previousStock EXCEPT ![r] = prev]
              /\ newStock' = [newStock EXCEPT ![r] = NewStockOf(m, prev)]
              /\ Go(r, FirstWrite(m))
              /\ UNCHANGED <<database, body, total, alerts>>
           \/ ~MayProceed(m, prev) /\ Rollback(r, "rejected")

\* Mutation: the WHERE clause without quantity >= q.
SourceExists(r) == SourceOf(r) \in rows

\* UPDATE ... SET quantity = quantity - q WHERE quantity >= q: it rejects at
\* once when the committed row does not qualify, waits when a qualifying row
\* is locked, and then looks again.
SourceHasEnough(r) ==
    SourceOf(r) \in rows /\ qty[SourceOf(r)] >= body[r].quantity

DecrementSourceStock(r) ==
    /\ pc[r] = "source"
    /\ \/ /\ SourceHasEnough(r)
          /\ LockFree(r, SourceOf(r))
          /\ Write(r, SourceOf(r), AfterTake(body[r], qty[SourceOf(r)]))
          /\ Go(r, IF body[r].type = "TRANSFER" THEN "destination" ELSE "record")
          /\ UNCHANGED <<active, live, rows, qty, movement, locals, alerts>>
       \/ ~SourceHasEnough(r) /\ Rollback(r, "rejected")

\* ADJUSTMENT reads the row it is about to overwrite, again without a lock.
ReadCurrentQuantity(r) ==
    /\ pc[r] = "current"
    /\ newStock' = [newStock EXCEPT ![r] =
           previousStock[r] - qty[DestinationOf(r)] + body[r].quantity]
    /\ Go(r, "destination")
    /\ UNCHANGED <<database, body, previousStock, total, alerts>>

\* INSERT ... ON CONFLICT DO UPDATE.  An insert needs its location to exist
\* (foreign key); the column overflows beyond MaxQty.
Upserted(r) == AfterPut(body[r], qty[DestinationOf(r)])
UpsertFits(r) ==
    /\ Upserted(r) <= MaxQty
    /\ DestinationOf(r) \in rows \/ body[r].to \in live

UpsertDestination(r) ==
    /\ pc[r] = "destination"
    /\ LockFree(r, DestinationOf(r))
    /\ \/ /\ UpsertFits(r)
          /\ Write(r, DestinationOf(r), Upserted(r))
          /\ Go(r, "record")
          /\ UNCHANGED <<active, live, rows, qty, movement, locals, alerts>>
       \/ ~UpsertFits(r) /\ Rollback(r, "failed")

\* Mutation: totals that no column bounds.
RecordUnbounded(r) == {body[r].from, body[r].to} \ {NoLocation} \subseteq live

\* The movement and its audit row are inserted.  Both totals are Int columns
\* and both locations, used by the type or not, are foreign keys.
RecordFits(r) ==
    /\ {previousStock[r], newStock[r]} \subseteq (-MaxQty - 1)..MaxQty
    /\ {body[r].from, body[r].to} \ {NoLocation} \subseteq live

RecordMovement(r) ==
    /\ pc[r] = "record"
    /\ \/ RecordFits(r) /\ Go(r, "commit")
          /\ UNCHANGED <<database, locals, alerts>>
       \/ ~RecordFits(r) /\ Rollback(r, "failed")

Commit(r) ==
    /\ pc[r] = "commit"
    /\ rows' = rows \cup {k \in Keys : holder[k] = r}
    /\ qty' = [k \in Keys |-> IF holder[k] = r THEN pending[k] ELSE qty[k]]
    /\ holder' = [k \in Keys |-> IF holder[k] = r THEN NoRequest ELSE holder[k]]
    /\ movement' = [movement EXCEPT ![r] =
           [from |-> body[r].from, to |-> body[r].to,
            previousStock |-> previousStock[r], newStock |-> newStock[r]]]
    /\ Go(r, "recheck")
    /\ UNCHANGED <<active, live, pending, locals, alerts>>

\* Mutation: the alert decided by newStock instead of a second aggregate.
RecheckTrustsNewStock(r) ==
    /\ pc[r] = "recheck"
    /\ total' = [total EXCEPT ![r] = newStock[r]]
    /\ Go(r, "emit")
    /\ UNCHANGED <<database, body, previousStock, newStock, alerts>>

\* After the transaction: the total is read again, and an alert goes to the
\* room of the caller's company.
RecheckStock(r) ==
    /\ pc[r] = "recheck"
    /\ total' = [total EXCEPT ![r] = Total(body[r].product)]
    /\ Go(r, "emit")
    /\ UNCHANGED <<database, body, previousStock, newStock, alerts>>

EmitLowStock(r) ==
    /\ pc[r] = "emit"
    /\ alerts' = IF total[r] <= MinStock[body[r].product]
                 THEN alerts \cup {[company |-> Caller[r],
                                    product |-> body[r].product,
                                    stock |-> total[r]]}
                 ELSE alerts
    /\ Go(r, "done")
    /\ UNCHANGED <<database, locals>>

-----------------------------------------------------------------------------
(* What else can end a request, and the handlers that run beside it. *)

\* The five-second limit of an interactive transaction, a lost connection or
\* the death of the process: the database rolls back.
Abort(r) ==
    /\ pc[r] \in InTransaction
    /\ Rollback(r, "failed")

\* The same after COMMIT: the movement stands, but no alert is emitted and
\* the client never sees the answer.
LoseAnswer(r) ==
    /\ pc[r] \in AfterCommit
    /\ Go(r, "lost")
    /\ UNCHANGED <<database, locals, alerts>>

WaitsFor(r, s) ==
    /\ r # s
    /\ \/ pc[r] = "source" /\ SourceHasEnough(r) /\ holder[SourceOf(r)] = s
       \/ pc[r] = "destination" /\ holder[DestinationOf(r)] = s

\* PostgreSQL's deadlock detector aborts one of the transactions on a cycle.
OnCycle(r) ==
    \E S \in SUBSET Requests :
        /\ r \in S
        /\ \A s \in S : (\E t \in S : WaitsFor(s, t)) /\ (\E t \in S : WaitsFor(t, s))

BreakDeadlock(r) ==
    /\ OnCycle(r)
    /\ Rollback(r, "failed")

\* Mutation: an uncommitted entry does not hold its location.
ReferencesByMovementOnly(r, l) ==
    pc[r] = "commit" /\ l \in {body[r].from, body[r].to}

\* WarehousesService.deleteLocation.  Stock entries restrict it, even empty
\* ones; it waits for a transaction that references the location by an
\* insert; committed movements that name it get NULL.
References(r, l) ==
    \/ \E p \in Products : holder[<<p, l>>] = r
    \/ pc[r] = "commit" /\ l \in {body[r].from, body[r].to}

Detached(l) == IF l \in live' THEN l ELSE NoLocation

DeleteLocation(l) ==
    /\ l \in live
    /\ \A p \in Products : <<p, l>> \notin rows
    /\ \A r \in Requests : ~References(r, l)
    /\ live' = live \ {l}
    /\ movement' = [r \in Requests |->
           IF movement[r] = NoMovement THEN NoMovement
           ELSE [movement[r] EXCEPT !.from = Detached(@), !.to = Detached(@)]]
    /\ UNCHANGED <<active, rows, qty, holder, pending, pc, locals, alerts>>

\* ProductsService.remove: a soft delete that no request waits for.
RemoveProduct(p) ==
    /\ p \in active
    /\ active' = active \ {p}
    /\ UNCHANGED <<live, rows, qty, holder, pending, movement, pc, locals, alerts>>

-----------------------------------------------------------------------------
Step(r) ==
    \/ FindProductAndWarehouse(r)
    \/ FindMovementLocations(r)
    \/ ReadPreviousStock(r)
    \/ DecrementSourceStock(r)
    \/ ReadCurrentQuantity(r)
    \/ UpsertDestination(r)
    \/ RecordMovement(r)
    \/ Commit(r)
    \/ RecheckStock(r)
    \/ EmitLowStock(r)

\* Every request that was made has been answered: nothing is left to happen.
Quiet ==
    /\ \A r \in Requests : pc[r] \in Settled
    /\ UNCHANGED vars

Next ==
    \/ \E r \in Requests :
         Submit(r) \/ Step(r) \/ Abort(r) \/ LoseAnswer(r) \/ BreakDeadlock(r)
    \/ \E l \in Locations : DeleteLocation(l)
    \/ \E p \in Products : RemoveProduct(p)
    \/ Quiet

Spec == Init /\ [][Next]_vars

\* The server runs the next statement of every open request, and PostgreSQL
\* breaks every deadlock.  Nothing obliges clients to submit, locations to be
\* deleted or transactions to be aborted.
FairSpec ==
    Spec /\ \A r \in Requests : WF_vars(Step(r)) /\ WF_vars(BreakDeadlock(r))

-----------------------------------------------------------------------------
(* Properties. *)

Int4 == (-MaxQty - 1)..MaxQty
LocationOrNull == Locations \cup {NoLocation}
MovementRows == [from: LocationOrNull, to: LocationOrNull,
                 previousStock: Int4, newStock: Int4]

\* The rows of the database have the types of their columns.
StoreTypeOK ==
    /\ active \subseteq Products
    /\ live \subseteq Locations
    /\ rows \subseteq Keys
    /\ qty \in [Keys -> Int]
    /\ holder \in [Keys -> Requests \cup {NoRequest}]
    /\ pending \in [Keys -> Int]
    /\ pc \in [Requests -> {"idle"} \cup InTransaction \cup AfterCommit \cup Settled]
    /\ body \in [Requests -> Movements \cup {NoMovement}]
    /\ \A r \in Requests : pc[r] # "idle" => body[r] \in Movements
    /\ movement \in [Requests -> MovementRows \cup {NoMovement}]

\* The database rows and the local variables of createMovement have their
\* declared types; the totals of a movement fit the Int columns they are
\* stored in, though they are sums that may exceed them (stock.service.ts
\* 64-69, 149-161).
TypeOK ==
    /\ StoreTypeOK
    /\ previousStock \in [Requests -> Nat]
    /\ newStock \in [Requests -> Int]
    /\ total \in [Requests -> Nat]
    /\ alerts \subseteq [company: Companies, product: Products, stock: Nat]

\* No committed entry is ever negative or beyond its column, whatever runs
\* concurrently: the promise of decrementSourceStock's comment and of the
\* README ("no negative stock under concurrency").
StockInRange == \A k \in Keys : qty[k] \in 0..MaxQty

\* Between its writes and its COMMIT a transaction owns what it wrote: each
\* locked row holds the committed quantity changed by its own movement and
\* nothing else, a transaction about to commit has locked every row its type
\* must write, and nobody else's row is pending.  A lost update, a write
\* kept after a rollback or a half-done TRANSFER would break it.
TookSource(r) == pc[r] \in {"destination", "record", "commit"} /\ Takes(body[r])
PutDestination(r) == pc[r] \in {"record", "commit"} /\ Puts(body[r])

HoldsSource(r, k) ==
    /\ TookSource(r) /\ k = SourceOf(r)
    /\ k \in rows /\ qty[k] >= body[r].quantity
    /\ pending[k] = AfterTake(body[r], qty[k])

HoldsDestination(r, k) ==
    /\ PutDestination(r) /\ k = DestinationOf(r)
    /\ pending[k] = AfterPut(body[r], qty[k])
    /\ pending[k] <= MaxQty

UnlockedIsCommitted == \A k \in Keys : holder[k] = NoRequest => pending[k] = qty[k]

PendingIsEffect ==
    \A k \in Keys, r \in Requests :
        holder[k] = r => HoldsSource(r, k) \/ HoldsDestination(r, k)

WritersHoldLocks ==
    \A r \in Requests :
        /\ TookSource(r) => holder[SourceOf(r)] = r
        /\ PutDestination(r) => holder[DestinationOf(r)] = r

\* The branch a request is in is the one of its type, with the locations the
\* type needs, and what it is about to commit fits the columns.
RightBranch(r) ==
    /\ pc[r] \in {"source", "current", "destination", "record", "commit"}
         => HasItsLocations(body[r])
    /\ pc[r] = "source" => Takes(body[r])
    /\ pc[r] = "current" => body[r].type = "ADJUSTMENT"
    /\ pc[r] = "destination" => Puts(body[r])
    /\ pc[r] = "commit" => previousStock[r] \in Int4 /\ newStock[r] \in Int4

BranchMatchesType == \A r \in Requests : RightBranch(r)

LocksCoverWrites ==
    /\ UnlockedIsCommitted
    /\ PendingIsEffect
    /\ WritersHoldLocks
    /\ BranchMatchesType

\* A stock entry lives at a location that exists, and so does one that a
\* transaction has inserted; the movements in the history still name the
\* location they took from or put into, although the column is ON DELETE SET
\* NULL: what protects the history is the entry, even an empty one, that the
\* movement has left there (deleteLocation against createMovement).
HistoryKeepsLocation ==
    /\ \A k \in Keys : k \in rows \/ holder[k] # NoRequest => k[2] \in live
    /\ \A r \in Requests : movement[r] # NoMovement =>
           /\ Takes(body[r]) => movement[r].from = body[r].from
           /\ Puts(body[r]) => movement[r].to = body[r].to

\* No stock entry, movement or alert crosses tenants: an entry's product and
\* location belong to one company, which is the company of the caller that
\* moved it, of the warehouse of the movement and of the alert's room.
TenantIsolation ==
    /\ \A k \in rows : SameTenant(k)
    /\ \A r \in Requests : movement[r] # NoMovement =>
           /\ ProductCompany[body[r].product] = Caller[r]
           /\ WarehouseCompany[body[r].warehouse] = Caller[r]
           /\ Takes(body[r]) => LocationCompany(body[r].from) = Caller[r]
           /\ Puts(body[r]) => LocationCompany(body[r].to) = Caller[r]
    /\ \A a \in alerts : a.company = ProductCompany[a.product]

\* When every movement of a product has run to its end and the stock is low,
\* an alert with the stock as it now is has been emitted: reading the total
\* after the transaction, and not using newStock, is what makes the last of
\* several concurrent movements see all of them.
CommittedOn(p) == {r \in Requests : pc[r] \in Committed /\ body[r].product = p}

AlertCoversLowStock ==
    \A p \in Products :
        /\ CommittedOn(p) # {}
        /\ \A r \in CommittedOn(p) : pc[r] = "done"
        /\ Total(p) <= MinStock[p]
        => \E a \in alerts : a.product = p /\ a.stock = Total(p)

Commits(r) == pc[r] = "commit" /\ pc'[r] = "recheck"

\* The difference newStock - previousStock that a movement records is the
\* change its commit makes to the product's total, although both totals may
\* be stale and are then those of no moment.  An ADJUSTMENT, which reads the
\* row it sets without a lock, is excepted.
DeltaIsTheChange(r) ==
    LET p == body[r].product
    IN  SumOver(qty', p) - Total(p) = newStock[r] - previousStock[r]

RecordedDeltaIsTheChange ==
    [][\A r \in Requests :
         Commits(r) /\ body[r].type # "ADJUSTMENT" => DeltaIsTheChange(r)]_vars

\* createMovement implements the ledger: the committed stock changes only by
\* the whole effect of one movement, at its COMMIT, with a source that holds
\* enough at that very moment; every other outcome leaves no trace.
Made(r) == IF pc[r] \in Committed THEN body[r] ELSE NoMovement
Ledger == INSTANCE StockLedger
              WITH stock <- qty, applied <- [r \in Requests |-> Made(r)]
ImplementsLedger == Ledger!Spec

\* Every request that is made is answered: opposite transfers that lock each
\* other's rows do not wait forever, and no lock outlives its transaction.
EveryRequestSettles ==
    \A r \in Requests : pc[r] = "product" ~> pc[r] \in Settled
=============================================================================
