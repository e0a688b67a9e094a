# Verification of Mantyx

Mantyx is a multi-tenant warehouse application: a NestJS API over PostgreSQL
(through Prisma) and Redis (`src/apps/api`), and an Angular client
(`src/apps/web`). This directory models the parts of it whose correctness
depends on the order in which things happen, checks small instances of the
models with TLC, and proves theorems about them, for every instance, with TLAPS.

## 1. The system

### API

| Component | State it keeps | Operations that change it | What makes it correct |
|---|---|---|---|
| Stock movements (`stock.service.ts`) | `stock_entries` (one row per product and location), `stock_movements`, audit rows | `createMovement` | Stock changes by whole movements, never below zero, never across tenants; the recorded totals and the alerts agree with it; every request is answered. |
| Low-stock alerts (`stock-alerts.gateway.ts`) | the rooms sockets have joined | `emitLowStock`, `handleConnection` | The last of several concurrent movements that leave the stock low alerts, in its own company's room. |
| Inventory counts (`inventory.service.ts`) | `inventory_counts`, `inventory_count_lines`, audit rows | `create`, `start`, `complete`, `cancel`, `addLine`, `updateLine`, `removeLine` | A count runs through its statuses once; a terminal count is frozen, audited and fully counted; a location is listed once. |
| Warehouses (`warehouses.service.ts`) | warehouses, zones, aisles, locations | create, rename, delete at each level, `toggleActive` | Names unique in their parent; a parent with children or stock is not deleted; paths never cross tenants. |
| Products, categories, brands | the catalogue, image files | create, update, soft delete, `uploadImage`; create, rename, remove | SKU unique in the company; category and brand of the same company; an upload that the row names is on the disk. |
| Sessions (`auth.service.ts`, guards, strategies, `redis.service.ts`) | refresh-token hashes, denylist and failure counters in Redis | `login`, `refresh`, `logout`; guards on every request | A logout ends its session; a deactivated account is refused; the failure counter expires. |
| Users, companies | users, companies | create, update, toggle | Emails and slugs unique; a company has its administrator. |
| Guards and tenancy (`roles.guard.ts`, `company.guard.ts`) | none | judge the row of the token's user | A handler works for the company of its caller. |
| Audit log (`audit.service.ts`) | `audit_logs` | `log` (never fails its caller) | A row is filed under the company of its record. |
| Dashboard, overview, listings, filters, configuration | none | reads only | - |

### Web client

| Component | State | What makes it correct |
|---|---|---|
| Session (`core/services/auth.service.ts`, interceptor) | access token, user, the refresh in flight | One refresh serves every request that failed; a retry carries the new token; the user shown is the token's. |
| Shell (routes, menu, guards) | the route | Redirects end, at a page the role may see. |
| Lists (`*-list-state.ts`, admin states) | filters, page, rows, `loading` | What is shown belongs to the filters that are shown. |
| Receptions, expeditions, transfers | form, cascade of locations, `saving` | Success means every line; a form mixes no warehouses, but by an overtaken answer. |
| Inventory screen | selected count, list, cascade, `saving` | No spinner or disabled button outlasts its request; that a line fits its count's warehouse is left to the API. |
| Warehouses screen | path that is selected, a list per level, dialogs | A write lands under the parents on the screen. |
| Products and administration | dialogs, `saving` | One write at a time; a saved product has its image. |
| Scanner, sockets, toasts, home | camera, socket, messages | - |

### How they interact

Every API handler runs as interleaved asynchronous steps in one or more Node
processes; what two of them share is PostgreSQL and Redis only. Handlers read
rows, check them, and then write, with or without a transaction, so another
handler runs between any two statements. Movements and counts both refer to
locations, which `deleteLocation` removes beside them; movements and products
refer to rows that are deactivated or removed beside them. After its transaction
a movement reads the stock again and emits an alert over a socket. The client
calls the API over HTTP, repeats a call after refreshing its token, and may have
several calls of one screen in flight, whose answers come in any order.

### What is hard

Races between a check and its write; row locks taken in opposite orders by
transfers; transactions that time out or die between two writes, or whose
answer is lost after the commit; totals read without a lock; integer columns
that hold sums; unique indexes and foreign keys that decide a race the code
does not see; two clocks of different grain; in the client, responses out of
order, dialogs closed while their request goes on, and several requests of which
some succeed. `PROJECT.json` lists each at its line under `hazards`, with the
properties that would catch it going wrong.

## 2. Modules

| Module | What it is |
|---|---|
| `MovementRules` | The vocabulary of movements: bodies, keys, what each type takes and puts. |
| `StockLedger` | Abstract: a movement is one atomic change of the stock, or nothing. |
| `StockMovements` | `createMovement` statement by statement under READ COMMITTED, with `deleteLocation` and `ProductsService.remove` beside it. |
| `CountLifecycle` | Abstract: the life of an inventory count and its sheet. |
| `InventoryCounts` | Every writing handler of `InventoryService`, checks and writes apart. |
| `Sessions` | `AuthService`, the guard, the socket handshake and the Redis keys they share, against a clock. |
| `WarehouseTree` | Every handler of `WarehousesService`, its look-ups link by link. |
| `WarehousesScreen` | The client's warehouses screen, on top of `WarehouseTree`. |
| `Accounts` | Companies and users behind the guards, and the audit log. |
| `Catalogue` | Categories, brands, products and their images, on top of `Accounts`. |
| `Navigation` | The client's menu, guards and redirects, as functions. |
| `ClientSession` | The client's session in one tab, on top of `Navigation`. |
| `PageLists` | The list of a page: filters, search, pages, answers in any order. |
| `Cascade` | The selects of zone, aisle and location, on top of `PageLists`. |
| `MovementForms` | Receptions, expeditions and transfers, on top of `Cascade`. |
| `CountScreen` | The inventory screen, on top of `Cascade`. |
| `EditDialogs` | The dialogs of products, accounts and labels, on top of `PageLists`. |
| `WebScreens` | The composition of the last three: one page is open. |
| `MC*` | Instances for TLC. |
| `*Proofs` | Theorems, see section 4. |

### Stock movements

| Model | Code (`stock.service.ts`) |
|---|---|
| `pc`, `body`, `previousStock`, `newStock`, `total` | the statement a call of `createMovement` has reached, its DTO and its local variables |
| `rows`, `qty` | committed rows of `stock_entries` |
| `holder`, `pending` | the row lock on an entry and the uncommitted version its holder has written |
| `FindProductAndWarehouse`, `FindMovementLocations` | the scoped look-ups, 35-62, 422-437 |
| `ReadPreviousStock` | the unlocked `SUM` and the branch on the type, 64-130 |
| `DecrementSourceStock` | `updateMany ... quantity: { gte }`, 395-420 |
| `ReadCurrentQuantity`, `UpsertDestination` | an adjustment's read, and the upserts, 80-142 |
| `RecordMovement`, `Commit` | the movement and audit rows, 149-182 |
| `RecheckStock`, `EmitLowStock` | after the transaction, 184-200 |
| `Abort`, `LoseAnswer`, `BreakDeadlock` | the ways it may end at any statement |

PostgreSQL is external and modelled from how the code uses it. The code sets no
isolation level, so the default, READ COMMITTED, applies: a read sees what is
committed when it runs; a write locks its row until the transaction ends, waits
for another writer, and evaluates its `WHERE` on the row that writer committed.
The upsert is `INSERT ... ON CONFLICT`; a waiting upsert sees the committed
row. A foreign-key check shares a lock on the parent, which is why a location
is not deleted while an uncommitted row names it. The look-up of the product
and of the warehouse is one action because a warehouse never changes company
and its `isActive` is not asked for here. Quantities keep their width: an `Int`
column holds at most `MaxQty`, and totals are sums that may be larger.

### Inventory counts

| Model | Code (`inventory.service.ts`) |
|---|---|
| `status`, `startedAt`, `completedAt`, `line`, `audit` | `inventory_counts`, `inventory_count_lines`, `audit_logs` |
| `ReadStatus`, `FindInactiveWarehouse` | `findCount`, `findMutableCount`, `findWarehouse` and the checks of the status |
| `ReadLines` | `complete`, lines 123-138: the lines, the checks, the local `differences` |
| `FindLocation`, `FindExistingLine`, `FindLine` | the look-ups of `addLine`, `updateLine`, `removeLine` |
| `WriteCreate` ... `WriteRemoveLine` | the writes, all by id and without a condition |
| `FailWrite` | a constraint, a row that is gone, a lost connection |
| `DeleteLocation` | `WarehousesService.deleteLocation` |

`complete` and `cancel` write inside a transaction that reads nothing, so the
transaction is one action: the rows become visible together, and the row locks
order it against another writer of the same row. Ids are fresh UUIDs, hence
`issued`: a line id is never used again. The expected quantity of a line is
either in the body or the stock summed at that moment; both are some member of
`Quantities`.

### Sessions

| Model | Code |
|---|---|
| `session`, `denied`, `fails` with `failsUntil` | the Redis keys `refresh:<user>:<sid>`, `denylist:access:<jti>`, `login-fail:<email>`; a number is the moment the key expires |
| `token` | the payload both tokens of a pair share: user, session, `iat` |
| `ReadAttempts`, `CheckPassword`, `Increment`, `Expire`, `Reset` | `login`, and `RedisService.increment` as its two commands |
| `Sign`, `Store` | `issueTokens`: the tokens are dated first and the key is written later |
| `Verify`, `FindSession`, `FindUser` | `JwtRefreshStrategy` and `refresh` |
| `Verify`, `CheckDenylist`, `CheckAccount` | `JwtStrategy.validate`; the first two are also the gateway's handshake |
| `DeleteSession`, `DenyToken` | `logout` |
| `ToggleActive`, `Tick`, `Fail` | `UsersService.toggleActive`; time; a lost connection or process |

The clock counts half seconds, because the code mixes two clocks: a JWT is
dated and judged in whole seconds, a Redis key lives for whole seconds from the
moment it is written. `late` is a history variable: what was already so when a
request arrived. The stored hash does not tell the tokens of one user apart
(bcrypt reads 72 bytes, which the header of a JWT and the beginning of the user
id fill), so `FindSession` asks whether the key is there.

### Warehouses and their screen

| Model | Code |
|---|---|
| `row` | the four tables: a node's level is its table, its parent the column that names the row above (for a warehouse, its company) |
| `call` | the ids in the route from the warehouse down, the name in the body, the company of the caller |
| `FindWarehouse` ... `FindLocationInAisle` | the private look-ups 366-396, each by id and parent, in the order every handler awaits them |
| `FindConflict` | the query for another warehouse of the name, 50-56 and 75-83 |
| `CreateWarehouse` ... `DeleteLocation`, `ToggleActive` | the one write of each handler, with the unique index and the foreign keys that may refuse it |
| `FindAll` ... `FindLocationByCode` | the reads whose answer the screen uses |
| `held`, `Hold` | locations that stock entries or count lines name, which come from elsewhere |
| `Fail` | a lost connection between any two statements |
| `selected`, `shown`, `loading`, `saving`, `modal` | the signals of `warehouses.component.ts` and its navigation state |
| `EnterZones` ..., `GoToLevel`, `Open...`, `Submit...`, `Hear...` | the methods of the component and the subscribers of its requests |

The model of the screen EXTENDS that of the API: a request of the screen is a
call of `WarehouseTree` in one of the screen's slots, so an answer is what the
server did, at its own moment. No request of the screen is cancelled by the
next one, as in the code.

### Companies, users and the catalogue

| Model | Code |
|---|---|
| `company`, `user`, `label`, `product`, `files`, `audit` | the tables and the upload directory; categories and brands are one table, told apart by `kind` |
| `AdmitCompanies`, `AdmitUsers`, `AdmitManagers`, `AdmitAdmins` | `JwtStrategy.validate`, `RolesGuard` and `CompanyGuard`, with the `@Roles` of each route |
| `FindByEmail` ... `ToggleUser` | `UsersService` |
| `FindCompanyNamed`, `FindAdminEmail`, `InsertCompany`, `InsertAdmin`, `Commit` | `CompaniesService.create`; `pending` holds the rows its transaction has not committed |
| `FindCompany`, `FindNameConflict`, `UpdateCompany`, `ToggleStatus` | the rest of `CompaniesService` |
| `CreateLabel`, `FindLabel`, `RenameLabel`, `RemoveCategory`, `RemoveBrand` | `CategoriesService` and `BrandsService` |
| `FindOne`, `FindCategory`, `FindBrand`, `CreateProduct`, `UpdateProduct`, `RemoveProduct` | `ProductsService`, with `ensureCatalogOwnership` |
| `RemovePrevious`, `WriteFile`, `UpdateImage` | `uploadImage`: the disk first, the row last |
| `Log`, `LogFails` | `AuditService.log`, which the controllers await after the change and which swallows its own failure |
| `Fail`, `RollBack` | a lost connection; what is left of a transaction |

A write that meets an uncommitted row on a unique index waits for that
transaction, as PostgreSQL does. What a request creates is named after the
request. `Restricts` and `RemoveBrand` are the two foreign keys of `products` as
the migration has them, which differ (finding 2).

### The client's session

| Model | Code |
|---|---|
| `token`, `user`, `inFlight` | `_accessToken`, `_user`, `_refreshInFlight$` of `auth.service.ts` |
| `http`, `refresh` | the requests of the page, of login and of logout; the POSTs to `/auth/refresh` |
| `Hear401`, `Current`, `Post` | the interceptor's `catchError` and `AuthService.refresh` |
| `HearRefresh` with `Retry` and `FailAll` | what the shared answer does to every request that waits |
| `HearRetryFailed` | the outer `catchError`, which is also around the retry |
| `OnSubmit`, `HearLogin`, `Logout`, `HearLogout` | login page and shell; an error of the logout counts as an answer |
| `Reload`, `Boot` | `app.config.ts`: configuration, then one refresh, then the router |
| `Navigate`, `Land`, `Menu` | the guards and redirects of `shell.routes.ts`, and the menu of `nav-items.ts` |
| `Expire`, `Lapse`, `Serve...` | the API, by which tokens and sessions it accepts |

The API's part is deliberately coarse: tokens expire and sessions lapse at any
moment. Why and when they do is the subject of `Sessions`.

### The client's pages

| Model | Code |
|---|---|
| `PageLists`: `list`, `OnFilter`, `GoToPage`, `OnSearch`, `Debounced`, `HearList` | the six list states, which have the same shape, and the search box of stock and products |
| `Cascade`: `pick`, `options`, `OnWarehouse` ... `HearOptions` | the selects of `movement-form-modal`, `create-movement-modal` and `inventory-line-location-state` |
| `MovementForms`: `form`, `Submit`, `HearPost...` | receptions, expeditions (`forkJoin` of one request per line) and transfers |
| `CountScreen`: `detail`, `ScanLocation`, `SubmitCountLine`, `AfterDetailAction` ... | `inventory.component.ts` |
| `EditDialogs`: `dialog`, `SubmitForm`, `Execute`, `Hear...` | the forms and confirmations of products, users, companies, categories and brands |
| `calls` | every request that is unanswered; it may be answered in any order |
| `applied`, `items` | what the API has carried out, in as much as a property asks for it |

What the API decides about a request and the answer to it are one step here,
because no page looks at the one before the other; an error may hide that the
request was carried out. The API's own checks are `PlacesOf`, `Fits` and
`Accepts`, translated from the services.

## 3. Runs

| Run | Instance | What it shows |
|---|---|---|
| `stock_races` | 3 requests on the same two rows, every type that writes them, deletions | Types, no negative or overflowing stock, lock discipline, alerts, recorded differences, and refinement of `StockLedger` |
| `stock_tenants` | 2 requests of two companies, any type and any choice of locations, empty and stocked warehouses, deletions | Nothing crosses tenants, and a location is never deleted under an entry or under a movement that names it as what it used. |
| `stock_progress` | 3 requests: opposite transfers and a departure, with fairness | Every request is answered, through a deadlock if need be. |
| `counts_races` | 1 count, 2 locations, 2 lines, 3 calls at once, one of another company | What holds although no handler looks again. |
| `counts_serial` | 2 companies with a count and a location each, one call at a time | The handlers implement `CountLifecycle`; lines keep their location. |
| `counts_final` | 2 calls at once | Counterexample, finding 1. |
| `sessions_time` | 3 requests of one user, logged in on one device, 2.5 seconds | A logout holds as long as its token would, unless a refresh was already under way; a deactivation counts for every later request; no session key lapses before its refresh tokens do; only a lost login leaves a counter undated. |
| `warehouses_races` | A screen with two requests in flight over a path of four levels, beside a caller of its company or of another | The tree is whole, siblings differ, nothing read or written crosses companies, a button is disabled exactly while its request is unanswered, and a write lands under the parents that are shown. |
| `catalogue_races` | 3 of 24 requests of a superadmin and two companies that meet on one row each | Unique identities, whole creations, references within the company, files behind the uploads rows name, audit and writes within the company. |
| `catalogue_brands` | 2 requests | Counterexample, finding 2. |
| `web_session` | 2 requests of a page, a login or logout, two loads, two accounts of different roles, with fairness | One refresh at a time; retries with newer tokens; the user on the screen is the token's; redirects end; every request ends. |
| `web_screens` | One open page of seven, 2 warehouses, 2 locations, 2 products, 2 counts, 2 rows | No spinner or button waits for nothing; lists follow their filters; nothing is sent twice; success is whole; places follow the choices they were offered under. |

The largest runs have 1,866,939 (`sessions_time`), 1,014,754 (`catalogue_races`),
732,968 (`warehouses_races`) and 653,858 (`web_screens`) distinct states and
take one to three minutes each with two workers.

Bounds. Each request is made once: a repeated call is another request. Three
requests are what the races need: two that conflict and one that sees both or
queues behind them; two locations are the two rows of a transfer. `MaxQty` is 2
so that the column overflows within reach, and `MinStock` is 1 so that low stock
is reached and left. `RETURN` has the effect of `INBOUND` and occurs in
`stock_tenants`. `Bodies`, `InitialStocks`, `Quantities`, `LineIds`, `InFlight`,
`Calls`, `FirstTree`, `Typed`, `MaxRequests`, `Urls`, `LastPage`, `MaxCalls`,
`MaxLines`, `MaxSubmissions`, `OpenPages` and `BrowsedPages` are bounds of the
instances and say so where they are declared. Two lines are enough for
`counts_races`: a pair is what uniqueness compares, and one that is read and one
that is added is what completion misses. In `counts_serial` a line that is
removed uses up its id. In `sessions_time` an access token lives one second and
a refresh token two, so that both expire within `MaxClock`; three requests are a
login or refresh, the logout of what it issued, and a use of it. In
`warehouses_races` three requests are a write on the screen and the loading of
two lists around it, or a write elsewhere between them; what a subscriber sends
by itself is not counted. In `catalogue_races` a third request is what may
remove or rename between the look-up and the write of the second. In
`web_session` the URL that is opened is `admin`, which one account may see and
the other may not, and which may be disabled; `RedirectsEnd` quantifies over all
roles and routes by itself. In `web_screens` two requests in flight are what it
takes to be overtaken; the forms of two lines and two submissions are what a
partial success and a repetition take; expeditions behave as receptions with the
location on the other side and are left out of `OpenPages`, and the list, being
the same on every page, is browsed on the one that has filters, pages and a
search, `stock`.

Symmetry. Requests are interchangeable in the stock runs without liveness, and
the two locations as well where `Bodies` and `InitialStocks` are closed under
swapping them (`stock_races`); the properties name neither. In `counts_races` the
callers of one company, the locations of one warehouse and the line ids are
interchangeable; in the sessions and the catalogue the requests; on the
warehouses screen its two slots; on the pages the two locations of one aisle and
the two rows. `stock_progress` and `web_session` check liveness and use no
symmetry.

Fairness is assumed in two runs only. `stock_progress`: weak fairness of each
request's next statement, because the event loop runs every continuation and a
statement that waits for a lock is run when the lock is free; a lock is always
released, since an interactive Prisma transaction is limited to five seconds.
Weak fairness of `BreakDeadlock`: PostgreSQL's detector aborts a transaction of
every cycle. `web_session`: weak fairness of `Progress`, that some request is
answered, if only by an error, or some answer heard; as each is made once, that
is enough for all of them. No fairness is assumed of clients, deletions, expiry
or failures.

Deadlock is checked in every run. `Quiet` stutters when all requests of the
stock model or of the catalogue have been answered; in the others something can
always be done: another call, a toggle, a tick, a navigation, a click.

## 4. Theorems

All are proved for every number of requests, callers, rows and ids, every width
of the columns and every set of calls, from the named assumptions of the modules
only: scoping functions have their types, markers such as `NoLocation` are not
members of the sets they stand beside, lives and `MaxQty` are positive, the
rows there are at the start fit together, there are finitely many locations
(`LocationsAreFinite`: a sum over them has a value) and connections
(`CallersAreFinite`: they can be counted), and lists and names have some value to
begin with (`ListsHaveFilters`, `ThereAreNames`). `KeysOutliveTokens` is about a
deployment: `JWT_REFRESH_EXPIRES_IN` is at most the constant `REFRESH_TTL`, which
is its default. TLC evaluates the assumptions in
every run.

| Module | Theorems |
|---|---|
| `StockMovementsProofs` | `Invariance`, `NoNegativeStock`, `NoLostUpdate`, `Refinement`, `ScopeInvariance`, `TenantsAreIsolated`, `HistoryIsKept`, `AlertInvariance`, `LowStockIsAlerted`, `TotalsInvariance`, `TypesAreRight`, `DeltasAreRight` |
| `InventoryCountsProofs` | `Invariance`, `TypeCorrectness`, `OneLineEach`, `LinesStayInWarehouse`, `EveryEndIsAudited`, `NoCompletionWithoutStart`, `SerialRefinement` |
| `SessionsProofs` | `TypeCorrectness`, `LogoutsHold`, `DeactivationHolds`, `SessionsLast`, `CountersAreDated` |
| `WarehouseTreeProofs` | `Invariance`, `TypeCorrectness`, `NoOrphans`, `NamesAreUnique`, `ReadsAreIsolated`, `WritesAreIsolated` |
| `WarehousesScreenProofs` | `ScreenInvariance`, `FlagsStayHonest`, `AcceptedWritesLand`, `ScreenKeepsTree`, `ScreenStaysInCompany` |
| `CatalogueProofs` | `Invariance`, `TypeCorrectness`, `IdentitiesAreUnique`, `CreationIsWhole`, `ReferencesHold`, `ImagesHold`, `AuditIsIsolated`, `WritesAreIsolated` |
| `ClientSessionProofs` | `Invariance`, `RefreshIsShared`, `RetriesCarryTheNewToken`, `ScreenAndTokenAgree`, `GuardsAgree` |
| `WebScreensProofs` | `PagesInvariance`, `SpinnersAreAnswered`, `ListsFollow`, `NothingIsSentTwice`, `SuccessIsTrue`, `PlacesAreFollowed` |

**Stock.** `StockInRange` alone is not inductive: that a commit keeps it depends
on what the transaction has pending, which depends on the committed row not
having changed since. The invariant says who may change what: an unlocked row
has nothing pending (`UnlockedIsCommitted`); a locked row's pending value is the
committed one changed by its holder's movement (`PendingIsEffect`); a
transaction past a write holds that row (`WritersHoldLocks`); and a request is
in the branch of its type (`BranchMatchesType`). From these a `Commit` is one
`Apply` of the ledger, every other step leaves the ledger as it was, and the
range follows. A second invariant adds what a look-up has found (`ChecksHold`),
which nobody undoes because products, warehouses and locations do not change
company, and that a committed movement has left its rows (`MovementsHaveRows`),
which is what keeps its locations from being deleted. A third says who
answers for the total as it is (`Answered`): a committed movement that is yet to
look or was lost, one that has seen this very total, an alert with it, or nobody
as the stock is not low. A commit may change the total, but is yet to look. The
fourth is about the totals themselves, sums over a product's rows that the
community modules define by a fold. That such a sum exists, is a number, and
changes by as much as one of its values does is shown by induction on the subsets
of a finite set (`SubsetInduction`, from the well-foundedness of strict inclusion);
a transfer, which changes two values, then leaves it. With the effect of a commit
this makes the recorded difference the change of the total.

**Counts.** The handlers rely on checks that may be stale when they write. The
invariant lists which of them nobody can undo (the company of the count, the
warehouse of the location, that a count being completed was once started) and
ties the dates to the statuses (`DatesFollowStatus`). It says nothing of the
status still being the one that was checked, which is false: finding 1. One call
at a time it is true (`SerialInv`: the status, the lines that were counted, their
differences and the line that is named are as they were read), and then every
write is a step of `CountLifecycle`. The mapping chooses the line of a place of the
sheet; `OneLinePerLocation`, before and after the step, is what makes the choice
unique and a place change with its line only.

**Sessions.** The invariant relates both clocks: a token is dated in a second
that has begun when its key is written, so the key, which counts from that
moment, cannot be the first to go; a denylist entry counts whole seconds from
the current one, so it covers what is left of the token (`Denied`). A request
that was late for a logout is at most at the denylist until its token is stale
(`LateLogouts`). A session that is alive after its logout is traced to a refresh
that had found it before (`Excused`), step by step through `Flow`.

**Warehouses.** A handler that has passed a link of its path knows that the node
is under that parent or gone (`Link`): ids are not issued twice and no handler
moves a node (`NobodyMoves`). With the foreign keys this makes the owner of a
row the company that the first link was looked up with, however many deletions
and creations came in between. The screen is proved above that invariant, not
instead of it: a step of the screen is a step of the server, of a subscriber, or
of neither. A call that was accepted keeps all its links after its answer
(`AcceptedHold`), which is why a row of one parent that is clicked under another is
refused and not written. A flag is set exactly while one request of its dialogs is
unanswered; for that each request in a slot must have the subscriber that will
hear it (`SubscribersWait`), and a dialog must only be submitted while its flag is
down, whichever dialog raised it.

**Catalogue.** The invariant says of every statement what its handler may still
rely on (`FoundBy`): users and companies that stay in their company, labels that
may have gone but never come back as another's (`LabelFits`), products that
stay. Only a transaction under way has rows pending (`Pending`), so a creation
is seen whole. For the images, `FilesInv` is about the files no body has named
(`Ours`): such a file is named by no row but that of the product it was uploaded
for (`Attached`), so whoever removes it is an upload of the same product, which
has not answered.

**Client session.** A refresh is made once and heard once (`RefreshesAreOnce`),
no memory holds its token before (`TokensAreHeard`), and a login the API has not
carried out has named nothing (`UnservedIsUnknown`); hence a retry's token is
newer than the one refused, and the user set with a token is its session's.
`GuardsAgree` is about the tables of routes, roles and modules: whatever set of
modules is active, three redirects are enough, which is shown by cases.

**Pages.** The invariant ties each flag to the calls that will lower it. A call
has a tag, which tells a write no button waits for from one that a button does; a
flag that shows a spinner has some call of its tags, and one that disables a
button of the edited rows, or of a transfer, is set exactly while there is one,
and then just one. Every line of the last submission is registered or awaited
while the form is saving (`PostsOK`), so the last answer of a `forkJoin` finds the
others registered. A query that no other was sent after is the current one but for
a text that is due or was typed back (`Current`). The choices and options of a
form are of one branch (`Coherent`) or an answer has mixed them; an answer to a
choice that still stands offers children of it, and every other step clears what
it does not keep (`CoherentKept`), so a form that is coherent when it is sent
names locations of its warehouse (`CoherentPosts`). Most steps touch the calls of
one part of the page: `Same` says of which tags the calls are as they were, and a
part of the invariant is kept by every change of the calls that is the `Same` for
its tags. What that needs of sequences (appending a call, taking one out, dropping those of a dialog
that is closed, sending one for each line) is proved once, without an order:
any call may be answered next.

Type invariants of the counts, the tree, the sessions and the catalogue are
proved and not run. Only model-checked are `EveryRequestSettles` and
`EveryRequestEnds`: liveness under fairness, which needs ENABLED, is not within
reach of TLAPS. Every other property of a run that passes is the subject of a
theorem, `ImplementsLifecycle` under the condition of its run, `InFlight = 1`.

## 5. Findings

1. `counts_final`: the status is checked in one statement and the write, in
   another, does not ask for it again. Two calls that end a count can both pass
   the check; the second overwrites the terminal status, and a late `start`
   reopens the count. For the same reason a line may be deleted from a count
   that was started meanwhile, or be added to one whose lines `complete` has
   already read. An `updateMany` with the status in its `where`, as
   `decrementSourceStock` does with the quantity, would close them.
2. `catalogue_brands`: `brands.service.ts` answers that a brand in use cannot be
   removed, but the foreign key of `products.brand_id` is `ON DELETE SET NULL`:
   the brand is removed, and every product of it loses it. The category's key
   does restrict.

Five properties delimit a weakness instead of excluding it. `LogoutHolds` lets a
session survive its logout when a `refresh` that had read the key before the
logout stores it again afterwards. `CountersExpire` lets a failure counter have
no expiry when the process or the connection is lost between `INCR` and
`EXPIRE`, which the comment at `redis.service.ts:26` calls one atomic operation.
`ListFollowsFilters` is about a list whose rows are the answer to the last request:
an answer that is overtaken may leave rows of older filters, and a text that is
typed back within the debounce, after another request has sent the one in
between, leaves the rows of that one. `ImagesExist` is about names that uploads
give: a body may set `imageUrl` to any text, so a row may name no file, or
another row's, and the next upload removes what it names. `PlacesFollowChoices`
lets an answer to a choice that was changed since mix the places of two
warehouses, and leaves out the inventory page, where an action or a late detail
replaces the count and keeps the cascade, a change of warehouse keeps the zones
until new ones come, and a scan fills the cascade in three steps; there the API
alone refuses a location of another warehouse (`LinesKeepTheirLocation`).

Seen in the models, without a document to measure them against: a logout whose
token has expired is refused and leaves a session that a reload restores; a
retry that fails for a reason of its own clears the session; a form of several
lines, of which one failed, applies the others again when it is sent again; a
socket stays in the room of the account that opened it; a toggle that reads a
flag and writes its negation is one change when it is made twice at once. They
are listed as hazards with a note.

## 6. Not modelled

Listings, the dashboard and the overview only read. Sockets after their
handshake, and the camera of the scanner, live inside libraries on both ends;
what reaches the pages from them is modelled where it arrives (`EmitLowStock`,
`ScanLocation`, `FillLine`). Formatting, validation messages, Swagger,
throttling, templates, styles, the CSV of exports and delivery notes, end-to-end
tests, seeds, and build, CI and deployment files have no state a property would
be about. The tabs of the administration, which load a list when they are first
shown, and filters applied to rows already in memory are left out of
`EditDialogs` and `PageLists`. Of the database, only what the services rely on is
modelled: columns, unique indexes, foreign keys, row locks, READ COMMITTED.
`MinStock` is a constant: a `PATCH` of `products.minStock` between the start of a movement, which
reads it, and its check after the commit is left out, and with it an alert by the
older limit. Requests that a form no longer awaits after an error may still be
carried out; `OneSubmission` counts those it awaits.
