SPECIFICATION Spec
CONSTANTS
    locA = locA  locB = locB  bolt = bolt  nut = nut
    north = north  south = south  acme = acme  globex = globex
    r1 = r1  r2 = r2  r3 = r3
    Requests = {r1, r2}
    Products = {bolt, nut}
    Warehouses = {north, south}
    Locations = {locA, locB}
    Companies = {acme, globex}
    MaxQty = 2
    NoLocation = NoLocation
    NoMovement = NoMovement
    NoRequest = NoRequest
    ProductCompany <- MCProductCompany
    WarehouseCompany <- MCWarehouseCompany
    LocationWarehouse <- TwoWarehouses
    Caller <- TwoCallers
    MinStock <- MCMinStock
    Bodies <- MixedBodies
    InitialStocks <- MixedStocks
INVARIANTS
    HistoryKeepsLocation
    TenantIsolation
