SPECIFICATION FairSpec
CONSTANTS
    locA = locA  locB = locB  bolt = bolt  nut = nut
    north = north  south = south  acme = acme  globex = globex
    r1 = r1  r2 = r2  r3 = r3
    Requests = {r1, r2, r3}
    Products = {bolt}
    Warehouses = {north}
    Locations = {locA, locB}
    Companies = {acme}
    MaxQty = 2
    NoLocation = NoLocation
    NoMovement = NoMovement
    NoRequest = NoRequest
    ProductCompany <- MCProductCompany
    WarehouseCompany <- MCWarehouseCompany
    LocationWarehouse <- OneWarehouse
    Caller <- MCCaller
    MinStock <- MCMinStock
    Bodies <- CrossingBodies
    InitialStocks <- CrossingStocks
PROPERTY
    EveryRequestSettles
