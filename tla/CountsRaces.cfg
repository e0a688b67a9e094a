SPECIFICATION Spec
CONSTANTS
    acme = acme  globex = globex  north = north  south = south
    count1 = count1  count2 = count2
    locA = locA  locB = locB  locC = locC
    line1 = line1  line2 = line2  line3 = line3
    ana = ana  bo = bo  cy = cy
    Counts = {count1}
    Locations = {locA, locB}
    Quantities = {1}
    LineIds = {line1, line2}
    Callers = {ana, bo, cy}
    InFlight = 3
    Warehouses = {north, south}
    Companies = {acme, globex}
    NoLine = NoLine
    NoCall = NoCall
    Null = Null
    WarehouseCompany <- MCWarehouseCompany
    CountWarehouse <- MCCountWarehouse
    LocationWarehouse <- MCLocationWarehouse
    CallerCompany <- MCCallerCompany
SYMMETRY RacingSymmetry
INVARIANTS
    OneLinePerLocation
    TerminalStatusIsAudited
    CompletedWasStarted
