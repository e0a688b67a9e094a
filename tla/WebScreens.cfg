SPECIFICATION Spec
CONSTANTS
    w1 = w1  w2 = w2  z1 = z1  z2 = z2  a1 = a1  a2 = a2  l1 = l1  l2 = l2
    i1 = i1  i2 = i2  p1 = p1  p2 = p2  c1 = c1  c2 = c2
    Filters = {"all", "some"}
    Texts = {"x", "y"}
    LastPage = 2
    MaxCalls = 2
    None = None
    Warehouses = {w1, w2}
    Zones = {z1, z2}
    Aisles = {a1, a2}
    Locations = {l1, l2}
    Parent <- MCParent
    Products = {p1, p2}
    StockAt <- MCStockAt
    MaxLines = 2
    MaxSubmissions = 2
    Counts = {c1, c2}
    CountWarehouse <- MCCountWarehouse
    OpenPages = {"stock", "movements", "receptions", "inventory",
                 "products", "accounts", "labels"}
    Items = {i1, i2}
    BrowsedPages = {"stock"}
SYMMETRY MCSymmetry
INVARIANTS
    WaitingEnds
    ListFollowsFilters
    WritesAreSingle
    SuccessIsWhole
PROPERTY PlacesFollowChoices
