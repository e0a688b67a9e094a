SPECIFICATION ScreenSpec
CONSTANTS
    acme = acme  globex = globex
    w1 = w1  w2 = w2  z1 = z1  a1 = a1  l1 = l1  n1 = n1
    red = red  blue = blue
    tab1 = tab1  tab2 = tab2  api = api
    Companies = {acme, globex}
    Ids = {w1, w2, z1, a1, l1, n1}
    Names = {red, blue}
    Slots = {tab1, tab2, api}
    ScreenSlots = {tab1, tab2}
    UserCompany = acme
    Typed = {blue}
    MaxRequests = 3
    Calls <- MCCalls
    FirstTree <- MCTree
    NoRow = NoRow
    NoCall = NoCall
    NoModal = NoModal
    Nothing = Nothing
SYMMETRY TabSymmetry
INVARIANTS
    TreeIsWhole
    SiblingsDiffer
    AnswersStayInCompany
    FlagsAreHonest
    WritesLandWhereShown
PROPERTY
    WritesStayInCompany
