SPECIFICATION FairSpec
CONSTANTS
    ana = ana  ben = ben  phone = phone
    q1 = q1  q2 = q2  q3 = q3
    load1 = load1  load2 = load2
    Accounts = {ana, ben}
    RoleOf <- MCRoleOf
    First = phone
    FirstAccount = ana
    ApiSlots = {q1, q2}
    AuthSlots = {q3}
    Urls <- MCUrls
    Loads = {load1, load2}
    Configs <- MCConfigs
    None = None
INVARIANTS
    OneRefresh
    RetriesAreNewer
    ScreenIsTheUsers
    RedirectsEnd
PROPERTY
    EveryRequestEnds
