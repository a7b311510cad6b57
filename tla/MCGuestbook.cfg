CONSTANTS
    tab1 = tab1
    tab2 = tab2
    owner = owner
    undefined = undefined
    admin = admin
    guest = guest
    Tabs <- MCTabs
    Sessions = {owner}
    SessionOf <- OneBrowser
    Undefined = undefined
    Admin = admin
    Users = {admin, guest}
    MaxSubmissions = 3
SPECIFICATION FairSpec
INVARIANTS
    TypeOK
    Conservation
    StalePageAgrees
    ShownInPostingOrder
    RedirectPending
PROPERTIES
    DeletesShownOrNewer
    PosterSeesComment
    ImplementsBoard
