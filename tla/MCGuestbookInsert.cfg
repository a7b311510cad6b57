CONSTANTS
    tab1 = tab1
    tab2 = tab2
    owner = owner
    undefined = undefined
    admin = admin
    guest = guest
    Tabs = {tab1}
    Sessions = {owner}
    SessionOf <- OneTab
    Undefined = undefined
    Admin = admin
    Users = {admin}
    MaxSubmissions = 3
SPECIFICATION Spec
INVARIANTS
    EveryCommentInserted
