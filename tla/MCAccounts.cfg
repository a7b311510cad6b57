CONSTANTS
    tab1 = tab1
    tab2 = tab2
    tab3 = tab3
    visitor = visitor
    owner = owner
    Tabs = {tab1, tab2, tab3}
    Sessions = {visitor, owner}
    SessionOf <- TwoBrowsers
    Names = {admin, guest}
    Passwords = {secret, admin}
    Undefined = undefined
    Admin = admin
    AdminPassword = admin
    MaxRemovals = 1
SPECIFICATION Spec
SYMMETRY SameBrowser
INVARIANTS
    TypeOK
    OneOkPerAccount
    AdminExists
    SessionBacked
PROPERTIES
    ImplementsEntrance
