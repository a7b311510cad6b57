CONSTANTS
    tab1 = tab1
    tab2 = tab2
    visitor = visitor
    owner = owner
    Tabs = {tab1, tab2}
    Sessions = {visitor, owner}
    SessionOf <- TwoBrowsers
    Undefined = undefined
    Admin = admin
    Users = {admin, guest}
    Mails = {mail1, mail2}
    MaxMessages = 3
    MaxRemoves = 2
SPECIFICATION Spec
INVARIANTS
    TypeOK
    MessagesKept
PROPERTIES
    ImplementsBoard
