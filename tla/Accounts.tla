------------------------------ MODULE Accounts ------------------------------
(***************************************************************************)
(* Accounts and sessions: the db_login server and the pages login,         *)
(* login_page, create_account and index.                                   *)
(*                                                                         *)
(* A call of db_login is atomic, but an event of a page is not: the reply  *)
(* of the server is in the hands of the page before the page tells the     *)
(* session who its user is, and other tabs, browsers and the operator may  *)
(* act in between.  The front page starts the server and creates the       *)
(* admin's account in two steps as well.                                   *)
(*                                                                         *)
(* Stopping the server, and losing the table with it, is in DbServers.     *)
(***************************************************************************)
EXTENDS MnesiaTable

CONSTANTS
    Tabs,           \* browser tabs
    Sessions,       \* browser sessions
    SessionOf,      \* the session a tab belongs to
    Names,          \* user names
    Passwords,
    Undefined,      \* wf:user() of a session nobody logged in
    Admin,          \* the name "admin"
    AdminPassword,  \* the password "admin"
    MaxRemovals     \* bound: removals of one account by the operator

ASSUME SessionAssumption == SessionOf \in [Tabs -> Sessions]
ASSUME NamesAssumption == Undefined \notin Names /\ Admin \in Names
ASSUME PasswordsAssumption == AdminPassword \in Passwords
ASSUME RemovalsAssumption == MaxRemovals \in Nat

VARIABLES
    started,   \* is db_login up?
    login,     \* the mnesia table: user name -> hash of the password
    user,      \* session -> wf:user()
    page,      \* tab -> the page it shows and the user it was rendered for
    request,   \* tab -> the event or page that is being handled for it
    visited,   \* has a front page been rendered to its end?
    oks,       \* name -> create_account calls answered ok
    removals,  \* name -> accounts of that name that were removed
    basis      \* session -> the ticket its user was set with

vars == <<started, login, user, page, request, visited, oks, removals, basis>>

history == <<visited, oks, removals>>
----------------------------------------------------------------------------
(* db_login *)

(* Mutant of Hash: the password itself is stored. *)
HashForgotten(password) == password

(* crypto:hash, taken to be free of collisions. *)
Hash(password) == [sha |-> password]

(* Mutant of create_account_reply: does not look the name up first. *)
ReplyAlwaysOk(tab, name) == "ok"

(* The answer to create_account. *)
create_account_reply(tab, name) ==
    IF Read(tab, name) = {} THEN "ok" ELSE "already_inserted"

(* The table after create_account. *)
create_account_write(tab, name, password) ==
    IF create_account_reply(tab, name) = "ok"
    THEN Write(tab, name, Hash(password))
    ELSE tab

(* The answer to attempt_login. *)
attempt_login(tab, name, password) == Read(tab, name) = {Hash(password)}
----------------------------------------------------------------------------
(* The pages *)

Page(name, u) == [name |-> name, user |-> u]

(* No page of this module, or none at all. *)
Elsewhere == Page("elsewhere", Undefined)

(* login:body() shows its form to who is not logged in. *)
LoginForm(p) == p.name = "login" /\ p.user = Undefined

(* The buttons and links that log out: login:body() and login_page:body()  *)
(* for any user, admin_place() of the front page for the admin.            *)
LogoutButton(p) ==
    \/ p.name \in {"login", "login_page"} /\ p.user # Undefined
    \/ p.name = "index" /\ p.user = Admin

(* Why a session may have its user: the name, the password that was given  *)
(* for it, and how many accounts of that name had been removed by then.    *)
Ticket(name, password) ==
    [name |-> name, password |-> password, removals |-> removals[name]]

NoTicket == [name |-> Undefined, password |-> Undefined, removals |-> 0]

(* What is being handled for a tab: nothing, the front page between        *)
(* db_login:start() and create_account, or an event between the answer of  *)
(* db_login and wf:user(Username).                                         *)
Request(at, ticket) == [at |-> at, ticket |-> ticket]

None == Request("none", NoTicket)
----------------------------------------------------------------------------
Init ==
    /\ started = FALSE
    /\ login = EmptyTable
    /\ user = [s \in Sessions |-> Undefined]
    /\ page = [t \in Tabs |-> Elsewhere]
    /\ request = [t \in Tabs |-> None]
    /\ visited = FALSE
    /\ oks = [n \in Names |-> 0]
    /\ removals = [n \in Names |-> 0]
    /\ basis = [s \in Sessions |-> NoTicket]

(* A tab loads login, login_page or create_account, which call no server. *)
body(t, name) ==
    /\ request[t] = None
    /\ page' = [page EXCEPT ![t] = Page(name, user[SessionOf[t]])]
    /\ UNCHANGED <<started, login, user, request, history, basis>>

(* index:body() calls db_login:start(); the servers it starts besides are  *)
(* in DbServers. *)
index_start(t) ==
    /\ request[t] = None
    /\ started' = TRUE
    /\ page' = [page EXCEPT ![t] = Page("index", user[SessionOf[t]])]
    /\ request' = [request EXCEPT ![t] = Request("index", NoTicket)]
    /\ UNCHANGED <<login, user, history, basis>>

(* The effect of a create_account call on the table and the history. *)
Create(name, password) ==
    /\ login' = create_account_write(login, name, password)
    /\ oks' = IF create_account_reply(login, name) = "ok"
              THEN [oks EXCEPT ![name] = @ + 1]
              ELSE oks

(* Mutant of index_create_admin: the account is forgotten. *)
IndexWithoutAdmin(t) ==
    /\ request[t].at = "index"
    /\ visited' = TRUE
    /\ request' = [request EXCEPT ![t] = None]
    /\ UNCHANGED <<started, login, user, page, oks, removals, basis>>

(* index:body() calls create_account("admin", "admin") on every visit and  *)
(* ignores the answer.                                                     *)
index_create_admin(t) ==
    /\ request[t].at = "index"
    /\ Create(Admin, AdminPassword)
    /\ visited' = TRUE
    /\ request' = [request EXCEPT ![t] = None]
    /\ UNCHANGED <<started, user, page, removals, basis>>

(* event(login) up to the answer of attempt_login.  On false the page      *)
(* shows an alert and stays as it is; without a server the event crashes   *)
(* and changes nothing either.                                             *)
event_login(t, name, password) ==
    /\ request[t] = None
    /\ LoginForm(page[t])
    /\ started
    /\ attempt_login(login, name, password)
    /\ request' = [request EXCEPT ![t] = Request("answered", Ticket(name, password))]
    /\ UNCHANGED <<started, login, user, page, history, basis>>

(* Mutant of event_save: the answer is not matched against ok. *)
SaveWithoutMatch(t, name, password) ==
    /\ request[t] = None
    /\ page[t].name = "create_account"
    /\ started
    /\ Create(name, password)
    /\ request' = [request EXCEPT ![t] = Request("answered", Ticket(name, password))]
    /\ UNCHANGED <<started, user, page, visited, removals, basis>>

(* event(save) of create_account up to the answer of the server.  With     *)
(* already_inserted the match "ok = ..." fails and the event crashes; the  *)
(* page stays.                                                             *)
event_save(t, name, password) ==
    /\ request[t] = None
    /\ page[t].name = "create_account"
    /\ started
    /\ Create(name, password)
    /\ create_account_reply(login, name) = "ok"
    /\ request' = [request EXCEPT ![t] = Request("answered", Ticket(name, password))]
    /\ UNCHANGED <<started, user, page, visited, removals, basis>>

(* The rest of either event: wf:user(Username), and the tab goes home. *)
set_user(t) ==
    /\ request[t].at = "answered"
    /\ user' = [user EXCEPT ![SessionOf[t]] = request[t].ticket.name]
    /\ basis' = [basis EXCEPT ![SessionOf[t]] = request[t].ticket]
    /\ request' = [request EXCEPT ![t] = None]
    /\ page' = [page EXCEPT ![t] = Elsewhere]
    /\ UNCHANGED <<started, login, history>>

(* event(logout): the session forgets its user, whoever that is by now,    *)
(* and the tab goes home.                                                  *)
event_logout(t) ==
    /\ request[t] = None
    /\ LogoutButton(page[t])
    /\ user' = [user EXCEPT ![SessionOf[t]] = Undefined]
    /\ basis' = [basis EXCEPT ![SessionOf[t]] = NoTicket]
    /\ page' = [page EXCEPT ![t] = Elsewhere]
    /\ UNCHANGED <<started, login, request, history>>

(* The operator calls db_login:remove from the Erlang shell; no page does. *)
(* Removing a name that has no account changes nothing.                    *)
remove(name) ==
    /\ started
    /\ name \in DOMAIN login
    /\ removals[name] < MaxRemovals
    /\ login' = Delete(login, name)
    /\ removals' = [removals EXCEPT ![name] = @ + 1]
    /\ UNCHANGED <<started, user, page, request, visited, oks, basis>>

Next ==
    \/ \E t \in Tabs :
        \/ \E name \in {"login", "login_page", "create_account"} : body(t, name)
        \/ index_start(t)
        \/ index_create_admin(t)
        \/ \E name \in Names, password \in Passwords :
            event_login(t, name, password) \/ event_save(t, name, password)
        \/ set_user(t)
        \/ event_logout(t)
    \/ \E name \in Names : remove(name)

Spec == Init /\ [][Next]_vars
----------------------------------------------------------------------------
Hashes == [sha : Passwords]

Tickets == [name : Names, password : Passwords, removals : Nat]

PageNames == {"elsewhere", "index", "login", "login_page", "create_account"}

(* Type invariant: only accounts with a hashed password are stored, and    *)
(* only an event that is being answered carries a ticket.                  *)
TypeOK ==
    /\ started \in BOOLEAN
    /\ DOMAIN login \subseteq Names
    /\ login \in [DOMAIN login -> Hashes]
    /\ user \in [Sessions -> Names \cup {Undefined}]
    /\ page \in [Tabs -> [name : PageNames, user : Names \cup {Undefined}]]
    /\ request \in [Tabs -> [at : {"none", "index", "answered"},
                             ticket : Tickets \cup {NoTicket}]]
    /\ \A t \in Tabs : request[t].ticket \in Tickets <=> request[t].at = "answered"
    /\ visited \in BOOLEAN
    /\ oks \in [Names -> Nat]
    /\ removals \in [Names -> Nat]
    /\ basis \in [Sessions -> Tickets \cup {NoTicket}]

(* A ticket holds good: the account has the password that was given, or    *)
(* the account it was given for was removed in the meantime.               *)
Backed(ticket) ==
    \/ ticket.removals < removals[ticket.name]
    \/ /\ ticket.name \in DOMAIN login
       /\ login[ticket.name] = Hash(ticket.password)

(* Nobody's account is changed under a session: the user of a session is   *)
(* the one it gave a name and a password for, and the account still has    *)
(* that password unless the operator removed it, whatever other tabs and   *)
(* browsers registered between the answer of db_login and wf:user().       *)
SessionBacked ==
    \A s \in Sessions : user[s] # Undefined =>
        basis[s].name = user[s] /\ Backed(basis[s])

(* create_account promises a name to one caller at a time: of all the      *)
(* calls for a name, from the form and from the front page, as many were   *)
(* answered ok as there were accounts of that name.                        *)
OneOkPerAccount ==
    \A name \in Names :
        oks[name] = removals[name] + Cardinality(DOMAIN login \cap {name})

(* Once a front page has been rendered there is an admin's account, even   *)
(* if a visitor registered the name first, until the operator removes it.  *)
AdminExists == visited => Admin \in DOMAIN login \/ removals[Admin] > 0

(* For the abstract specification, the passwords behind a table of hashes, *)
(* and the names and passwords that db_login has answered for while the    *)
(* user is not set yet.                                                    *)
Unhashed(tab) == [name \in DOMAIN tab |-> tab[name].sha]
Answered == [t \in Tabs |-> [name |-> request[t].ticket.name,
                             password |-> request[t].ticket.password]]

Abstract == INSTANCE Entrance WITH Desks <- Tabs,
                                   Rooms <- Sessions,
                                   RoomOf <- SessionOf,
                                   Nobody <- Undefined,
                                   accounts <- Unhashed(login),
                                   accepted <- Answered,
                                   inside <- user

(* Accounts and sessions implement the abstract entrance: a session gets a *)
(* name only from one of its own tabs that opened the account or gave its  *)
(* password, and no step but the operator's removal changes an account,    *)
(* although wf:user() is set one step after db_login has answered.         *)
ImplementsEntrance == Abstract!Spec
=============================================================================
