-------------------------- MODULE Accounts_proofs --------------------------
(***************************************************************************)
(* Proofs about accounts and sessions for any number of tabs, browsers,    *)
(* names, passwords and removals.                                          *)
(***************************************************************************)
EXTENDS Accounts, FiniteSetTheorems, TLAPS

(* What a call of create_account does: nothing to a name that is taken,    *)
(* else one row more and one ok more.                                      *)
LEMMA CreateStep ==
  ASSUME TypeOK, NEW name \in Names, NEW password \in Passwords,
         Create(name, password)
  PROVE  \/ /\ name \in DOMAIN login
            /\ create_account_reply(login, name) # "ok"
            /\ login' = login
            /\ oks' = oks
         \/ /\ name \notin DOMAIN login
            /\ create_account_reply(login, name) = "ok"
            /\ DOMAIN login' = DOMAIN login \cup {name}
            /\ login' = [k \in DOMAIN login' |-> login'[k]]
            /\ login'[name] = Hash(password)
            /\ \A k \in DOMAIN login : login'[k] = login[k]
            /\ oks' = [oks EXCEPT ![name] = @ + 1]
  <1>1. Read(login, name) = {} <=> name \notin DOMAIN login
    BY DEF Read
  <1>2. CASE name \in DOMAIN login
    BY <1>1, <1>2 DEF Create, create_account_reply, create_account_write
  <1>3. CASE name \notin DOMAIN login
    <2>1. create_account_reply(login, name) = "ok"
      BY <1>1, <1>3 DEF create_account_reply
    <2>2. login' = Write(login, name, Hash(password))
      BY <2>1 DEF Create, create_account_write
    <2> QED
      BY <1>3, <2>1, <2>2 DEF Create, Write
  <1> QED
    BY <1>2, <1>3

(* Everything is empty at first. *)
LEMMA TypeInit == Init => TypeOK
  <1> SUFFICES ASSUME Init PROVE TypeOK
    OBVIOUS
  <1>1. NoTicket \notin Tickets
    BY NamesAssumption DEF NoTicket, Tickets
  <1>2. DOMAIN login = {} /\ login \in [DOMAIN login -> Hashes]
    BY DEF Init, EmptyTable
  <1>3. \A t \in Tabs : request[t] = None
    BY DEF Init
  <1>4. None.at = "none" /\ None.ticket = NoTicket
    BY DEF None, Request
  <1>5. request \in [Tabs -> [at : {"none", "index", "answered"}, ticket : Tickets \cup {NoTicket}]]
    BY DEF Init, None, Request
  <1>6. \A t \in Tabs : request[t].ticket \in Tickets <=> request[t].at = "answered"
    BY <1>1, <1>3, <1>4
  <1>7. page \in [Tabs -> [name : PageNames, user : Names \cup {Undefined}]]
    BY DEF Init, Elsewhere, Page, PageNames
  <1> QED
    BY <1>2, <1>5, <1>6, <1>7 DEF Init, TypeOK

(* The type of the table and of the oks after create_account. *)
LEMMA CreateType ==
  ASSUME TypeOK, NEW name \in Names, NEW password \in Passwords,
         Create(name, password)
  PROVE  /\ DOMAIN login' \subseteq Names
         /\ login' \in [DOMAIN login' -> Hashes]
         /\ oks' \in [Names -> Nat]
  <1>1. Hash(password) \in Hashes
    BY DEF Hash, Hashes
  <1>2. CASE name \in DOMAIN login
    BY <1>2, CreateStep DEF TypeOK
  <1>3. CASE name \notin DOMAIN login
    <2>1. /\ DOMAIN login' = DOMAIN login \cup {name}
          /\ login' = [k \in DOMAIN login' |-> login'[k]]
          /\ login'[name] = Hash(password)
          /\ \A k \in DOMAIN login : login'[k] = login[k]
          /\ oks' = [oks EXCEPT ![name] = @ + 1]
      BY <1>3, CreateStep
    <2>2. /\ \A k \in DOMAIN login : login[k] \in Hashes
          /\ DOMAIN login \subseteq Names
      BY DEF TypeOK
    <2>3. \A k \in DOMAIN login' : login'[k] \in Hashes
      BY <1>1, <2>1, <2>2
    <2>4. login' \in [DOMAIN login' -> Hashes]
      BY ONLY <2>1, <2>3
    <2>5. oks' \in [Names -> Nat]
      BY <2>1 DEF TypeOK
    <2> QED
      BY <2>1, <2>2, <2>4, <2>5
  <1> QED
    BY <1>2, <1>3

(* A ticket is well typed. *)
LEMMA TicketType ==
  ASSUME TypeOK, NEW name \in Names, NEW password \in Passwords
  PROVE  Ticket(name, password) \in Tickets
  BY DEF TypeOK, Ticket, Tickets

(* Handling a request changes it between its three forms. *)
LEMMA RequestType ==
  ASSUME TypeOK, NEW t \in Tabs, NEW r,
         \/ r = None
         \/ r = Request("index", NoTicket)
         \/ \E ticket \in Tickets : r = Request("answered", ticket),
         request' = [request EXCEPT ![t] = r]
  PROVE  /\ request' \in [Tabs -> [at : {"none", "index", "answered"},
                                   ticket : Tickets \cup {NoTicket}]]
         /\ \A u \in Tabs : request'[u].ticket \in Tickets <=> request'[u].at = "answered"
  <1>1. NoTicket \notin Tickets
    BY NamesAssumption DEF NoTicket, Tickets
  <1>2. /\ r \in [at : {"none", "index", "answered"}, ticket : Tickets \cup {NoTicket}]
        /\ r.ticket \in Tickets <=> r.at = "answered"
    BY <1>1 DEF None, Request
  <1>3. \A u \in Tabs : request'[u] = IF u = t THEN r ELSE request[u]
    BY DEF TypeOK
  <1> QED
    BY <1>2, <1>3 DEF TypeOK

(* Every step keeps the types. *)
LEMMA TypeStep == TypeOK /\ [Next]_vars => TypeOK'
  <1> SUFFICES ASSUME TypeOK, [Next]_vars PROVE TypeOK'
    OBVIOUS
  <1>1. ASSUME NEW t \in Tabs, NEW name \in {"login", "login_page", "create_account"},
               body(t, name)
        PROVE  TypeOK'
    <2>1. Page(name, user[SessionOf[t]]) \in [name : PageNames, user : Names \cup {Undefined}]
      BY SessionAssumption DEF TypeOK, Page, PageNames
    <2> QED
      BY <1>1, <2>1 DEF TypeOK, body, history
  <1>2. ASSUME NEW t \in Tabs, index_start(t) PROVE TypeOK'
    <2>1. Page("index", user[SessionOf[t]]) \in [name : PageNames, user : Names \cup {Undefined}]
      BY SessionAssumption DEF TypeOK, Page, PageNames
    <2>2. /\ request' \in [Tabs -> [at : {"none", "index", "answered"},
                                    ticket : Tickets \cup {NoTicket}]]
          /\ \A u \in Tabs : request'[u].ticket \in Tickets <=> request'[u].at = "answered"
      BY <1>2, RequestType DEF index_start
    <2> QED
      BY <1>2, <2>1, <2>2 DEF TypeOK, index_start, history
  <1>3. ASSUME NEW t \in Tabs, index_create_admin(t) PROVE TypeOK'
    <2>1. /\ DOMAIN login' \subseteq Names
          /\ login' \in [DOMAIN login' -> Hashes]
          /\ oks' \in [Names -> Nat]
      BY <1>3, CreateType, NamesAssumption, PasswordsAssumption DEF index_create_admin
    <2>2. /\ request' \in [Tabs -> [at : {"none", "index", "answered"},
                                    ticket : Tickets \cup {NoTicket}]]
          /\ \A u \in Tabs : request'[u].ticket \in Tickets <=> request'[u].at = "answered"
      BY <1>3, RequestType DEF index_create_admin
    <2> QED
      BY <1>3, <2>1, <2>2 DEF TypeOK, index_create_admin
  <1>4. ASSUME NEW t \in Tabs, NEW name \in Names, NEW password \in Passwords,
               event_login(t, name, password)
        PROVE  TypeOK'
    <2>1. /\ request' \in [Tabs -> [at : {"none", "index", "answered"},
                                    ticket : Tickets \cup {NoTicket}]]
          /\ \A u \in Tabs : request'[u].ticket \in Tickets <=> request'[u].at = "answered"
      BY <1>4, RequestType, TicketType DEF event_login
    <2> QED
      BY <1>4, <2>1 DEF TypeOK, event_login, history
  <1>5. ASSUME NEW t \in Tabs, NEW name \in Names, NEW password \in Passwords,
               event_save(t, name, password)
        PROVE  TypeOK'
    <2>1. /\ DOMAIN login' \subseteq Names
          /\ login' \in [DOMAIN login' -> Hashes]
          /\ oks' \in [Names -> Nat]
      BY <1>5, CreateType DEF event_save
    <2>2. /\ request' \in [Tabs -> [at : {"none", "index", "answered"},
                                    ticket : Tickets \cup {NoTicket}]]
          /\ \A u \in Tabs : request'[u].ticket \in Tickets <=> request'[u].at = "answered"
      BY <1>5, RequestType, TicketType DEF event_save
    <2> QED
      BY <1>5, <2>1, <2>2 DEF TypeOK, event_save
  <1>6. ASSUME NEW t \in Tabs, set_user(t) PROVE TypeOK'
    <2>1. request[t].ticket \in Tickets /\ request[t].ticket.name \in Names
      BY <1>6 DEF TypeOK, set_user, Tickets
    <2>2. /\ request' \in [Tabs -> [at : {"none", "index", "answered"},
                                    ticket : Tickets \cup {NoTicket}]]
          /\ \A u \in Tabs : request'[u].ticket \in Tickets <=> request'[u].at = "answered"
      BY <1>6, RequestType DEF set_user
    <2>3. page' \in [Tabs -> [name : PageNames, user : Names \cup {Undefined}]]
      BY <1>6 DEF TypeOK, set_user, Elsewhere, Page, PageNames
    <2>4. user' \in [Sessions -> Names \cup {Undefined}]
      BY <1>6, <2>1 DEF TypeOK, set_user
    <2>5. basis' \in [Sessions -> Tickets \cup {NoTicket}]
      BY <1>6, <2>1 DEF TypeOK, set_user
    <2> QED
      BY <1>6, <2>2, <2>3, <2>4, <2>5 DEF TypeOK, set_user, history
  <1>7. ASSUME NEW t \in Tabs, event_logout(t) PROVE TypeOK'
    <2>1. page' \in [Tabs -> [name : PageNames, user : Names \cup {Undefined}]]
      BY <1>7 DEF TypeOK, event_logout, Elsewhere, Page, PageNames
    <2>2. user' \in [Sessions -> Names \cup {Undefined}]
      BY <1>7 DEF TypeOK, event_logout
    <2>3. basis' \in [Sessions -> Tickets \cup {NoTicket}]
      BY <1>7 DEF TypeOK, event_logout
    <2> QED
      BY <1>7, <2>1, <2>2, <2>3 DEF TypeOK, event_logout, history
  <1>8. ASSUME NEW name \in Names, remove(name) PROVE TypeOK'
    <2>1. /\ DOMAIN login' \subseteq Names
          /\ login' \in [DOMAIN login' -> Hashes]
      BY <1>8 DEF TypeOK, remove, Delete
    <2> QED
      BY <1>8, <2>1 DEF TypeOK, remove
  <1>9. CASE UNCHANGED vars
    BY <1>9 DEF TypeOK, vars
  <1> QED
    BY <1>1, <1>2, <1>3, <1>4, <1>5, <1>6, <1>7, <1>8, <1>9 DEF Next

(* The types hold in every reachable state of accounts and sessions. *)
THEOREM TypeCorrect == Spec => []TypeOK
  BY TypeInit, TypeStep, PTL DEF Spec
----------------------------------------------------------------------------
(***************************************************************************)
(* The inductive invariant.  A ticket that the page has not used yet must  *)
(* hold good as well, and no ticket may count more removals than there     *)
(* were: otherwise a removal would not outdate it.                         *)
(***************************************************************************)
Good(ticket) == ticket.removals <= removals[ticket.name] /\ Backed(ticket)

PendingGood ==
    \A t \in Tabs : request[t].at = "answered" => Good(request[t].ticket)

SessionGood ==
    \A s \in Sessions : user[s] # Undefined =>
        basis[s] \in Tickets /\ basis[s].name = user[s] /\ Good(basis[s])

Inv ==
    /\ TypeOK
    /\ OneOkPerAccount
    /\ AdminExists
    /\ PendingGood
    /\ SessionGood

(* A step that leaves the table and the counts alone. *)
TableSame == UNCHANGED <<login, oks, removals>>

(* A step changes the table and the counts not at all, by one              *)
(* create_account call, or by one removal.                                 *)
LEMMA TableStep ==
  ASSUME TypeOK, [Next]_vars
  PROVE  \/ TableSame
         \/ /\ removals' = removals
            /\ \E name \in Names, password \in Passwords : Create(name, password)
         \/ \E name \in Names : remove(name)
  <1>1. CASE \E t \in Tabs : index_create_admin(t)
    BY <1>1, NamesAssumption, PasswordsAssumption DEF index_create_admin
  <1>2. CASE \E t \in Tabs, name \in Names, password \in Passwords : event_save(t, name, password)
    BY <1>2 DEF event_save
  <1>3. CASE \E t \in Tabs, name \in Names, password \in Passwords : event_login(t, name, password)
    BY <1>3 DEF event_login, TableSame, history
  <1>4. CASE \E t \in Tabs : index_start(t) \/ set_user(t) \/ event_logout(t)
    BY <1>4 DEF index_start, set_user, event_logout, TableSame, history
  <1>5. CASE \E t \in Tabs, name \in {"login", "login_page", "create_account"} : body(t, name)
    BY <1>5 DEF body, TableSame, history
  <1>6. CASE UNCHANGED vars
    BY <1>6 DEF vars, TableSame
  <1> QED
    BY <1>1, <1>2, <1>3, <1>4, <1>5, <1>6 DEF Next

(* What a removal does to the table. *)
LEMMA RemoveStep ==
  ASSUME TypeOK, NEW name \in Names, remove(name)
  PROVE  /\ name \in DOMAIN login
         /\ DOMAIN login' = DOMAIN login \ {name}
         /\ \A k \in DOMAIN login' : login'[k] = login[k]
         /\ removals' = [removals EXCEPT ![name] = @ + 1]
         /\ oks' = oks
  BY DEF remove, Delete

(* A good ticket stays good: its account is not overwritten, and if it is  *)
(* removed the ticket is outdated.                                         *)
LEMMA GoodStep ==
  ASSUME TypeOK, [Next]_vars
  PROVE  \A ticket \in Tickets : Good(ticket) => Good(ticket)'
  <1> SUFFICES ASSUME NEW ticket \in Tickets, Good(ticket) PROVE Good(ticket)'
    OBVIOUS
  <1>0. /\ ticket.name \in Names /\ ticket.removals \in Nat
        /\ removals \in [Names -> Nat]
    BY DEF Tickets, TypeOK
  <1>1. CASE TableSame
    BY <1>1 DEF TableSame, Good, Backed
  <1>2. ASSUME removals' = removals, NEW name \in Names, NEW password \in Passwords,
               Create(name, password)
        PROVE  Good(ticket)'
    <2>1. \A k \in DOMAIN login : k \in DOMAIN login' /\ login'[k] = login[k]
      BY <1>2, CreateStep
    <2> QED
      BY <1>2, <2>1 DEF Good, Backed
  <1>3. ASSUME NEW name \in Names, remove(name) PROVE Good(ticket)'
    <2>1. /\ DOMAIN login' = DOMAIN login \ {name}
          /\ \A k \in DOMAIN login' : login'[k] = login[k]
          /\ removals' = [removals EXCEPT ![name] = @ + 1]
      BY <1>3, RemoveStep
    <2>2. CASE ticket.name = name
      <3>1. removals'[ticket.name] = removals[ticket.name] + 1
        BY <1>0, <2>1, <2>2
      <3> QED
        BY <1>0, <3>1 DEF Good, Backed
    <2>3. CASE ticket.name # name
      <3>1. removals'[ticket.name] = removals[ticket.name]
        BY <1>0, <2>1, <2>3
      <3> QED
        BY <2>1, <2>3, <3>1 DEF Good, Backed
    <2> QED
      BY <2>2, <2>3
  <1> QED
    BY <1>1, <1>2, <1>3, TableStep

(* A new ticket is good: the password was right, or was just stored. *)
LEMMA TicketGood ==
  ASSUME TypeOK, NEW t \in Tabs, NEW name \in Names, NEW password \in Passwords,
         event_login(t, name, password) \/ event_save(t, name, password)
  PROVE  /\ request' = [request EXCEPT ![t] = Request("answered", Ticket(name, password))]
         /\ Ticket(name, password) \in Tickets
         /\ Ticket(name, password).removals <= removals'[name]
         /\ name \in DOMAIN login'
         /\ login'[name] = Hash(password)
  <1>1. /\ request' = [request EXCEPT ![t] = Request("answered", Ticket(name, password))]
        /\ removals' = removals
    BY DEF event_login, event_save, history
  <1>2. Ticket(name, password) \in Tickets
    BY TicketType
  <1>3. Ticket(name, password).removals <= removals'[name]
    BY <1>1 DEF Ticket, TypeOK
  <1>4. CASE event_login(t, name, password)
    <2>1. Read(login, name) = {Hash(password)} /\ login' = login
      BY <1>4 DEF event_login, attempt_login
    <2>2. name \in DOMAIN login /\ login[name] = Hash(password)
      BY <2>1 DEF Read
    <2> QED
      BY <1>1, <1>2, <1>3, <2>1, <2>2
  <1>5. CASE event_save(t, name, password)
    <2>1. name \in DOMAIN login' /\ login'[name] = Hash(password)
      BY <1>5, CreateStep DEF event_save
    <2> QED
      BY <1>1, <1>2, <1>3, <2>1
  <1> QED
    BY <1>4, <1>5

(* Accounts and sessions start in the invariant. *)
LEMMA InvInit == Init => Inv
  <1> SUFFICES ASSUME Init PROVE Inv
    OBVIOUS
  <1>1. TypeOK
    BY TypeInit
  <1>2. OneOkPerAccount
    <2>1. \A name \in Names : DOMAIN login \cap {name} = {}
      BY DEF Init, EmptyTable
    <2>2. \A name \in Names : oks[name] = 0 /\ removals[name] = 0
      BY DEF Init
    <2> QED
      BY <2>1, <2>2, FS_EmptySet DEF OneOkPerAccount
  <1>3. AdminExists /\ SessionGood
    BY DEF Init, AdminExists, SessionGood
  <1>4. PendingGood
    BY DEF Init, PendingGood, None, Request
  <1> QED
    BY <1>1, <1>2, <1>3, <1>4 DEF Inv

(* The count of oks follows the accounts. *)
LEMMA OksStep ==
  ASSUME TypeOK, OneOkPerAccount, [Next]_vars
  PROVE  OneOkPerAccount'
  <1> SUFFICES ASSUME NEW k \in Names
               PROVE  oks'[k] = removals'[k] + Cardinality(DOMAIN login' \cap {k})
    BY DEF OneOkPerAccount
  <1>0. /\ oks[k] = removals[k] + Cardinality(DOMAIN login \cap {k})
        /\ removals \in [Names -> Nat] /\ oks \in [Names -> Nat]
    BY DEF OneOkPerAccount, TypeOK
  <1>c. \A D : /\ k \in D => Cardinality(D \cap {k}) = 1
               /\ k \notin D => Cardinality(D \cap {k}) = 0
    <2> SUFFICES ASSUME NEW D
                 PROVE  /\ k \in D => Cardinality(D \cap {k}) = 1
                        /\ k \notin D => Cardinality(D \cap {k}) = 0
      OBVIOUS
    <2>1. CASE k \in D
      <3>1. D \cap {k} = {k}
        BY <2>1
      <3> QED
        BY <2>1, <3>1, FS_Singleton
    <2>2. CASE k \notin D
      <3>1. D \cap {k} = {}
        BY <2>2
      <3> QED
        BY <2>2, <3>1, FS_EmptySet
    <2> QED
      BY <2>1, <2>2
  <1>1. CASE TableSame
    BY <1>0, <1>1 DEF TableSame
  <1>2. ASSUME removals' = removals, NEW name \in Names, NEW password \in Passwords,
               Create(name, password)
        PROVE  oks'[k] = removals'[k] + Cardinality(DOMAIN login' \cap {k})
    <2>1. CASE name \in DOMAIN login
      <3>1. login' = login /\ oks' = oks
        BY <1>2, <2>1, CreateStep
      <3> QED
        BY <1>0, <1>2, <3>1
    <2>2. CASE name \notin DOMAIN login
      <3>1. DOMAIN login' = DOMAIN login \cup {name} /\ oks' = [oks EXCEPT ![name] = @ + 1]
        BY <1>2, <2>2, CreateStep
      <3>2. CASE k = name
        <4>1. Cardinality(DOMAIN login \cap {k}) = 0 /\ Cardinality(DOMAIN login' \cap {k}) = 1
          BY <1>c, <2>2, <3>1, <3>2
        <4>2. oks'[k] = oks[k] + 1
          BY <1>0, <3>1, <3>2
        <4> QED
          BY <1>0, <1>2, <4>1, <4>2
      <3>3. CASE k # name
        <4>1. DOMAIN login' \cap {k} = DOMAIN login \cap {k}
          BY <3>1, <3>3
        <4>2. oks'[k] = oks[k]
          BY <1>0, <3>1, <3>3
        <4> QED
          BY <1>0, <1>2, <4>1, <4>2
      <3> QED
        BY <3>2, <3>3
    <2> QED
      BY <2>1, <2>2
  <1>3. ASSUME NEW name \in Names, remove(name)
        PROVE  oks'[k] = removals'[k] + Cardinality(DOMAIN login' \cap {k})
    <2>1. /\ name \in DOMAIN login
          /\ DOMAIN login' = DOMAIN login \ {name}
          /\ removals' = [removals EXCEPT ![name] = @ + 1]
          /\ oks' = oks
      BY <1>3, RemoveStep
    <2>2. CASE k = name
      <3>1. Cardinality(DOMAIN login \cap {k}) = 1 /\ Cardinality(DOMAIN login' \cap {k}) = 0
        BY <1>c, <2>1, <2>2
      <3>2. removals'[k] = removals[k] + 1
        BY <1>0, <2>1, <2>2
      <3> QED
        BY <1>0, <2>1, <3>1, <3>2
    <2>3. CASE k # name
      <3>1. DOMAIN login' \cap {k} = DOMAIN login \cap {k}
        BY <2>1, <2>3
      <3>2. removals'[k] = removals[k]
        BY <1>0, <2>1, <2>3
      <3> QED
        BY <1>0, <2>1, <3>1, <3>2
    <2> QED
      BY <2>2, <2>3
  <1> QED
    BY <1>1, <1>2, <1>3, TableStep

(* The admin's account stays until it is removed. *)
LEMMA AdminStep ==
  ASSUME TypeOK, AdminExists, [Next]_vars
  PROVE  AdminExists'
  <1>0. Admin \in Names /\ AdminPassword \in Passwords /\ removals \in [Names -> Nat]
    BY NamesAssumption, PasswordsAssumption DEF TypeOK
  <1>1. CASE visited' = visited
    <2>1. CASE TableSame
      BY <1>1, <2>1 DEF TableSame, AdminExists
    <2>2. ASSUME removals' = removals, NEW name \in Names, NEW password \in Passwords,
                 Create(name, password)
          PROVE  AdminExists'
      <3>1. DOMAIN login \subseteq DOMAIN login'
        BY <2>2, CreateStep
      <3> QED
        BY <1>1, <2>2, <3>1 DEF AdminExists
    <2>3. ASSUME NEW name \in Names, remove(name) PROVE AdminExists'
      <3>1. /\ DOMAIN login' = DOMAIN login \ {name}
            /\ removals' = [removals EXCEPT ![name] = @ + 1]
        BY <2>3, RemoveStep
      <3>2. CASE name = Admin
        <4>1. removals'[Admin] > 0
          BY <1>0, <3>1, <3>2
        <4> QED
          BY <4>1 DEF AdminExists
      <3>3. CASE name # Admin
        <4>1. removals'[Admin] = removals[Admin]
          BY <1>0, <3>1, <3>3
        <4> QED
          BY <1>1, <3>1, <3>3, <4>1 DEF AdminExists
      <3> QED
        BY <3>2, <3>3
    <2> QED
      BY <2>1, <2>2, <2>3, TableStep
  <1>2. ASSUME NEW t \in Tabs, index_create_admin(t) PROVE AdminExists'
    <2>1. Admin \in DOMAIN login'
      BY <1>0, <1>2, CreateStep DEF index_create_admin
    <2> QED
      BY <2>1 DEF AdminExists
  <1>3. visited' = visited \/ \E t \in Tabs : index_create_admin(t)
    BY DEF Next, vars, history, body, index_start, event_login, event_save, set_user,
           event_logout, remove
  <1> QED
    BY <1>1, <1>2, <1>3

(* Only an answer of db_login makes a ticket, and it makes a good one. *)
LEMMA PendingStep ==
  ASSUME TypeOK, PendingGood, [Next]_vars
  PROVE  PendingGood'
  <1> SUFFICES ASSUME NEW r \in Tabs, request'[r].at = "answered"
               PROVE  Good(request[r].ticket)'
    BY DEF PendingGood
  <1>1. CASE request'[r] = request[r]
    <2>1. request[r].ticket \in Tickets /\ Good(request[r].ticket)
      BY <1>1 DEF TypeOK, PendingGood
    <2>2. PICK ticket \in Tickets : ticket = request[r].ticket
      BY <2>1
    <2>3. Good(ticket)
      BY <2>1, <2>2
    <2>4. Good(ticket)'
      BY <2>3, GoodStep
    <2> QED
      BY <1>1, <2>2, <2>4 DEF Good, Backed
  <1>2. ASSUME NEW t \in Tabs, NEW name \in Names, NEW password \in Passwords,
               event_login(t, name, password) \/ event_save(t, name, password),
               r = t
        PROVE  Good(request[r].ticket)'
    <2>1. request'[r] = Request("answered", Ticket(name, password))
      BY <1>2, TicketGood DEF TypeOK
    <2>2. /\ request'[r].ticket = Ticket(name, password)
          /\ request'[r].ticket.name = name
          /\ request'[r].ticket.password = password
      BY <2>1 DEF Request, Ticket
    <2>3. /\ Ticket(name, password).removals <= removals'[name]
          /\ name \in DOMAIN login'
          /\ login'[name] = Hash(password)
      BY <1>2, TicketGood
    <2> QED
      BY <2>2, <2>3 DEF Good, Backed
  <1>3. \/ request'[r] = request[r]
        \/ request'[r].at # "answered"
        \/ \E name \in Names, password \in Passwords :
               event_login(r, name, password) \/ event_save(r, name, password)
    <2>1. CASE \E t \in Tabs, name \in Names, password \in Passwords :
                   event_login(t, name, password) \/ event_save(t, name, password)
      BY <2>1 DEF TypeOK, event_login, event_save
    <2>2. CASE \E t \in Tabs : index_start(t) \/ index_create_admin(t) \/ set_user(t)
      BY <2>2 DEF TypeOK, index_start, index_create_admin, set_user, None, Request
    <2>3. CASE UNCHANGED request
      BY <2>3
    <2>4. \/ UNCHANGED request
          \/ \E t \in Tabs, name \in Names, password \in Passwords :
                 event_login(t, name, password) \/ event_save(t, name, password)
          \/ \E t \in Tabs : index_start(t) \/ index_create_admin(t) \/ set_user(t)
      BY DEF Next, vars, body, event_logout, remove
    <2> QED
      BY <2>1, <2>2, <2>3, <2>4
  <1> QED
    BY <1>1, <1>2, <1>3

(* A session gets its user from a good ticket. *)
LEMMA SessionStep ==
  ASSUME TypeOK, PendingGood, SessionGood, [Next]_vars
  PROVE  SessionGood'
  <1> SUFFICES ASSUME NEW s \in Sessions, user'[s] # Undefined
               PROVE  basis'[s] \in Tickets /\ basis'[s].name = user'[s] /\ Good(basis[s])'
    BY DEF SessionGood
  <1>1. ASSUME NEW ticket \in Tickets, Good(ticket), basis'[s] = ticket,
               ticket.name = user'[s]
        PROVE  basis'[s] \in Tickets /\ basis'[s].name = user'[s] /\ Good(basis[s])'
    <2>1. Good(ticket)'
      BY <1>1, GoodStep
    <2> QED
      BY <1>1, <2>1 DEF Good, Backed
  <1>2. CASE user'[s] = user[s] /\ basis'[s] = basis[s]
    <2>1. basis[s] \in Tickets /\ basis[s].name = user[s] /\ Good(basis[s])
      BY <1>2 DEF SessionGood
    <2>2. PICK ticket \in Tickets : ticket = basis[s]
      BY <2>1
    <2> QED
      BY <1>1, <1>2, <2>1, <2>2
  <1>3. ASSUME NEW t \in Tabs, set_user(t), SessionOf[t] = s
        PROVE  basis'[s] \in Tickets /\ basis'[s].name = user'[s] /\ Good(basis[s])'
    <2>1. request[t].ticket \in Tickets /\ Good(request[t].ticket)
      BY <1>3 DEF TypeOK, PendingGood, set_user
    <2>2. user'[s] = request[t].ticket.name /\ basis'[s] = request[t].ticket
      BY <1>3 DEF TypeOK, set_user
    <2>3. PICK ticket \in Tickets : ticket = request[t].ticket
      BY <2>1
    <2> QED
      BY <1>1, <2>1, <2>2, <2>3
  <1>4. \/ user'[s] = user[s] /\ basis'[s] = basis[s]
        \/ \E t \in Tabs : set_user(t) /\ SessionOf[t] = s
    <2>1. CASE \E t \in Tabs : set_user(t)
      BY <2>1 DEF TypeOK, set_user
    <2>2. CASE \E t \in Tabs : event_logout(t)
      BY <2>2 DEF TypeOK, event_logout
    <2>3. CASE UNCHANGED <<user, basis>>
      BY <2>3
    <2>4. \/ UNCHANGED <<user, basis>>
          \/ \E t \in Tabs : set_user(t)
          \/ \E t \in Tabs : event_logout(t)
      BY DEF Next, vars, body, index_start, index_create_admin, event_login, event_save, remove
    <2> QED
      BY <2>1, <2>2, <2>3, <2>4
  <1> QED
    BY <1>2, <1>3, <1>4

(* Every step keeps the invariant. *)
LEMMA InvStep == Inv /\ [Next]_vars => Inv'
  BY TypeStep, OksStep, AdminStep, PendingStep, SessionStep DEF Inv

(* The inductive invariant holds in every reachable state. *)
THEOREM Invariance == Spec => []Inv
  BY InvInit, InvStep, PTL DEF Spec

(* Of the create_account calls for a name one is answered ok for each      *)
(* account of that name that ever was.                                     *)
THEOREM OneOk == Spec => []OneOkPerAccount
  <1>1. Inv => OneOkPerAccount
    BY DEF Inv
  <1> QED
    BY <1>1, Invariance, PTL

(* After a front page there is an admin until it is removed. *)
THEOREM AdminThere == Spec => []AdminExists
  <1>1. Inv => AdminExists
    BY DEF Inv
  <1> QED
    BY <1>1, Invariance, PTL

(* The account of a logged in user still has the password that was given,  *)
(* unless it was removed.                                                  *)
THEOREM BackedSessions == Spec => []SessionBacked
  <1>1. Inv => SessionBacked
    BY DEF Inv, SessionGood, SessionBacked, Good
  <1> QED
    BY <1>1, Invariance, PTL
----------------------------------------------------------------------------
(***************************************************************************)
(* The refinement: stored hashes are the passwords of the abstract         *)
(* accounts, and a ticket that is not used yet is what a tab was accepted  *)
(* for.                                                                    *)
(***************************************************************************)

(* The name and the password of a ticket. *)
Claim(ticket) == Abstract!Given(ticket.name, ticket.password)

(* The next values of the mapping. *)
LEMMA MappingPrimed ==
  /\ Unhashed(login)' = [k \in DOMAIN login' |-> login'[k].sha]
  /\ Answered = [t \in Tabs |-> Claim(request[t].ticket)]
  /\ Answered' = [t \in Tabs |-> Claim(request'[t].ticket)]
  BY DEF Unhashed, Answered, Claim, Abstract!Given

(* A tab that has no request, or the request of a front page, is accepted  *)
(* for nothing.                                                            *)
LEMMA NothingAnswered ==
  /\ None.at = "none" /\ Claim(None.ticket) = Abstract!Nothing
  /\ Claim(Request("index", NoTicket).ticket) = Abstract!Nothing
  /\ Claim(NoTicket) = Abstract!Nothing
  BY DEF None, Request, NoTicket, Claim, Abstract!Nothing

(* Changing one tab's request changes what that tab is accepted for. *)
LEMMA AnsweredStep ==
  ASSUME TypeOK, NEW t \in Tabs, NEW r, request' = [request EXCEPT ![t] = r]
  PROVE  Answered' = [Answered EXCEPT ![t] = Claim(r.ticket)]
  <1> DEFINE c == Claim(r.ticket)
  <1>1. \A u \in Tabs : request'[u] = IF u = t THEN r ELSE request[u]
    BY DEF TypeOK
  <1>2. \A u \in Tabs : Claim(request'[u].ticket) =
                            IF u = t THEN c ELSE Claim(request[u].ticket)
    BY <1>1
  <1> HIDE DEF c
  <1>3. Answered' = [Answered EXCEPT ![t] = c]
    BY <1>2, MappingPrimed
  <1> QED
    BY <1>3 DEF c

(* A create_account call that is answered ok opens the abstract account;   *)
(* one that is not leaves the accounts as they are.                        *)
LEMMA CreateOpens ==
  ASSUME TypeOK, NEW name \in Names, NEW password \in Passwords,
         Create(name, password)
  PROVE  \/ /\ name \notin DOMAIN Unhashed(login)
            /\ Unhashed(login)' = [k \in DOMAIN Unhashed(login) \cup {name} |->
                                     IF k = name THEN password ELSE Unhashed(login)[k]]
         \/ /\ create_account_reply(login, name) # "ok"
            /\ UNCHANGED Unhashed(login)
  <1>1. CASE name \in DOMAIN login
    <2>1. create_account_reply(login, name) # "ok" /\ login' = login
      BY <1>1, CreateStep
    <2> QED
      BY <2>1 DEF Unhashed
  <1>2. CASE name \notin DOMAIN login
    <2>1. /\ DOMAIN login' = DOMAIN login \cup {name}
          /\ login'[name] = Hash(password)
          /\ \A k \in DOMAIN login : login'[k] = login[k]
      BY <1>2, CreateStep
    <2>2. Hash(password).sha = password
      BY DEF Hash
    <2>3. /\ DOMAIN Unhashed(login) = DOMAIN login
          /\ \A k \in DOMAIN login : Unhashed(login)[k] = login[k].sha
      BY DEF Unhashed
    <2>4. Unhashed(login)' = [k \in DOMAIN login \cup {name} |->
                                IF k = name THEN password ELSE Unhashed(login)[k]]
      BY <1>2, <2>1, <2>2, <2>3, MappingPrimed
    <2> QED
      BY <1>2, <2>3, <2>4
  <1> QED
    BY <1>1, <1>2

(* The answer to either event accepts the name and password of the form:   *)
(* registering is an Open at a desk, logging in a Present.                 *)
LEMMA AnswerImplements ==
  ASSUME TypeOK, NEW t \in Tabs, NEW name \in Names, NEW password \in Passwords,
         event_login(t, name, password) \/ event_save(t, name, password)
  PROVE  Abstract!Open(name, password) \/ Abstract!Present(name, password)
  <1>1. request[t] = None /\ user' = user
    BY DEF event_login, event_save
  <1>2. Answered[t] = Abstract!Nothing
    BY <1>1, NothingAnswered, MappingPrimed
  <1>3. Answered' = [Answered EXCEPT ![t] = Abstract!Given(name, password)]
    <2>1. request' = [request EXCEPT ![t] = Request("answered", Ticket(name, password))]
      BY TicketGood
    <2>2. Answered' = [Answered EXCEPT ![t] =
                         Claim(Request("answered", Ticket(name, password)).ticket)]
      BY <2>1, AnsweredStep
    <2>3. Claim(Request("answered", Ticket(name, password)).ticket) =
            Abstract!Given(name, password)
      BY DEF Request, Ticket, Claim
    <2> QED
      BY <2>2, <2>3
  <1>4. Abstract!AcceptAt(t, name, password)
    BY <1>2, <1>3 DEF Abstract!AcceptAt
  <1>5. CASE event_save(t, name, password)
    <2>1. /\ name \notin DOMAIN Unhashed(login)
          /\ Unhashed(login)' = [k \in DOMAIN Unhashed(login) \cup {name} |->
                                   IF k = name THEN password ELSE Unhashed(login)[k]]
      BY <1>5, CreateOpens DEF event_save
    <2> QED
      BY <1>1, <1>4, <2>1 DEF Abstract!Open
  <1>6. CASE event_login(t, name, password)
    <2>1. login' = login /\ name \in DOMAIN login' /\ login'[name] = Hash(password)
      BY <1>6, TicketGood DEF event_login
    <2>2. Hash(password).sha = password
      BY DEF Hash
    <2>3. /\ name \in DOMAIN Unhashed(login) /\ Unhashed(login)[name] = password
          /\ Unhashed(login)' = Unhashed(login)
      BY <2>1, <2>2 DEF Unhashed
    <2> QED
      BY <1>1, <1>4, <2>3 DEF Abstract!Present
  <1> QED
    BY <1>5, <1>6

(* wf:user(Username) is an Enter: the name was accepted at this very tab. *)
LEMMA UserImplements ==
  ASSUME TypeOK, NEW t \in Tabs, set_user(t)
  PROVE  Abstract!Enter(t)
  <1>1. request[t].ticket.name \in Names
    BY DEF TypeOK, set_user, Tickets
  <1>2. Answered[t].name = request[t].ticket.name /\ Answered[t] # Abstract!Nothing
    BY <1>1, NamesAssumption DEF Answered, Abstract!Nothing, Abstract!Given
  <1>3. Answered' = [Answered EXCEPT ![t] = Abstract!Nothing]
    <2>1. Answered' = [Answered EXCEPT ![t] = Claim(None.ticket)]
      BY AnsweredStep DEF set_user
    <2> QED
      BY <2>1, NothingAnswered
  <1>4. Unhashed(login)' = Unhashed(login)
    BY DEF set_user, Unhashed
  <1>5. user' = [user EXCEPT ![SessionOf[t]] = Answered[t].name]
    BY <1>2 DEF set_user
  <1> QED
    BY <1>2, <1>3, <1>4, <1>5 DEF Abstract!Enter

(* The front page accepts nobody: it opens the admin's account or changes  *)
(* nothing that the abstract specification sees.                           *)
LEMMA IndexImplements ==
  ASSUME TypeOK, NEW t \in Tabs, index_start(t) \/ index_create_admin(t)
  PROVE  \/ Abstract!Open(Admin, AdminPassword)
         \/ UNCHANGED <<Unhashed(login), Answered, user>>
  <1>1. Answered' = Answered /\ user' = user
    <2>1. PICK r \in {None, Request("index", NoTicket)} :
            request' = [request EXCEPT ![t] = r]
      BY DEF index_start, index_create_admin
    <2>2. Claim(r.ticket) = Abstract!Nothing
      BY NothingAnswered
    <2>3. Claim(request[t].ticket) = Abstract!Nothing
      <3>1. request[t].at # "answered"
        BY NothingAnswered DEF index_start, index_create_admin
      <3>2. request[t].ticket = NoTicket
        BY <3>1 DEF TypeOK
      <3> QED
        BY <3>2, NothingAnswered
    <2>4. Answered' = [Answered EXCEPT ![t] = Abstract!Nothing]
      BY <2>1, <2>2, AnsweredStep
    <2>5. Answered[t] = Abstract!Nothing
      BY <2>3, MappingPrimed
    <2>6. Answered' = Answered
      BY <2>4, <2>5, MappingPrimed
    <2> QED
      BY <2>6 DEF index_start, index_create_admin
  <1>2. CASE index_start(t)
    BY <1>1, <1>2 DEF index_start, Unhashed
  <1>3. CASE index_create_admin(t)
    <2>1. CASE UNCHANGED Unhashed(login)
      BY <1>1, <2>1
    <2>2. CASE ~ UNCHANGED Unhashed(login)
      <3>1. /\ Admin \notin DOMAIN Unhashed(login)
            /\ Unhashed(login)' = [k \in DOMAIN Unhashed(login) \cup {Admin} |->
                                     IF k = Admin THEN AdminPassword ELSE Unhashed(login)[k]]
        BY <1>3, <2>2, CreateOpens, NamesAssumption, PasswordsAssumption
          DEF index_create_admin
      <3> QED
        BY <1>1, <3>1 DEF Abstract!Open
    <2> QED
      BY <2>1, <2>2
  <1> QED
    BY <1>2, <1>3

(* A removal by the operator is a Close. *)
LEMMA RemoveImplements ==
  ASSUME TypeOK, NEW name \in Names, remove(name)
  PROVE  Abstract!Close(name)
  <1>1. /\ name \in DOMAIN login
        /\ DOMAIN login' = DOMAIN login \ {name}
        /\ \A k \in DOMAIN login' : login'[k] = login[k]
    BY RemoveStep
  <1>2. /\ DOMAIN Unhashed(login) = DOMAIN login
        /\ \A k \in DOMAIN login : Unhashed(login)[k] = login[k].sha
    BY DEF Unhashed
  <1>3. Unhashed(login)' = [k \in DOMAIN login \ {name} |-> Unhashed(login)[k]]
    BY <1>1, <1>2, MappingPrimed
  <1>4. Answered' = Answered /\ user' = user
    BY DEF remove, Answered
  <1> QED
    BY <1>1, <1>2, <1>3, <1>4 DEF Abstract!Close

(* Accounts and sessions implement the abstract entrance: a session gets a *)
(* name only from one of its own tabs that opened the account or gave its  *)
(* password, and no step but the operator's removal changes an account.    *)
THEOREM Refinement == Spec => ImplementsEntrance
  <1>1. Init => Abstract!Init
    <2> SUFFICES ASSUME Init PROVE Abstract!Init
      OBVIOUS
    <2>1. Unhashed(login) = [n \in {} |-> Undefined]
      BY DEF Init, Unhashed, EmptyTable
    <2>2. Answered = [t \in Tabs |-> Abstract!Nothing]
      BY NothingAnswered, MappingPrimed DEF Init
    <2> QED
      BY <2>1, <2>2 DEF Init, Abstract!Init
  <1>2. TypeOK /\ [Next]_vars => [Abstract!Next]_(Abstract!vars)
    <2> SUFFICES ASSUME TypeOK, [Next]_vars
                 PROVE  Abstract!Next \/ UNCHANGED <<Unhashed(login), Answered, user>>
      BY DEF Abstract!vars
    <2>1. CASE \E t \in Tabs, name \in Names, password \in Passwords :
                 event_login(t, name, password) \/ event_save(t, name, password)
      BY <2>1, AnswerImplements DEF Abstract!Next
    <2>2. CASE \E t \in Tabs : set_user(t)
      BY <2>2, UserImplements DEF Abstract!Next
    <2>3. CASE \E t \in Tabs : index_start(t) \/ index_create_admin(t)
      BY <2>3, IndexImplements, NamesAssumption, PasswordsAssumption DEF Abstract!Next
    <2>4. CASE \E name \in Names : remove(name)
      BY <2>4, RemoveImplements DEF Abstract!Next
    <2>5. CASE \E t \in Tabs : event_logout(t)
      <3>1. PICK t \in Tabs : event_logout(t)
        BY <2>5
      <3>2. /\ user' = [user EXCEPT ![SessionOf[t]] = Undefined]
            /\ Unhashed(login)' = Unhashed(login) /\ Answered' = Answered
        BY <3>1 DEF event_logout, Unhashed, Answered
      <3>3. Abstract!Leave(SessionOf[t])
        BY <3>2 DEF Abstract!Leave
      <3> QED
        BY <3>3, SessionAssumption DEF Abstract!Next
    <2>6. CASE UNCHANGED <<login, request, user>>
      BY <2>6 DEF Unhashed, Answered
    <2>7. CASE \E t \in Tabs, name \in {"login", "login_page", "create_account"} : body(t, name)
      BY <2>6, <2>7 DEF body
    <2> QED
      BY <2>1, <2>2, <2>3, <2>4, <2>5, <2>6, <2>7 DEF Next, vars
  <1> QED
    BY <1>1, <1>2, TypeCorrect, PTL DEF Spec, ImplementsEntrance, Abstract!Spec
=============================================================================
