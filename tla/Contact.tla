------------------------------- MODULE Contact -------------------------------
(***************************************************************************)
(* The messages to the photographer: the db_message server and the         *)
(* contact page.                                                           *)
(*                                                                         *)
(* Who is not logged in gets a form, who is gets the messages.  The table  *)
(* is keyed by an id that is computed from the number of rows, as in the   *)
(* guest book, while remove is written for an e-mail address.  No page     *)
(* calls remove; the operator does, from the Erlang shell, and as remove   *)
(* looks at nothing a number will do as well.                              *)
(*                                                                         *)
(* A message is its sender's address and its position among the            *)
(* add_message calls; the rest of the row plays no part in the control.    *)
(***************************************************************************)
EXTENDS MnesiaTable, Sequences

CONSTANTS
    Tabs,           \* browser tabs
    Sessions,       \* browser sessions
    SessionOf,      \* the session a tab belongs to
    Undefined,      \* wf:user() of a session nobody logged in
    Admin,          \* the user "admin"
    Users,          \* the accounts one can log in with
    Mails,          \* e-mail addresses
    MaxMessages,    \* bound: number of add_message calls
    MaxRemoves      \* bound: number of remove calls

ASSUME SessionAssumption == SessionOf \in [Tabs -> Sessions]
ASSUME UserAssumption == Undefined \notin Users
ASSUME BoundAssumption == MaxMessages \in Nat /\ MaxRemoves \in Nat

(* An address is a string, hence never the number of a message. *)
ASSUME MailsAssumption == Mails \cap Nat = {}

VARIABLES
    messages,  \* the mnesia table: message id -> its sender and call number
    log,       \* every add_message call so far: the sender, the computed id, the reply
    removes,   \* every remove call: its argument, and the add_message calls before it
    removed,   \* the messages that were in the table and have been deleted
    user,      \* session -> wf:user()
    view       \* tab -> the contact page it shows, or NoPage

vars == <<messages, log, removes, removed, user, view>>
----------------------------------------------------------------------------
(* db_message *)

(* Mutant of NextId: the "+ 1" forgotten. *)
NextIdOneLess(tab) == Cardinality(DirtyAllKeys(tab))

(* The id a new message gets. *)
NextId(tab) == Cardinality(DirtyAllKeys(tab)) + 1

(* Mutant of add_message_reply: writes without looking at the id first. *)
ReplyAlwaysOk(tab) == "ok"

(* The answer to add_message. *)
add_message_reply(tab) ==
    IF Read(tab, NextId(tab)) = {} THEN "ok" ELSE "already_inserted"

(* The table after remove: whatever was given is taken for the key. *)
RemoveKey(tab, key) == Delete(tab, key)

(* What the operator may give to remove: an address, or a message's number. *)
RemoveKeys == Mails \cup 1..MaxMessages
----------------------------------------------------------------------------
(* The page *)

(* A tab that shows some other page, or nothing. *)
NoPage == [open |-> FALSE]

(* The page body() builds: for a user the messages, sorted by id, else the *)
(* form. *)
Page(tab, u) ==
    [open |-> TRUE, user |-> u, rows |-> IF u = Undefined THEN EmptyTable ELSE tab]

(* The Log out button of admin_place(). *)
LogoutButton(p) == p.open /\ p.user = Admin

(* The menu, which header() puts on every page. *)
Menu(p) == p.open

Form(p) == p.open /\ p.user = Undefined
----------------------------------------------------------------------------
Init ==
    /\ messages = EmptyTable
    /\ log = << >>
    /\ removes = << >>
    /\ removed = {}
    /\ user = [s \in Sessions |-> Undefined]
    /\ view = [t \in Tabs |-> NoPage]

(* body(), by hand or after event(about_me) of this or another page. *)
body(t) ==
    /\ view' = [view EXCEPT ![t] = Page(messages, user[SessionOf[t]])]
    /\ UNCHANGED <<messages, log, removes, removed, user>>

(* event(save): the reply is thrown away and the browser is sent home. *)
event_save(t, mail) ==
    /\ Form(view[t])
    /\ Len(log) < MaxMessages
    /\ LET reply == add_message_reply(messages)
       IN  /\ log' = Append(log, [mail |-> mail, id |-> NextId(messages), reply |-> reply])
           /\ messages' = IF reply = "ok"
                          THEN Write(messages, NextId(messages),
                                     [mail |-> mail, n |-> Len(log) + 1])
                          ELSE messages
    /\ view' = [view EXCEPT ![t] = NoPage]
    /\ UNCHANGED <<removes, removed, user>>

(* The other menu entries: the tab goes to another page. *)
event_menu(t) ==
    /\ Menu(view[t])
    /\ view' = [view EXCEPT ![t] = NoPage]
    /\ UNCHANGED <<messages, log, removes, removed, user>>

(* event(logout): the session forgets its user and the tab goes home. *)
event_logout(t) ==
    /\ LogoutButton(view[t])
    /\ user' = [user EXCEPT ![SessionOf[t]] = Undefined]
    /\ view' = [view EXCEPT ![t] = NoPage]
    /\ UNCHANGED <<messages, log, removes, removed>>

(* A login on the login page, in a tab of this session. *)
login(s, u) ==
    /\ user' = [user EXCEPT ![s] = u]
    /\ UNCHANGED <<messages, log, removes, removed, view>>

(* The operator calls db_message:remove from the Erlang shell.  It is      *)
(* answered ok whatever it did.                                            *)
remove(key) ==
    /\ Len(removes) < MaxRemoves
    /\ messages' = RemoveKey(messages, key)
    /\ removes' = Append(removes, [key |-> key, after |-> Len(log)])
    /\ removed' = removed \cup {row.n : row \in Read(messages, key)}
    /\ UNCHANGED <<log, user, view>>

Next ==
    \/ \E t \in Tabs :
        \/ body(t)
        \/ \E mail \in Mails : event_save(t, mail)
        \/ event_menu(t)
        \/ event_logout(t)
    \/ \E s \in Sessions, u \in Users : login(s, u)
    \/ \E key \in RemoveKeys : remove(key)

Spec == Init /\ [][Next]_vars
----------------------------------------------------------------------------
Message == [mail : Mails, n : Nat \ {0}]
Call == [mail : Mails, id : Nat, reply : {"ok", "already_inserted"}]

(* Type invariant: ids are positive numbers, and a row is an address and   *)
(* the number of a call.                                                   *)
TypeOK ==
    /\ DOMAIN messages \subseteq Nat \ {0}
    /\ IsFiniteSet(DOMAIN messages)
    /\ messages = [k \in DOMAIN messages |-> messages[k]]
    /\ \A k \in DOMAIN messages : messages[k] \in Message
    /\ log \in Seq(Call)
    /\ removes \in Seq([key : RemoveKeys, after : Nat])
    /\ removed \subseteq Nat
    /\ user \in [Sessions -> Users \cup {Undefined}]
    /\ view = [t \in Tabs |-> view[t]]

(* The messages the server accepted, by the number of the call. *)
Accepted == {n \in DOMAIN log : log[n].reply = "ok"}

(* Since message n came the operator has asked for its removal, by its     *)
(* number or by its sender's address.                                      *)
Asked(n) == \E i \in DOMAIN removes :
    removes[i].after >= n /\ removes[i].key \in {log[n].id, log[n].mail}

(* No message to the photographer gets lost behind anybody's back: what is *)
(* in the table was accepted, from that address and under that id, and     *)
(* what was accepted is in the table until the operator asks for its       *)
(* removal, although ids are computed from the number of rows and are      *)
(* given again after a removal.                                            *)
MessagesKept ==
    /\ \A k \in DOMAIN messages : LET n == messages[k].n IN
        n \in Accepted /\ log[n].id = k /\ log[n].mail = messages[k].mail
    /\ \A n \in Accepted :
        Asked(n) \/ (log[n].id \in DOMAIN messages /\ messages[log[n].id].n = n)

(* What the comment "remove message from database" on remove promises: a   *)
(* message is gone after its sender's address was removed.                 *)
RemoveTakesEffect ==
    \A i \in DOMAIN removes, k \in DOMAIN messages :
        messages[k].mail = removes[i].key => messages[k].n > removes[i].after

(* The calls whose messages a table holds, and what the tabs show of them, *)
(* for the abstract specification.                                         *)
Calls(tab) == {tab[k].n : k \in DOMAIN tab}
Shown == [t \in Tabs |-> IF view[t].open THEN Calls(view[t].rows) ELSE {}]

Abstract == INSTANCE Board WITH Readers <- Tabs,
                                live <- Calls(messages),
                                posted <- Len(log),
                                pruned <- removed # {},
                                shown <- Shown

(* The messages are a message board: none is refused before a row of the   *)
(* table has been removed; a visitor who writes sees none of them, and the *)
(* photographer all there are when the page is rendered.                   *)
ImplementsBoard == Abstract!Spec
=============================================================================
