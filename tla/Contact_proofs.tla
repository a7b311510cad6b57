--------------------------- MODULE Contact_proofs ---------------------------
(***************************************************************************)
(* Proofs about the contact page for any number of tabs, messages and      *)
(* calls of remove.                                                        *)
(***************************************************************************)
EXTENDS Contact, FiniteSetTheorems, TLAPS

(* The table starts empty. *)
LEMMA TypeInit == Init => TypeOK
  BY FS_EmptySet DEF Init, EmptyTable, TypeOK

(* There are m numbers from 1 to m. *)
LEMMA CountTo ==
  ASSUME NEW m \in Nat
  PROVE  IsFiniteSet(1..m) /\ Cardinality(1..m) = m
  <1>1. /\ IsFiniteSet(1..m)
        /\ Cardinality(1..m) = IF 1 > m THEN 0 ELSE m - 1 + 1
    BY FS_Interval
  <1> QED
    BY <1>1

(* What a step of remove does: the row of that key goes, if there is one,  *)
(* and its message is one of those that were asked for.                    *)
LEMMA RemoveStep ==
  ASSUME TypeOK, NEW key \in RemoveKeys, remove(key)
  PROVE  /\ log' = log
         /\ view' = view
         /\ user' = user
         /\ Len(log) \in Nat
         /\ DOMAIN log = 1..Len(log)
         /\ removes' \in Seq([key : RemoveKeys, after : Nat])
         /\ Len(removes) \in Nat
         /\ DOMAIN removes = 1..Len(removes)
         /\ DOMAIN removes' = 1..(Len(removes) + 1)
         /\ \A i \in DOMAIN removes : removes'[i] = removes[i]
         /\ removes'[Len(removes) + 1] = [key |-> key, after |-> Len(log)]
         /\ DOMAIN messages' = DOMAIN messages \ {key}
         /\ messages' = [k \in DOMAIN messages' |-> messages'[k]]
         /\ \A k \in DOMAIN messages' : messages'[k] = messages[k]
         /\ key \notin DOMAIN messages => messages' = messages /\ removed' = removed
         /\ key \in DOMAIN messages => removed' = removed \cup {messages[key].n}
  <1>1. /\ log' = log /\ view' = view /\ user' = user
        /\ removes' = Append(removes, [key |-> key, after |-> Len(log)])
        /\ removed' = removed \cup {row.n : row \in Read(messages, key)}
        /\ messages' = [k \in DOMAIN messages \ {key} |-> messages[k]]
    BY DEF remove, RemoveKey, Delete
  <1>2. /\ log \in Seq(Call) /\ Len(log) \in Nat /\ DOMAIN log = 1..Len(log)
        /\ removes \in Seq([key : RemoveKeys, after : Nat])
    BY DEF TypeOK
  <1>3. [key |-> key, after |-> Len(log)] \in [key : RemoveKeys, after : Nat]
    BY <1>2
  <1> DEFINE Entry == [key : RemoveKeys, after : Nat]
             e == [key |-> key, after |-> Len(log)]
  <1>4. removes \in Seq(Entry) /\ e \in Entry /\ removes' = Append(removes, e)
    BY <1>1, <1>2, <1>3
  <1> HIDE DEF Entry, e
  <1>5. /\ removes' \in Seq(Entry)
        /\ Len(removes) \in Nat
        /\ DOMAIN removes = 1..Len(removes)
        /\ DOMAIN removes' = 1..(Len(removes) + 1)
        /\ \A i \in DOMAIN removes : removes'[i] = removes[i]
        /\ removes'[Len(removes) + 1] = e
    BY <1>4
  <1>6. /\ DOMAIN messages' = DOMAIN messages \ {key}
        /\ messages' = [k \in DOMAIN messages' |-> messages'[k]]
        /\ \A k \in DOMAIN messages' : messages'[k] = messages[k]
    BY <1>1
  <1>7. CASE key \notin DOMAIN messages
    <2>1. Read(messages, key) = {}
      BY <1>7 DEF Read
    <2>2. DOMAIN messages \ {key} = DOMAIN messages
      BY <1>7
    <2>3. messages' = messages
      BY <1>1, <2>2 DEF TypeOK
    <2> QED
      BY <1>1, <1>2, <1>5, <1>6, <1>7, <2>1, <2>3 DEF Entry, e
  <1>8. CASE key \in DOMAIN messages
    <2>1. Read(messages, key) = {messages[key]}
      BY <1>8 DEF Read
    <2>2. {row.n : row \in {messages[key]}} = {messages[key].n}
      OBVIOUS
    <2> QED
      BY <1>1, <1>2, <1>5, <1>6, <1>8, <2>1, <2>2 DEF Entry, e
  <1> QED
    BY <1>7, <1>8

(* What a step of event(save) does to the table and the log. *)
LEMMA SaveStep ==
  ASSUME TypeOK, NEW t \in Tabs, NEW mail \in Mails, event_save(t, mail)
  PROVE  LET k == NextId(messages)
             n == Len(log) + 1
         IN  /\ Len(log) \in Nat
             /\ k \in Nat \ {0}
             /\ k = Cardinality(DOMAIN messages) + 1
             /\ log' \in Seq(Call)
             /\ Len(log') = n
             /\ DOMAIN log = 1..Len(log)
             /\ DOMAIN log' = 1..n
             /\ \A m \in DOMAIN log : log'[m] = log[m]
             /\ log'[n].mail = mail
             /\ log'[n].id = k
             /\ \/ /\ k \notin DOMAIN messages
                   /\ log'[n].reply = "ok"
                   /\ messages' = Write(messages, k, [mail |-> mail, n |-> n])
                \/ /\ k \in DOMAIN messages
                   /\ log'[n].reply = "already_inserted"
                   /\ messages' = messages
  <1> DEFINE reply == add_message_reply(messages)
             id == NextId(messages)
             Entry == Call
  <1>1. log \in Seq(Entry) /\ Len(log) \in Nat
    BY DEF TypeOK
  <1>2. NextId(messages) \in Nat \ {0} /\ NextId(messages) = Cardinality(DOMAIN messages) + 1
    BY FS_CardinalityType DEF TypeOK, NextId, DirtyAllKeys
  <1>3. [mail |-> mail, id |-> id, reply |-> reply] \in Entry
    BY <1>2 DEF add_message_reply, Call
  <1>4. log' = Append(log, [mail |-> mail, id |-> id, reply |-> reply])
    BY DEF event_save
  <1> HIDE DEF reply, Entry, id
  <1>5. /\ log' \in Seq(Entry)
        /\ Len(log') = Len(log) + 1
        /\ DOMAIN log = 1..Len(log)
        /\ DOMAIN log' = 1..(Len(log) + 1)
        /\ \A m \in DOMAIN log : log'[m] = log[m]
        /\ log'[Len(log) + 1] = [mail |-> mail, id |-> id, reply |-> reply]
    BY <1>1, <1>3, <1>4
  <1>6. /\ log'[Len(log) + 1].reply = reply /\ log'[Len(log) + 1].mail = mail
        /\ log'[Len(log) + 1].id = id
    BY <1>5
  <1>7. Read(messages, NextId(messages)) = {} <=> NextId(messages) \notin DOMAIN messages
    BY DEF Read
  <1>8. /\ NextId(messages) \notin DOMAIN messages => reply = "ok"
        /\ NextId(messages) \in DOMAIN messages => reply = "already_inserted"
    BY <1>7 DEF reply, add_message_reply
  <1>9. messages' = IF reply = "ok"
                    THEN Write(messages, NextId(messages), [mail |-> mail, n |-> Len(log) + 1])
                    ELSE messages
    BY DEF event_save, reply
  <1> QED
    BY <1>1, <1>2, <1>5, <1>6, <1>8, <1>9 DEF Entry, id

(* The steps that are neither a save nor a remove leave the table and the  *)
(* history alone.                                                          *)
LEMMA PageStep ==
  ASSUME TypeOK, [Next]_vars,
         ~ \E t \in Tabs, mail \in Mails : event_save(t, mail),
         ~ \E key \in RemoveKeys : remove(key)
  PROVE  messages' = messages /\ log' = log /\ removes' = removes /\ removed' = removed
  BY DEF Next, vars, body, event_menu, event_logout, login

(* Every step keeps the types. *)
LEMMA TypeStep == TypeOK /\ [Next]_vars => TypeOK'
  <1> SUFFICES ASSUME TypeOK, [Next]_vars PROVE TypeOK'
    OBVIOUS
  <1>1. /\ user' \in [Sessions -> Users \cup {Undefined}]
        /\ view' = [t \in Tabs |-> view'[t]]
    <2>1. CASE \E t \in Tabs : body(t) \/ event_menu(t) \/ event_logout(t)
      BY <2>1 DEF TypeOK, body, event_menu, event_logout
    <2>2. CASE \E t \in Tabs, mail \in Mails : event_save(t, mail)
      BY <2>2 DEF TypeOK, event_save
    <2>3. CASE \E s \in Sessions, u \in Users : login(s, u)
      BY <2>3 DEF TypeOK, login
    <2>4. CASE \E key \in RemoveKeys : remove(key)
      BY <2>4 DEF TypeOK, remove
    <2>5. CASE UNCHANGED vars
      BY <2>5 DEF TypeOK, vars
    <2> QED
      BY <2>1, <2>2, <2>3, <2>4, <2>5 DEF Next
  <1>2. CASE \E t \in Tabs, mail \in Mails : event_save(t, mail)
    <2>1. PICK t \in Tabs, mail \in Mails : event_save(t, mail)
      BY <1>2
    <2> DEFINE k == NextId(messages)
               row == [mail |-> mail, n |-> Len(log) + 1]
    <2>2. /\ Len(log) \in Nat
          /\ k \in Nat \ {0}
          /\ log' \in Seq(Call)
          /\ messages' = messages \/ messages' = Write(messages, k, row)
      BY <2>1, SaveStep
    <2>3. row \in Message
      BY <2>2 DEF Message
    <2>4. removes' = removes /\ removed' = removed
      BY <2>1 DEF event_save
    <2> HIDE DEF k, row
    <2>5. IsFiniteSet(DOMAIN messages \cup {k})
      BY FS_AddElement DEF TypeOK
    <2>6. CASE messages' = Write(messages, k, row)
      <3>1. /\ DOMAIN messages' = DOMAIN messages \cup {k}
            /\ messages' = [i \in DOMAIN messages \cup {k} |->
                               IF i = k THEN row ELSE messages[i]]
        BY <2>6 DEF Write
      <3>2. messages' = [i \in DOMAIN messages' |-> messages'[i]]
        BY <3>1
      <3>3. \A i \in DOMAIN messages' : messages'[i] \in Message
        BY <2>3, <3>1 DEF TypeOK
      <3> QED
        BY <1>1, <2>2, <2>4, <2>5, <3>1, <3>2, <3>3 DEF TypeOK
    <2>7. CASE messages' = messages
      BY <1>1, <2>2, <2>4, <2>7 DEF TypeOK
    <2> QED
      BY <2>2, <2>6, <2>7
  <1>3. ASSUME NEW key \in RemoveKeys, remove(key) PROVE TypeOK'
    <2>1. /\ log' = log
          /\ removes' \in Seq([key : RemoveKeys, after : Nat])
          /\ DOMAIN messages' = DOMAIN messages \ {key}
          /\ messages' = [k \in DOMAIN messages' |-> messages'[k]]
          /\ \A k \in DOMAIN messages' : messages'[k] = messages[k]
          /\ removed' = removed \/ (key \in DOMAIN messages
                                      /\ removed' = removed \cup {messages[key].n})
      BY <1>3, RemoveStep
    <2>2. IsFiniteSet(DOMAIN messages \ {key})
      BY FS_RemoveElement DEF TypeOK
    <2>3. removed' \subseteq Nat
      BY <2>1 DEF TypeOK, Message
    <2> QED
      BY <1>1, <2>1, <2>2, <2>3 DEF TypeOK
  <1>4. CASE /\ ~ \E t \in Tabs, mail \in Mails : event_save(t, mail)
             /\ ~ \E key \in RemoveKeys : remove(key)
    BY <1>1, <1>4, PageStep DEF TypeOK
  <1> QED
    BY <1>2, <1>3, <1>4

(* The types hold in every reachable state of the contact page. *)
THEOREM TypeCorrect == Spec => []TypeOK
  BY TypeInit, TypeStep, PTL DEF Spec
----------------------------------------------------------------------------
(* As long as no row was removed no message has been refused and the ids   *)
(* are those of the calls.                                                 *)
DenseUntilRemove ==
    removed = {} =>
        /\ DOMAIN messages = 1..Len(log)
        /\ \A n \in DOMAIN log : log[n].reply = "ok"

Inv == TypeOK /\ MessagesKept /\ DenseUntilRemove

(* The contact page starts in the invariant. *)
LEMMA InvInit == Init => Inv
  <1> SUFFICES ASSUME Init PROVE Inv
    OBVIOUS
  <1>1. TypeOK
    BY TypeInit
  <1>2. /\ DOMAIN messages = {}
        /\ Len(log) = 0 /\ DOMAIN log = {}
        /\ 1..0 = {}
    BY DEF Init, EmptyTable
  <1> QED
    BY <1>1, <1>2 DEF Inv, MessagesKept, Accepted, DenseUntilRemove

(* add_message writes only under a free id, so it overwrites nothing; and  *)
(* the id is free when no row was ever removed.                            *)
LEMMA InvSave ==
  ASSUME Inv, NEW t \in Tabs, NEW mail \in Mails, event_save(t, mail)
  PROVE  MessagesKept' /\ DenseUntilRemove'
  <1> DEFINE n == Len(log) + 1
             k == NextId(messages)
             row == [mail |-> mail, n |-> n]
  <1>1. TypeOK
    BY DEF Inv
  <1>2. /\ Len(log) \in Nat
        /\ k = Cardinality(DOMAIN messages) + 1
        /\ Len(log') = n
        /\ DOMAIN log = 1..Len(log)
        /\ DOMAIN log' = 1..n
        /\ \A m \in DOMAIN log : log'[m] = log[m]
        /\ log'[n].mail = mail
        /\ log'[n].id = k
        /\ \/ /\ k \notin DOMAIN messages
              /\ log'[n].reply = "ok"
              /\ messages' = Write(messages, k, row)
           \/ /\ k \in DOMAIN messages
              /\ log'[n].reply = "already_inserted"
              /\ messages' = messages
    BY <1>1, SaveStep
  <1>3. removes' = removes /\ removed' = removed
    BY DEF event_save
  <1>4. n \notin DOMAIN log /\ DOMAIN log' = DOMAIN log \cup {n}
    BY <1>2
  <1>5. row.n = n /\ row.mail = mail
    OBVIOUS
  <1>6. removed = {} => k = n /\ k \notin DOMAIN messages
    <2>1. removed = {} => Cardinality(DOMAIN messages) = Len(log)
      BY <1>2, CountTo DEF Inv, DenseUntilRemove
    <2> QED
      BY <1>2, <2>1 DEF Inv, DenseUntilRemove
  <1> HIDE DEF n, k, row
  <1>7. \A m \in DOMAIN log : Asked(m) => Asked(m)'
    BY <1>2, <1>3 DEF Asked
  <1>8. /\ \A i \in DOMAIN messages : i \in DOMAIN messages' /\ messages'[i] = messages[i]
        /\ \/ /\ k \notin DOMAIN messages
              /\ log'[n].reply = "ok"
              /\ DOMAIN messages' = DOMAIN messages \cup {k}
              /\ messages'[k] = row
           \/ /\ k \in DOMAIN messages
              /\ log'[n].reply = "already_inserted"
              /\ messages' = messages
    BY <1>2 DEF Write
  <1>9. MessagesKept'
    <2>1. ASSUME NEW i \in DOMAIN messages'
          PROVE  LET m == messages'[i].n IN
                 /\ m \in DOMAIN log' /\ log'[m].reply = "ok"
                 /\ log'[m].id = i /\ log'[m].mail = messages'[i].mail
      <3>1. CASE i \in DOMAIN messages
        <4> DEFINE m == messages[i].n
        <4>1. messages'[i] = messages[i]
          BY <1>8, <3>1
        <4>2. /\ m \in DOMAIN log /\ log[m].reply = "ok"
              /\ log[m].id = i /\ log[m].mail = messages[i].mail
          BY <3>1 DEF Inv, MessagesKept, Accepted
        <4>3. m \in DOMAIN log' /\ log'[m] = log[m]
          BY <1>2, <1>4, <4>2
        <4> QED
          BY <4>1, <4>2, <4>3
      <3>2. CASE i \notin DOMAIN messages
        BY <1>2, <1>4, <1>5, <1>8, <3>2
      <3> QED
        BY <3>1, <3>2
    <2>2. ASSUME NEW m \in DOMAIN log', log'[m].reply = "ok"
          PROVE  \/ Asked(m)'
                 \/ log'[m].id \in DOMAIN messages' /\ messages'[log'[m].id].n = m
      <3>1. CASE m = n
        BY <1>2, <1>5, <1>8, <2>2, <3>1
      <3>2. CASE m # n
        <4>1. m \in Accepted /\ log'[m] = log[m]
          BY <1>2, <1>4, <2>2, <3>2 DEF Accepted
        <4> QED
          BY <1>7, <1>8, <4>1 DEF Inv, MessagesKept, Accepted
      <3> QED
        BY <3>1, <3>2
    <2> QED
      BY <2>1, <2>2 DEF MessagesKept, Accepted
  <1>10. DenseUntilRemove'
    <2> SUFFICES ASSUME removed = {}
                 PROVE  /\ DOMAIN messages' = DOMAIN log'
                        /\ \A m \in DOMAIN log' : log'[m].reply = "ok"
      BY <1>2, <1>3 DEF DenseUntilRemove
    <2> QED
      BY <1>2, <1>4, <1>6, <1>8 DEF Inv, DenseUntilRemove
  <1> QED
    BY <1>9, <1>10

(* remove takes the row of one message at most, and one whose number was   *)
(* given, so one that was asked for.                                       *)
LEMMA InvRemove ==
  ASSUME Inv, NEW key \in RemoveKeys, remove(key)
  PROVE  MessagesKept' /\ DenseUntilRemove'
  <1> DEFINE r == Len(removes) + 1
  <1>1. TypeOK
    BY DEF Inv
  <1>2. /\ log' = log
        /\ Len(log) \in Nat /\ DOMAIN log = 1..Len(log)
        /\ Len(removes) \in Nat
        /\ DOMAIN removes = 1..Len(removes)
        /\ DOMAIN removes' = 1..r
        /\ \A i \in DOMAIN removes : removes'[i] = removes[i]
        /\ removes'[r] = [key |-> key, after |-> Len(log)]
        /\ DOMAIN messages' = DOMAIN messages \ {key}
        /\ \A k \in DOMAIN messages' : messages'[k] = messages[k]
        /\ key \notin DOMAIN messages => messages' = messages /\ removed' = removed
        /\ key \in DOMAIN messages => removed' = removed \cup {messages[key].n}
    BY <1>1, RemoveStep
  <1>3. DOMAIN removes' = DOMAIN removes \cup {r}
    BY <1>2
  <1> HIDE DEF r
  <1>4. Accepted' = Accepted
    BY <1>2 DEF Accepted
  <1>5. \A m \in DOMAIN log : Asked(m) => Asked(m)'
    BY <1>2, <1>3 DEF Asked
  <1>6. \A m \in DOMAIN log : log[m].id = key => Asked(m)'
    <2> SUFFICES ASSUME NEW m \in DOMAIN log, log[m].id = key PROVE Asked(m)'
      OBVIOUS
    <2>1. removes'[r].after >= m /\ removes'[r].key \in {log'[m].id, log'[m].mail}
      BY <1>2
    <2>2. r \in DOMAIN removes'
      BY <1>3
    <2> QED
      BY <2>1, <2>2 DEF Asked
  <1>7. MessagesKept'
    <2>1. ASSUME NEW k \in DOMAIN messages'
          PROVE  LET n == messages'[k].n IN
                 n \in Accepted /\ log[n].id = k /\ log[n].mail = messages'[k].mail
      BY <1>2 DEF Inv, MessagesKept
    <2>2. ASSUME NEW n \in Accepted
          PROVE  \/ Asked(n)'
                 \/ log[n].id \in DOMAIN messages' /\ messages'[log[n].id].n = n
      <3>1. n \in DOMAIN log
        BY DEF Accepted
      <3>2. CASE Asked(n) \/ log[n].id = key
        BY <1>5, <1>6, <3>1, <3>2
      <3>3. CASE ~Asked(n) /\ log[n].id # key
        BY <1>2, <3>3 DEF Inv, MessagesKept
      <3> QED
        BY <3>2, <3>3
    <2> QED
      BY <1>2, <1>4, <2>1, <2>2 DEF MessagesKept
  <1>8. DenseUntilRemove'
    BY <1>2 DEF Inv, DenseUntilRemove
  <1> QED
    BY <1>7, <1>8

(* Every step keeps the invariant. *)
LEMMA InvStep == Inv /\ [Next]_vars => Inv'
  <1> SUFFICES ASSUME Inv, [Next]_vars PROVE Inv'
    OBVIOUS
  <1>1. TypeOK /\ TypeOK'
    BY TypeStep DEF Inv
  <1>2. CASE \E t \in Tabs, mail \in Mails : event_save(t, mail)
    BY <1>1, <1>2, InvSave DEF Inv
  <1>3. CASE \E key \in RemoveKeys : remove(key)
    BY <1>1, <1>3, InvRemove DEF Inv
  <1>4. CASE /\ ~ \E t \in Tabs, mail \in Mails : event_save(t, mail)
             /\ ~ \E key \in RemoveKeys : remove(key)
    <2>1. messages' = messages /\ log' = log /\ removes' = removes /\ removed' = removed
      BY <1>1, <1>4, PageStep
    <2> QED
      BY <1>1, <2>1 DEF Inv, MessagesKept, Accepted, Asked, DenseUntilRemove
  <1> QED
    BY <1>2, <1>3, <1>4

(* No message to the photographer is lost unless its removal was asked for. *)
THEOREM NothingLost == Spec => []MessagesKept
  <1>1. Inv => MessagesKept
    BY DEF Inv
  <1> QED
    BY <1>1, InvInit, InvStep, PTL DEF Spec

(* Until a row is removed no message is refused and the ids have no gap. *)
THEOREM DenseIds == Spec => []DenseUntilRemove
  <1>1. Inv => DenseUntilRemove
    BY DEF Inv
  <1> QED
    BY <1>1, InvInit, InvStep, PTL DEF Spec
----------------------------------------------------------------------------
(***************************************************************************)
(* The refinement needs one fact more: the page of someone who is not      *)
(* logged in, which is the one with the form, shows no message, so that    *)
(* the tab which leaves it with event(save) does not look away.            *)
(***************************************************************************)
FormShowsNothing ==
    \A t \in Tabs : view[t].open /\ view[t].user = Undefined =>
        view[t].rows = EmptyTable

(* Pages are built so. *)
LEMMA FormStep ==
  ASSUME TypeOK, FormShowsNothing, [Next]_vars
  PROVE  FormShowsNothing'
  <1>1. \A r \in Tabs : \/ view'[r] = view[r]
                         \/ view'[r] = NoPage
                         \/ \E u : view'[r] = Page(messages, u)
    <2>1. CASE \E t \in Tabs : body(t)
      BY <2>1 DEF TypeOK, body
    <2>2. CASE \/ \E t \in Tabs : event_menu(t) \/ event_logout(t)
               \/ \E t \in Tabs, mail \in Mails : event_save(t, mail)
      BY <2>2 DEF TypeOK, event_menu, event_logout, event_save
    <2>3. CASE view' = view
      BY <2>3
    <2> QED
      BY <2>1, <2>2, <2>3 DEF Next, vars, login, remove
  <1>2. ~NoPage.open
    BY DEF NoPage
  <1>3. \A u : Page(messages, u).user = Undefined => Page(messages, u).rows = EmptyTable
    BY DEF Page
  <1> QED
    BY <1>1, <1>2, <1>3 DEF FormShowsNothing

(* An empty table holds no message. *)
LEMMA NoCalls == Calls(EmptyTable) = {}
  BY DEF Calls, EmptyTable

(* Writing is a Post or, only on a board something was removed from, a     *)
(* Refuse; the tab that leaves the form showed nothing.                    *)
LEMMA SaveImplements ==
  ASSUME Inv, FormShowsNothing, NEW t \in Tabs, NEW mail \in Mails, event_save(t, mail)
  PROVE  Abstract!Post \/ Abstract!Refuse
  <1> DEFINE n == Len(log) + 1
             k == NextId(messages)
             row == [mail |-> mail, n |-> n]
  <1>1. TypeOK
    BY DEF Inv
  <1>2. /\ Len(log) \in Nat
        /\ Len(log') = n
        /\ k = Cardinality(DOMAIN messages) + 1
        /\ \/ k \notin DOMAIN messages /\ messages' = Write(messages, k, row)
           \/ k \in DOMAIN messages /\ messages' = messages
    BY <1>1, SaveStep
  <1>3. k \in DOMAIN messages => removed # {}
    <2> SUFFICES ASSUME removed = {} PROVE k \notin DOMAIN messages
      OBVIOUS
    <2>1. DOMAIN messages = 1..Len(log)
      BY DEF Inv, DenseUntilRemove
    <2>2. Cardinality(DOMAIN messages) = Len(log)
      BY <1>2, <2>1, CountTo
    <2> QED
      BY <1>2, <2>1, <2>2
  <1>4. row.n = n
    OBVIOUS
  <1>5. removed' = removed
    BY DEF event_save
  <1> HIDE DEF n, k, row
  <1>6. Shown' = Shown
    <2>1. view[t].open /\ view[t].rows = EmptyTable
      BY DEF event_save, Form, FormShowsNothing
    <2>2. \A r \in Tabs : view'[r] = IF r = t THEN NoPage ELSE view[r]
      BY <1>1 DEF event_save, TypeOK
    <2>3. \A r \in Tabs : (IF view'[r].open THEN Calls(view'[r].rows) ELSE {}) =
                          (IF view[r].open THEN Calls(view[r].rows) ELSE {})
      BY <2>1, <2>2, NoCalls DEF NoPage
    <2>4. Shown' = [r \in Tabs |-> IF view'[r].open THEN Calls(view'[r].rows) ELSE {}]
      BY DEF Shown, Calls
    <2> QED
      BY <2>3, <2>4 DEF Shown
  <1>7. CASE k \notin DOMAIN messages /\ messages' = Write(messages, k, row)
    <2>1. /\ DOMAIN messages' = DOMAIN messages \cup {k}
          /\ messages'[k] = row
          /\ \A i \in DOMAIN messages : messages'[i] = messages[i]
      BY <1>7 DEF Write
    <2>2. Calls(messages') = Calls(messages) \cup {n}
      BY <1>4, <2>1 DEF Calls
    <2> QED
      BY <1>2, <1>5, <1>6, <2>2 DEF Abstract!Post, n
  <1>8. CASE k \in DOMAIN messages /\ messages' = messages
    BY <1>2, <1>3, <1>5, <1>6, <1>8 DEF Abstract!Refuse, n
  <1> QED
    BY <1>2, <1>7, <1>8

(* Removing takes one message down, or nothing. *)
LEMMA RemoveImplements ==
  ASSUME Inv, NEW key \in RemoveKeys, remove(key)
  PROVE  \/ \E gone \in SUBSET Calls(messages) : Abstract!TakeDown(gone)
         \/ UNCHANGED <<Calls(messages), Len(log), removed # {}, Shown>>
  <1>1. TypeOK
    BY DEF Inv
  <1>2. /\ log' = log /\ view' = view
        /\ DOMAIN messages' = DOMAIN messages \ {key}
        /\ \A k \in DOMAIN messages' : messages'[k] = messages[k]
        /\ key \notin DOMAIN messages => messages' = messages /\ removed' = removed
        /\ key \in DOMAIN messages => removed' = removed \cup {messages[key].n}
    BY <1>1, RemoveStep
  <1>3. Shown' = Shown
    BY <1>2 DEF Shown, Calls
  <1>4. CASE key \notin DOMAIN messages
    BY <1>2, <1>3, <1>4
  <1>5. CASE key \in DOMAIN messages
    <2> DEFINE n == messages[key].n
    <2>1. \A i \in DOMAIN messages : messages[i].n = n => i = key
      BY <1>5 DEF Inv, MessagesKept
    <2>2. Calls(messages') = Calls(messages) \ {n}
      BY <1>2, <1>5, <2>1 DEF Calls
    <2>3. n \in Calls(messages)
      BY <1>5 DEF Calls
    <2>4. removed' # {}
      BY <1>2, <1>5
    <2> HIDE DEF n
    <2>5. Abstract!TakeDown({n})
      BY <1>2, <1>3, <2>2, <2>4 DEF Abstract!TakeDown
    <2> QED
      BY <2>3, <2>5
  <1> QED
    BY <1>4, <1>5

(* Every other step is a Look or a LookAway of one tab, or nothing. *)
LEMMA PageImplements ==
  ASSUME Inv, [Next]_vars,
         ~ \E t \in Tabs, mail \in Mails : event_save(t, mail),
         ~ \E key \in RemoveKeys : remove(key)
  PROVE  \/ \E r \in Tabs : Abstract!Look(r) \/ Abstract!LookAway(r)
         \/ UNCHANGED <<Calls(messages), Len(log), removed # {}, Shown>>
  <1>1. TypeOK
    BY DEF Inv
  <1>2. /\ messages' = messages /\ log' = log /\ removed' = removed
        /\ Calls(messages') = Calls(messages) /\ Len(log') = Len(log)
    BY <1>1, PageStep
  <1>3. Shown' = [r \in Tabs |-> IF view'[r].open THEN Calls(view'[r].rows) ELSE {}]
    BY DEF Shown, Calls
  <1>4. ASSUME NEW t \in Tabs, NEW p, view' = [view EXCEPT ![t] = p]
        PROVE  Shown' = [Shown EXCEPT ![t] = IF p.open THEN Calls(p.rows) ELSE {}]
    <2>1. \A r \in Tabs : view'[r] = IF r = t THEN p ELSE view[r]
      BY <1>1, <1>4 DEF TypeOK
    <2> QED
      BY <1>3, <2>1 DEF Shown
  <1>5. ASSUME NEW t \in Tabs, body(t)
        PROVE  Abstract!Look(t) \/ Abstract!LookAway(t)
    <2> DEFINE u == user[SessionOf[t]]
    <2>1. view' = [view EXCEPT ![t] = Page(messages, u)]
      BY <1>5 DEF body
    <2>2. Page(messages, u).open
      BY DEF Page
    <2>3. Shown' = [Shown EXCEPT ![t] = Calls(Page(messages, u).rows)]
      BY <1>4, <2>1, <2>2
    <2>4. CASE u = Undefined
      <3>1. Calls(Page(messages, u).rows) = {}
        BY <2>4, NoCalls DEF Page
      <3> QED
        BY <1>2, <2>3, <3>1 DEF Abstract!LookAway
    <2>5. CASE u # Undefined
      <3>1. Page(messages, u).rows = messages
        BY <2>5 DEF Page
      <3> QED
        BY <1>2, <2>3, <3>1 DEF Abstract!Look
    <2> QED
      BY <2>4, <2>5
  <1>6. ASSUME NEW t \in Tabs, event_menu(t) \/ event_logout(t)
        PROVE  Abstract!LookAway(t)
    <2>1. view' = [view EXCEPT ![t] = NoPage]
      BY <1>6 DEF event_menu, event_logout
    <2>2. ~NoPage.open
      BY DEF NoPage
    <2>3. Shown' = [Shown EXCEPT ![t] = {}]
      BY <1>4, <2>1, <2>2
    <2> QED
      BY <1>2, <2>3 DEF Abstract!LookAway
  <1>7. CASE view' = view
    <2>1. Shown' = Shown
      BY <1>3, <1>7 DEF Shown
    <2> QED
      BY <1>2, <2>1
  <1>8. \/ \E t \in Tabs : body(t) \/ event_menu(t) \/ event_logout(t)
        \/ view' = view
    BY DEF Next, vars, login
  <1> QED
    BY <1>5, <1>6, <1>7, <1>8

(* The messages to the photographer implement the abstract message board   *)
(* and refuse none before a row of the table was removed.                  *)
THEOREM Refinement == Spec => ImplementsBoard
  <1>1. Init => Abstract!Init
    <2> SUFFICES ASSUME Init PROVE Abstract!Init
      OBVIOUS
    <2>1. Calls(messages) = {} /\ Len(log) = 0 /\ ~(removed # {})
      BY NoCalls DEF Init
    <2>2. Shown = [t \in Tabs |-> {}]
      BY DEF Init, Shown, NoPage
    <2> QED
      BY <2>1, <2>2 DEF Abstract!Init
  <1>2. Inv /\ FormShowsNothing /\ [Next]_vars => [Abstract!Next]_(Abstract!vars)
    <2> SUFFICES ASSUME Inv, FormShowsNothing, [Next]_vars
                 PROVE  Abstract!Next \/ UNCHANGED Abstract!vars
      OBVIOUS
    <2>1. CASE \E t \in Tabs, mail \in Mails : event_save(t, mail)
      BY <2>1, SaveImplements DEF Abstract!Next
    <2>2. CASE \E key \in RemoveKeys : remove(key)
      BY <2>2, RemoveImplements DEF Abstract!Next, Abstract!vars
    <2>3. CASE /\ ~ \E t \in Tabs, mail \in Mails : event_save(t, mail)
               /\ ~ \E key \in RemoveKeys : remove(key)
      BY <2>3, PageImplements DEF Abstract!Next, Abstract!vars
    <2> QED
      BY <2>1, <2>2, <2>3
  <1>3. Init => Inv /\ FormShowsNothing
    BY InvInit DEF Init, FormShowsNothing, NoPage
  <1>4. Inv /\ FormShowsNothing /\ [Next]_vars => Inv' /\ FormShowsNothing'
    BY InvStep, FormStep DEF Inv
  <1> QED
    BY <1>1, <1>2, <1>3, <1>4, PTL DEF Spec, ImplementsBoard, Abstract!Spec
=============================================================================
