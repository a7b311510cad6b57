-------------------------- MODULE Guestbook_proofs --------------------------
(***************************************************************************)
(* Proofs about the guest book for any number of tabs, sessions, users and *)
(* submissions.                                                            *)
(***************************************************************************)
EXTENDS Guestbook, FiniteSetTheorems, TLAPS

(* Type correctness of the guest book. *)
LEMMA TypeInit == Init => TypeOK
  <1> SUFFICES ASSUME Init PROVE TypeOK
    OBVIOUS
  <1>1. IsTable(comments) /\ IsFiniteSet(DOMAIN comments)
    BY FS_EmptySet DEF Init, EmptyTable, IsTable
  <1>2. \A t \in Tabs : IsPage(view[t])
    BY DEF Init, IsPage
  <1>3. log \in Seq([by : Tabs, reply : {"ok", "already_inserted"}])
    BY DEF Init
  <1> QED
    BY <1>1, <1>2, <1>3 DEF Init, TypeOK

(* Writing a row keeps a table a table with finitely many keys. *)
LEMMA WriteTable ==
  ASSUME NEW tab, IsTable(tab), IsFiniteSet(DOMAIN tab),
         NEW k \in Nat \ {0}, NEW n \in Nat \ {0}
  PROVE  /\ IsTable(Write(tab, k, n))
         /\ IsFiniteSet(DOMAIN Write(tab, k, n))
         /\ DOMAIN Write(tab, k, n) = DOMAIN tab \cup {k}
  <1>1. DOMAIN Write(tab, k, n) = DOMAIN tab \cup {k}
    BY DEF Write
  <1>2. IsFiniteSet(DOMAIN tab \cup {k})
    BY FS_AddElement
  <1> QED
    BY <1>1, <1>2 DEF Write, IsTable

(* So does deleting one. *)
LEMMA DeleteTable ==
  ASSUME NEW tab, IsTable(tab), IsFiniteSet(DOMAIN tab), NEW k
  PROVE  /\ IsTable(Delete(tab, k))
         /\ IsFiniteSet(DOMAIN Delete(tab, k))
         /\ DOMAIN Delete(tab, k) = DOMAIN tab \ {k}
  <1>1. DOMAIN Delete(tab, k) = DOMAIN tab \ {k}
    BY DEF Delete
  <1>2. IsFiniteSet(DOMAIN tab \ {k})
    BY FS_RemoveElement
  <1> QED
    BY <1>1, <1>2 DEF Delete, IsTable

(* The id of a new comment is a positive number. *)
LEMMA NextIdType ==
  ASSUME NEW tab, IsFiniteSet(DOMAIN tab)
  PROVE  /\ NextId(tab) \in Nat \ {0}
         /\ Cardinality(DOMAIN tab) \in Nat
         /\ NextId(tab) = Cardinality(DOMAIN tab) + 1
  BY FS_CardinalityType DEF NextId, DirtyAllKeys

(* There are m numbers from 1 to m. *)
LEMMA CountTo ==
  ASSUME NEW m \in Nat
  PROVE  Cardinality(1..m) = m
  <1>1. Cardinality(1..m) = IF 1 > m THEN 0 ELSE m - 1 + 1
    BY FS_Interval
  <1> QED
    BY <1>1

(* What a step of event(save) does to the table and the log. *)
LEMMA SaveStep ==
  ASSUME TypeOK, NEW t \in Tabs, event_save(t)
  PROVE  /\ Len(log) \in Nat
         /\ log' \in Seq([by : Tabs, reply : {"ok", "already_inserted"}])
         /\ Len(log') = Len(log) + 1
         /\ DOMAIN log = 1..Len(log)
         /\ DOMAIN log' = 1..(Len(log) + 1)
         /\ \A n \in DOMAIN log : log'[n] = log[n]
         /\ \/ /\ NextId(comments) \notin DOMAIN comments
               /\ log'[Len(log) + 1].reply = "ok"
               /\ comments' = Write(comments, NextId(comments), Len(log) + 1)
            \/ /\ NextId(comments) \in DOMAIN comments
               /\ log'[Len(log) + 1].reply = "already_inserted"
               /\ comments' = comments
  <1> DEFINE reply == add_comment_reply(comments)
             Entry == [by : Tabs, reply : {"ok", "already_inserted"}]
  <1>1. log \in Seq(Entry) /\ Len(log) \in Nat
    BY DEF TypeOK
  <1>2. reply \in {"ok", "already_inserted"}
    BY DEF add_comment_reply
  <1>3. [by |-> t, reply |-> reply] \in Entry
    BY <1>2
  <1>4. log' = Append(log, [by |-> t, reply |-> reply])
    BY DEF event_save
  <1> HIDE DEF reply, Entry
  <1>5. /\ log' \in Seq(Entry)
        /\ Len(log') = Len(log) + 1
        /\ DOMAIN log = 1..Len(log)
        /\ DOMAIN log' = 1..(Len(log) + 1)
        /\ \A n \in DOMAIN log : log'[n] = log[n]
        /\ log'[Len(log) + 1] = [by |-> t, reply |-> reply]
    BY <1>1, <1>3, <1>4
  <1>6. log'[Len(log) + 1].reply = reply
    BY <1>5
  <1>7. Read(comments, NextId(comments)) = {} <=> NextId(comments) \notin DOMAIN comments
    BY DEF Read
  <1>8. /\ NextId(comments) \notin DOMAIN comments => reply = "ok"
        /\ NextId(comments) \in DOMAIN comments => reply = "already_inserted"
    BY <1>7 DEF reply, add_comment_reply
  <1>9. comments' = IF reply = "ok" THEN Write(comments, NextId(comments), Len(log) + 1)
                    ELSE comments
    BY DEF event_save, reply, add_comment_write
  <1> QED
    BY <1>1, <1>5, <1>6, <1>8, <1>9 DEF Entry

(* Every step keeps the types. *)
LEMMA TypeStep == TypeOK /\ [Next]_vars => TypeOK'
  <1> SUFFICES ASSUME TypeOK, [Next]_vars PROVE TypeOK'
    OBVIOUS
  <1>1. ASSUME NEW t \in Tabs, body(t) PROVE TypeOK'
    <2>1. IsPage(Page(comments, user[SessionOf[t]], Len(log)))
      BY SessionAssumption DEF TypeOK, IsPage, Page
    <2>2. \A r \in Tabs : IsPage(view'[r])
      BY <1>1, <2>1 DEF TypeOK, body
    <2>3. \A r \in Tabs : IsPage(view[r])'
      BY <1>1, <2>2 DEF body, IsPage
    <2> QED
      BY <1>1, <2>3 DEF TypeOK, body, IsTable
  <1>2. ASSUME NEW t \in Tabs, event_save(t) PROVE TypeOK'
    <2>1. IsTable(comments') /\ IsFiniteSet(DOMAIN comments')
      <3>1. IsTable(comments) /\ IsFiniteSet(DOMAIN comments)
        BY DEF TypeOK
      <3>2. NextId(comments) \in Nat \ {0} /\ Len(log) + 1 \in Nat \ {0}
        BY <1>2, <3>1, SaveStep, NextIdType
      <3>3. \/ comments' = comments
            \/ comments' = Write(comments, NextId(comments), Len(log) + 1)
        BY <1>2, SaveStep
      <3>4. /\ IsTable(Write(comments, NextId(comments), Len(log) + 1))
            /\ IsFiniteSet(DOMAIN Write(comments, NextId(comments), Len(log) + 1))
        BY ONLY <3>1, <3>2, WriteTable
      <3> QED
        BY ONLY <3>1, <3>3, <3>4 DEF IsTable
    <2>2. \A r \in Tabs : IsPage(view[r])'
      BY <1>2, SaveStep DEF TypeOK, event_save, IsPage
    <2> QED
      BY <1>2, <2>1, <2>2, SaveStep DEF TypeOK, event_save, IsTable
  <1>3. ASSUME NEW t \in Tabs, NEW id \in DeleteButtons(view[t]), event_delete(t, id)
        PROVE TypeOK'
    <2>1. IsTable(comments') /\ IsFiniteSet(DOMAIN comments')
      BY <1>3, DeleteTable DEF TypeOK, event_delete, remove
    <2>2. Read(comments, id) \subseteq Nat
      BY DEF TypeOK, Read, IsTable
    <2>3. \A r \in Tabs : IsPage(view[r])'
      BY <1>3 DEF TypeOK, event_delete, IsPage
    <2> QED
      BY <1>3, <2>1, <2>2, <2>3 DEF TypeOK, event_delete, IsTable
  <1>4. ASSUME NEW t \in Tabs, event_guestbook(t) PROVE TypeOK'
    <2>1. \A r \in Tabs : IsPage(view[r])'
      BY <1>4 DEF TypeOK, event_guestbook, IsPage
    <2> QED
      BY <1>4, <2>1 DEF TypeOK, event_guestbook, IsTable
  <1>5. ASSUME NEW t \in Tabs, event_menu(t) PROVE TypeOK'
    <2>1. \A r \in Tabs : IsPage(view[r])'
      BY <1>5 DEF TypeOK, event_menu, IsPage
    <2> QED
      BY <1>5, <2>1 DEF TypeOK, event_menu, IsTable
  <1>6. ASSUME NEW t \in Tabs, event_logout(t) PROVE TypeOK'
    <2>1. \A r \in Tabs : IsPage(view[r])'
      BY <1>6 DEF TypeOK, event_logout, IsPage
    <2> QED
      BY <1>6, <2>1 DEF TypeOK, event_logout, IsTable
  <1>7. ASSUME NEW s \in Sessions, NEW u \in Users, login(s, u) PROVE TypeOK'
    <2>1. \A r \in Tabs : IsPage(view[r])'
      BY <1>7 DEF TypeOK, login, IsPage
    <2> QED
      BY <1>7, <2>1 DEF TypeOK, login, IsTable
  <1>8. CASE UNCHANGED vars
    <2>1. \A r \in Tabs : IsPage(view[r])'
      BY <1>8 DEF TypeOK, vars, IsPage
    <2> QED
      BY <1>8, <2>1 DEF TypeOK, vars, IsTable
  <1> QED
    BY <1>1, <1>2, <1>3, <1>4, <1>5, <1>6, <1>7, <1>8 DEF Next

(* The types hold in every reachable state of the guest book. *)
THEOREM TypeCorrect == Spec => []TypeOK
  BY TypeInit, TypeStep, PTL DEF Spec
----------------------------------------------------------------------------
(***************************************************************************)
(* The inductive invariant: the invariants the runs check, strengthened by *)
(* what is known of the ids, before the first delete and after it, and by  *)
(* the bound of the number of rows by the number of calls, from which      *)
(* IdNeverAhead follows for a new row.                                     *)
(***************************************************************************)

(* As long as nothing was deleted, the id computed by length(...) + 1 is   *)
(* always free: no add_comment is refused and comment n has id n.          *)
DenseUntilDelete ==
    removed = {} => /\ Accepted = DOMAIN log
                    /\ DOMAIN comments = 1..Len(log)
                    /\ \A n \in DOMAIN comments : comments[n] = n

(* Reuse of ids only goes downwards: whatever was deleted in between, the  *)
(* id add_comment computes never runs ahead of the number of calls.        *)
IdNeverAhead == \A id \in DOMAIN comments : id <= comments[id]

RowsBound == Cardinality(DOMAIN comments) <= Len(log)

Inv ==
    /\ TypeOK
    /\ Conservation
    /\ DenseUntilDelete
    /\ RowsBound
    /\ IdNeverAhead
    /\ StalePageAgrees

(* What a step of event({delete, Id}) does to the table. *)
LEMMA DeleteStep ==
  ASSUME TypeOK, NEW t \in Tabs, NEW id, event_delete(t, id)
  PROVE  /\ log' = log
         /\ view' = view
         /\ id \in DeleteButtons(view[t])
         /\ comments' = Delete(comments, id)
         /\ \/ /\ id \notin DOMAIN comments
               /\ comments' = comments
               /\ removed' = removed
            \/ /\ id \in DOMAIN comments
               /\ removed' = removed \cup {comments[id]}
  <1>1. /\ log' = log
        /\ view' = view
        /\ id \in DeleteButtons(view[t])
        /\ comments' = Delete(comments, id)
        /\ removed' = removed \cup Read(comments, id)
    BY DEF event_delete, remove
  <1>2. CASE id \notin DOMAIN comments
    <2>1. Read(comments, id) = {}
      BY <1>2 DEF Read
    <2>2. DOMAIN comments \ {id} = DOMAIN comments
      BY <1>2
    <2>3. Delete(comments, id) = [k \in DOMAIN comments |-> comments[k]]
      BY <2>2 DEF Delete
    <2>4. Delete(comments, id) = comments
      BY <2>3 DEF TypeOK, IsTable
    <2> QED
      BY <1>1, <1>2, <2>1, <2>4
  <1>3. CASE id \in DOMAIN comments
    <2>1. Read(comments, id) = {comments[id]}
      BY <1>3 DEF Read
    <2> QED
      BY <1>1, <1>3, <2>1
  <1> QED
    BY <1>2, <1>3

(* Every other step leaves the table, the log and the deleted comments     *)
(* alone, and shows in a tab nothing, what it showed, or the table.        *)
LEMMA PageStep ==
  ASSUME TypeOK, [Next]_vars,
         ~ \E t \in Tabs : event_save(t),
         ~ \E t \in Tabs : \E id \in DeleteButtons(view[t]) : event_delete(t, id)
  PROVE  /\ comments' = comments
         /\ log' = log
         /\ removed' = removed
         /\ \A r \in Tabs :
                \/ view'[r] = view[r]
                \/ view'[r] = NoPage
                \/ \E u : view'[r] = Page(comments, u, Len(log))
  <1>1. CASE \E t \in Tabs : body(t)
    BY <1>1 DEF TypeOK, body
  <1>2. CASE \E t \in Tabs : event_guestbook(t) \/ event_menu(t) \/ event_logout(t)
    BY <1>2 DEF TypeOK, event_guestbook, event_menu, event_logout
  <1>3. CASE \E s \in Sessions, u \in Users : login(s, u)
    BY <1>3 DEF login
  <1>4. CASE UNCHANGED vars
    BY <1>4 DEF vars
  <1> QED
    BY <1>1, <1>2, <1>3, <1>4 DEF Next

(* The guest book starts in the invariant. *)
LEMMA InvInit == Init => Inv
  <1> SUFFICES ASSUME Init PROVE Inv
    OBVIOUS
  <1>1. TypeOK
    BY TypeInit
  <1>2. /\ DOMAIN comments = {}
        /\ log = << >> /\ Len(log) = 0 /\ DOMAIN log = {}
        /\ removed = {}
        /\ \A t \in Tabs : ~view[t].open
    BY DEF Init, EmptyTable, NoPage
  <1>3. Rows(comments) = {} /\ Accepted = {}
    BY <1>2 DEF Rows, Accepted
  <1>4. Conservation
    BY <1>2, <1>3 DEF Conservation
  <1>5. 1..0 = {}
    OBVIOUS
  <1>6. DenseUntilDelete
    BY <1>2, <1>3, <1>5 DEF DenseUntilDelete
  <1>7. RowsBound
    BY <1>2, FS_EmptySet DEF RowsBound
  <1>8. IdNeverAhead /\ StalePageAgrees
    BY <1>2 DEF IdNeverAhead, StalePageAgrees
  <1> QED
    BY <1>1, <1>4, <1>6, <1>7, <1>8 DEF Inv

(* Posting keeps the invariant. *)
LEMMA InvSave ==
  ASSUME Inv, TypeOK', NEW t \in Tabs, event_save(t)
  PROVE  Inv'
  <1> DEFINE n == Len(log) + 1
             k == NextId(comments)
  <1>1. /\ IsTable(comments)
        /\ IsFiniteSet(DOMAIN comments)
        /\ k \in Nat \ {0}
        /\ Cardinality(DOMAIN comments) \in Nat
        /\ k = Cardinality(DOMAIN comments) + 1
    BY NextIdType DEF Inv, TypeOK
  <1>2. /\ Len(log) \in Nat
        /\ Len(log') = n
        /\ DOMAIN log = 1..Len(log)
        /\ DOMAIN log' = 1..n
        /\ \A m \in DOMAIN log : log'[m] = log[m]
        /\ \/ /\ k \notin DOMAIN comments
              /\ log'[n].reply = "ok"
              /\ comments' = Write(comments, k, n)
           \/ /\ k \in DOMAIN comments
              /\ log'[n].reply = "already_inserted"
              /\ comments' = comments
    BY SaveStep DEF Inv
  <1>3. removed' = removed /\ view' = view
    BY DEF event_save
  <1>4. k <= n
    BY <1>1, <1>2 DEF Inv, RowsBound
  <1>5. n \notin Accepted /\ Accepted \subseteq 1..Len(log)
    BY <1>2 DEF Accepted
  <1>6. \A id \in DOMAIN comments : comments[id] \in Accepted \ removed
    BY DEF Inv, Conservation, Rows
  <1> HIDE DEF n, k
  <1>7. CASE k \notin DOMAIN comments
    <2>1. /\ log'[n].reply = "ok"
          /\ DOMAIN comments' = DOMAIN comments \cup {k}
          /\ comments'[k] = n
          /\ \A id \in DOMAIN comments : comments'[id] = comments[id]
      BY <1>2, <1>7 DEF Write
    <2>2. Accepted' = Accepted \cup {n}
      <3>1. DOMAIN log' = DOMAIN log \cup {n}
        BY <1>2 DEF n
      <3> QED
        BY <1>2, <2>1, <3>1 DEF Accepted
    <2>3. Rows(comments') = Rows(comments) \cup {n}
      BY <2>1 DEF Rows
    <2>4. Conservation'
      <3>1. n \notin removed
        BY <1>5 DEF Inv, Conservation
      <3>2. Rows(comments') = Accepted' \ removed'
        BY <1>3, <2>2, <2>3, <3>1 DEF Inv, Conservation
      <3>3. \A i, j \in DOMAIN comments' : comments'[i] = comments'[j] => i = j
        BY <1>5, <1>6, <2>1 DEF Inv, Conservation
      <3> QED
        BY <1>3, <2>2, <3>2, <3>3 DEF Inv, Conservation, Rows
    <2>5. DenseUntilDelete'
      <3> SUFFICES ASSUME removed = {}
                   PROVE  /\ Accepted' = DOMAIN log'
                          /\ DOMAIN comments' = 1..n
                          /\ \A m \in DOMAIN comments' : comments'[m] = m
        BY <1>2, <1>3 DEF DenseUntilDelete
      <3>1. /\ Accepted = DOMAIN log
            /\ DOMAIN comments = 1..Len(log)
            /\ \A m \in DOMAIN comments : comments[m] = m
        BY DEF Inv, DenseUntilDelete
      <3>2. k = n
        <4>1. Cardinality(DOMAIN comments) = Len(log)
          BY <1>2, <3>1, CountTo
        <4> QED
          BY <1>1, <1>2, <4>1 DEF n
      <3>3. 1..n = 1..Len(log) \cup {n}
        BY <1>2 DEF n
      <3> QED
        BY <1>2, <2>1, <2>2, <3>1, <3>2, <3>3
    <2>6. RowsBound'
      <3>1. Cardinality(DOMAIN comments') = Cardinality(DOMAIN comments) + 1
        BY <1>1, <1>7, <2>1, FS_AddElement
      <3> QED
        BY <1>1, <1>2, <3>1 DEF Inv, RowsBound, n
    <2>7. IdNeverAhead'
      BY <1>4, <2>1 DEF Inv, IdNeverAhead
    <2>8. StalePageAgrees'
      <3>1. \A r \in Tabs : view[r].open => ~(n <= view[r].at)
        BY <1>2 DEF Inv, TypeOK, IsPage, NoPage, n
      <3> QED
        BY <1>3, <2>1, <3>1 DEF Inv, StalePageAgrees
    <2> QED
      BY <2>4, <2>5, <2>6, <2>7, <2>8 DEF Inv
  <1>8. CASE k \in DOMAIN comments
    <2>1. comments' = comments /\ log'[n].reply # "ok"
      BY <1>2, <1>8
    <2>2. Accepted' = Accepted
      <3>1. DOMAIN log' = DOMAIN log \cup {n}
        BY <1>2 DEF n
      <3> QED
        BY <1>2, <2>1, <3>1 DEF Accepted
    <2>3. Conservation'
      BY <1>3, <2>1, <2>2 DEF Inv, Conservation, Rows
    <2>4. DenseUntilDelete'
      <3>1. removed # {}
        <4> SUFFICES ASSUME removed = {} PROVE FALSE
          OBVIOUS
        <4>1. DOMAIN comments = 1..Len(log)
          BY DEF Inv, DenseUntilDelete
        <4>2. k = n
          <5>1. Cardinality(DOMAIN comments) = Len(log)
            BY <1>2, <4>1, CountTo
          <5> QED
            BY <1>1, <1>2, <5>1 DEF n
        <4> QED
          BY <1>2, <1>8, <4>1, <4>2 DEF n
      <3> QED
        BY <1>3, <3>1 DEF DenseUntilDelete
    <2>5. RowsBound'
      BY <1>1, <1>2, <2>1 DEF Inv, RowsBound, n
    <2>6. IdNeverAhead'
      BY <2>1 DEF Inv, IdNeverAhead
    <2>7. StalePageAgrees'
      BY <1>3, <2>1 DEF Inv, StalePageAgrees
    <2> QED
      BY <2>3, <2>4, <2>5, <2>6, <2>7 DEF Inv
  <1> QED
    BY <1>7, <1>8

(* Deleting keeps the invariant. *)
LEMMA InvDelete ==
  ASSUME Inv, TypeOK', NEW t \in Tabs, NEW id, event_delete(t, id)
  PROVE  Inv'
  <1>1. TypeOK
    BY DEF Inv
  <1>2. /\ log' = log
        /\ view' = view
        /\ comments' = Delete(comments, id)
        /\ \/ /\ id \notin DOMAIN comments
              /\ comments' = comments
              /\ removed' = removed
           \/ /\ id \in DOMAIN comments
              /\ removed' = removed \cup {comments[id]}
    BY <1>1, DeleteStep
  <1>3. Accepted' = Accepted
    BY <1>2 DEF Accepted
  <1>4. CASE id \notin DOMAIN comments
    BY <1>2, <1>3, <1>4
       DEF Inv, Conservation, DenseUntilDelete, RowsBound, IdNeverAhead,
           StalePageAgrees, Rows
  <1>5. CASE id \in DOMAIN comments
    <2>1. /\ removed' = removed \cup {comments[id]}
          /\ DOMAIN comments' = DOMAIN comments \ {id}
          /\ \A k \in DOMAIN comments' : comments'[k] = comments[k]
      BY <1>2, <1>5 DEF Delete
    <2>2. comments[id] \in Accepted
      BY <1>5 DEF Inv, Conservation, Rows
    <2>3. Conservation'
      <3>1. Rows(comments') = Rows(comments) \ {comments[id]}
        BY <1>5, <2>1 DEF Rows, Inv, Conservation
      <3>2. Rows(comments') = Accepted' \ removed'
        BY <1>3, <2>1, <3>1 DEF Inv, Conservation
      <3> QED
        BY <1>3, <2>1, <2>2, <3>2 DEF Inv, Conservation, Rows
    <2>4. DenseUntilDelete'
      BY <2>1 DEF DenseUntilDelete
    <2>5. RowsBound'
      <3>1. IsFiniteSet(DOMAIN comments) /\ Cardinality(DOMAIN comments) \in Nat
        BY <1>1, FS_CardinalityType DEF TypeOK
      <3>2. Cardinality(DOMAIN comments') = Cardinality(DOMAIN comments) - 1
        BY <1>5, <2>1, <3>1, FS_RemoveElement
      <3>3. Len(log) \in Nat
        BY <1>1 DEF TypeOK
      <3> QED
        BY <1>2, <3>1, <3>2, <3>3 DEF Inv, RowsBound
    <2>6. IdNeverAhead'
      BY <2>1 DEF Inv, IdNeverAhead
    <2>7. StalePageAgrees'
      BY <1>2, <2>1 DEF Inv, StalePageAgrees
    <2> QED
      BY <2>3, <2>4, <2>5, <2>6, <2>7 DEF Inv
  <1> QED
    BY <1>4, <1>5

(* Every step keeps the invariant. *)
LEMMA InvStep == Inv /\ [Next]_vars => Inv'
  <1> SUFFICES ASSUME Inv, [Next]_vars PROVE Inv'
    OBVIOUS
  <1>1. TypeOK /\ TypeOK'
    BY TypeStep DEF Inv
  <1>2. CASE \E t \in Tabs : event_save(t)
    BY <1>1, <1>2, InvSave
  <1>3. CASE \E t \in Tabs : \E id \in DeleteButtons(view[t]) : event_delete(t, id)
    BY <1>1, <1>3, InvDelete
  <1>4. CASE /\ ~ \E t \in Tabs : event_save(t)
             /\ ~ \E t \in Tabs : \E id \in DeleteButtons(view[t]) : event_delete(t, id)
    <2>1. /\ comments' = comments
          /\ log' = log
          /\ removed' = removed
          /\ \A r \in Tabs :
                 \/ view'[r] = view[r]
                 \/ view'[r] = NoPage
                 \/ \E u : view'[r] = Page(comments, u, Len(log))
      BY <1>1, <1>4, PageStep
    <2>2. Accepted' = Accepted
      BY <2>1 DEF Accepted
    <2>3. Conservation' /\ DenseUntilDelete' /\ RowsBound' /\ IdNeverAhead'
      BY <2>1, <2>2
         DEF Inv, Conservation, DenseUntilDelete, RowsBound, IdNeverAhead, Rows
    <2>4. StalePageAgrees'
      <3> SUFFICES ASSUME NEW r \in Tabs, view'[r].open,
                          NEW id \in DOMAIN comments, comments[id] <= view'[r].at
                   PROVE  /\ id \in DOMAIN view'[r].rows
                          /\ view'[r].rows[id] = comments[id]
        BY <2>1 DEF StalePageAgrees
      <3>1. CASE view'[r] = view[r]
        BY <3>1 DEF Inv, StalePageAgrees
      <3>2. CASE view'[r] = NoPage
        BY <3>2 DEF NoPage
      <3>3. CASE \E u : view'[r] = Page(comments, u, Len(log))
        BY <3>3 DEF Page
      <3> QED
        BY <2>1, <3>1, <3>2, <3>3
    <2> QED
      BY <1>1, <2>3, <2>4 DEF Inv
  <1> QED
    BY <1>2, <1>3, <1>4

(* The inductive invariant holds in every reachable state. *)
THEOREM Invariance == Spec => []Inv
  BY InvInit, InvStep, PTL DEF Spec

(* No comment is lost or doubled: for any number of tabs and posts, the    *)
(* table holds exactly what was accepted and not deleted.                  *)
THEOREM NothingLost == Spec => []Conservation
  <1>1. Inv => Conservation
    BY DEF Inv
  <1> QED
    BY <1>1, Invariance, PTL

(* add_comment never refuses and numbers comments 1, 2, 3, ... as long as  *)
(* nobody deletes.                                                         *)
THEOREM DenseIds == Spec => []DenseUntilDelete
  <1>1. Inv => DenseUntilDelete
    BY DEF Inv
  <1> QED
    BY <1>1, Invariance, PTL

(* An id never runs ahead of the number of add_comment calls. *)
THEOREM IdsBounded == Spec => []IdNeverAhead
  <1>1. Inv => IdNeverAhead
    BY DEF Inv
  <1> QED
    BY <1>1, Invariance, PTL

(* A page that was rendered at any time in the past agrees with the table  *)
(* on every comment that is older than the page.                           *)
THEOREM StalePages == Spec => []StalePageAgrees
  <1>1. Inv => StalePageAgrees
    BY DEF Inv
  <1> QED
    BY <1>1, Invariance, PTL

(* A delete hits the comment shown beside the button, or a newer one.      *)
THEOREM Deletes == Spec => DeletesShownOrNewer
  <1> DEFINE A == /\ Cardinality(removed' \ removed) <= 1
                  /\ \A n \in removed' \ removed :
                       \E t \in Tabs : \E id \in DeleteButtons(view[t]) :
                           /\ id \in DOMAIN comments \ DOMAIN comments'
                           /\ comments[id] = n
                           /\ view[t].rows[id] = n \/ n > view[t].at
  <1>1. Inv /\ [Next]_vars => [A]_vars
    <2> SUFFICES ASSUME Inv, [Next]_vars PROVE A
      OBVIOUS
    <2>1. TypeOK
      BY DEF Inv
    <2>2. CASE removed' = removed
      <3>1. removed' \ removed = {}
        BY <2>2
      <3> QED
        BY <3>1, FS_EmptySet
    <2>3. CASE removed' # removed
      <3>1. ~ \E t \in Tabs : event_save(t)
        BY <2>3 DEF event_save
      <3>0. \E t \in Tabs : \E id \in DeleteButtons(view[t]) : event_delete(t, id)
        BY <2>1, <2>3, <3>1, PageStep
      <3>a. PICK t \in Tabs : \E id \in DeleteButtons(view[t]) : event_delete(t, id)
        BY <3>0
      <3>2. PICK id \in DeleteButtons(view[t]) : event_delete(t, id)
        BY <3>a
      <3>3. /\ id \in DOMAIN comments
            /\ comments' = Delete(comments, id)
            /\ removed' = removed \cup {comments[id]}
        BY <2>1, <2>3, <3>2, DeleteStep
      <3>4. comments[id] \notin removed
        BY <3>3 DEF Inv, Conservation, Rows
      <3>5. removed' \ removed = {comments[id]}
        BY <3>3, <3>4
      <3>6. Cardinality(removed' \ removed) <= 1
        BY <3>5, FS_Singleton
      <3>7. id \in DOMAIN comments \ DOMAIN comments'
        BY <3>3 DEF Delete
      <3>8. view[t].open
        BY DEF DeleteButtons
      <3>9. view[t].rows[id] = comments[id] \/ comments[id] > view[t].at
        <4>1. comments[id] \in Nat
          BY <2>1, <3>3 DEF TypeOK, IsTable
        <4>2. view[t].at \in Nat
          BY <2>1, <3>8 DEF TypeOK, IsPage, NoPage
        <4> QED
          BY <3>3, <3>8, <4>1, <4>2 DEF Inv, StalePageAgrees
      <3> QED
        BY <3>5, <3>6, <3>7, <3>9
    <2> QED
      BY <2>2, <2>3
  <1> QED
    BY <1>1, Invariance, PTL DEF Spec, DeletesShownOrNewer
----------------------------------------------------------------------------
(***************************************************************************)
(* What the tabs show.  DensePages is what DenseUntilDelete leaves in the  *)
(* pages that were rendered under it.                                      *)
(***************************************************************************)
DensePages ==
    removed = {} => \A t \in Tabs : view[t].open =>
        /\ DOMAIN view[t].rows = 1..view[t].at
        /\ \A k \in DOMAIN view[t].rows : view[t].rows[k] = k

(* Pages stay dense until something is deleted. *)
LEMMA DensePagesStep ==
  ASSUME Inv, DensePages, [Next]_vars
  PROVE  DensePages'
  <1>1. TypeOK
    BY DEF Inv
  <1>2. CASE \E t \in Tabs : event_save(t)
    BY <1>2 DEF event_save, DensePages
  <1>3. CASE \E t \in Tabs : \E id \in DeleteButtons(view[t]) : event_delete(t, id)
    <2>1. view' = view /\ removed \subseteq removed'
      BY <1>3 DEF event_delete
    <2> QED
      BY <2>1 DEF DensePages
  <1>4. CASE /\ ~ \E t \in Tabs : event_save(t)
             /\ ~ \E t \in Tabs : \E id \in DeleteButtons(view[t]) : event_delete(t, id)
    <2>1. /\ removed' = removed
          /\ \A r \in Tabs :
                 \/ view'[r] = view[r]
                 \/ view'[r] = NoPage
                 \/ \E u : view'[r] = Page(comments, u, Len(log))
      BY <1>1, <1>4, PageStep
    <2> SUFFICES ASSUME removed = {}, NEW r \in Tabs, view'[r].open
                 PROVE  /\ DOMAIN view'[r].rows = 1..view'[r].at
                        /\ \A k \in DOMAIN view'[r].rows : view'[r].rows[k] = k
      BY <2>1 DEF DensePages
    <2>2. CASE view'[r] = view[r]
      BY <2>2 DEF DensePages
    <2>3. CASE view'[r] = NoPage
      BY <2>3 DEF NoPage
    <2>4. CASE \E u : view'[r] = Page(comments, u, Len(log))
      BY <2>4 DEF Page, Inv, DenseUntilDelete
    <2> QED
      BY <2>1, <2>2, <2>3, <2>4
  <1> QED
    BY <1>2, <1>3, <1>4

(* The rows a dump of such a page is made of. *)
Row(k) == [id |-> k, comment |-> k]
RowsTo(m) == {Row(k) : k \in 1..m}

(* There are m of them. *)
LEMMA CountRows ==
  ASSUME NEW m \in Nat
  PROVE  IsFiniteSet(RowsTo(m)) /\ Cardinality(RowsTo(m)) = m
  <1> DEFINE f == [k \in 1..m |-> Row(k)]
  <1>1. f \in Bijection(1..m, RowsTo(m))
    <2>1. f \in [1..m -> RowsTo(m)]
      BY DEF RowsTo
    <2>2. \A i, j \in 1..m : f[i] = f[j] => i = j
      BY DEF Row
    <2>3. \A r \in RowsTo(m) : \E k \in 1..m : f[k] = r
      BY DEF RowsTo
    <2> QED
      BY <2>1, <2>2, <2>3, Zenon DEF Bijection, Injection, Surjection, IsInjective
  <1>2. IsFiniteSet(1..m) /\ Cardinality(1..m) = m
    BY CountTo, FS_Interval
  <1>3. ExistsBijection(1..m, RowsTo(m))
    BY <1>1 DEF ExistsBijection
  <1> HIDE DEF f
  <1> QED
    BY <1>2, <1>3, FS_Bijection

(* Whatever order the dump has, its sorted form has the rows in the order  *)
(* of their comments.                                                      *)
LEMMA SortedRows ==
  ASSUME NEW m \in Nat, NEW dump \in SetToSeqs(RowsTo(m))
  PROVE  \A i, j \in DOMAIN dump :
             i < j => Pretty(dump)[i].comment < Pretty(dump)[j].comment
  <1> DEFINE Seqs == SetToSeqs(RowsTo(m))
             Sorted(q) == \A i, j \in DOMAIN q : i < j => q[i].id <= q[j].id
             w == [i \in 1..m |-> Row(i)]
             s == SortById(dump)
  <1>1. IsFiniteSet(RowsTo(m)) /\ Cardinality(RowsTo(m)) = m
    BY CountRows
  <1>2. Seqs = {q \in [1..m -> RowsTo(m)] : \A i, j \in 1..m : i # j => q[i] # q[j]}
    BY <1>1 DEF SetToSeqs
  <1>3. /\ dump \in [1..m -> RowsTo(m)]
        /\ \A i, j \in 1..m : i # j => dump[i] # dump[j]
    BY <1>2
  <1>4. ToSet(dump) = RowsTo(m)
    <2>1. dump \in Injection(1..m, RowsTo(m))
      BY <1>3 DEF Injection, IsInjective
    <2>2. Cardinality(1..m) = m
      BY CountTo
    <2>3. dump \in Surjection(1..m, RowsTo(m))
      BY <1>1, <2>1, <2>2, FS_Injection
    <2> QED
      BY <1>3, <2>3, Zenon DEF Surjection, ToSet
  <1>5. Len(dump) = m
    BY <1>3
  <1>6. CASE m \in 0..1
    BY <1>3, <1>6
  <1>7. CASE m \notin 0..1
    <2>1. Pretty(dump) = s
      BY <1>5, <1>7 DEF Pretty
    <2>2. s = CHOOSE q \in Seqs : Sorted(q)
      BY <1>4 DEF SortById
    <2>3. w \in Seqs
      <3>1. w \in [1..m -> RowsTo(m)]
        BY DEF RowsTo
      <3>2. \A i, j \in 1..m : i # j => w[i] # w[j]
        BY DEF Row
      <3> QED
        BY <1>2, <3>1, <3>2
    <2>4. Sorted(w)
      BY DEF Row
    <2> HIDE DEF Seqs, Sorted, w, s
    <2>5. s \in Seqs /\ Sorted(s)
      BY <2>2, <2>3, <2>4
    <2>6. /\ s \in [1..m -> RowsTo(m)]
          /\ \A i, j \in 1..m : i # j => s[i] # s[j]
      BY <1>2, <2>5
    <2>7. \A i \in 1..m : \E k \in 1..m : s[i] = Row(k)
      BY <2>6 DEF RowsTo
    <2> SUFFICES ASSUME NEW i \in 1..m, NEW j \in 1..m, i < j
                 PROVE  s[i].comment < s[j].comment
      BY <1>3, <2>1
    <2>8. PICK k \in 1..m : s[i] = Row(k)
      BY <2>7
    <2>9. PICK l \in 1..m : s[j] = Row(l)
      BY <2>7
    <2>10. k # l
      BY <2>6, <2>8, <2>9
    <2>11. s[i].id <= s[j].id
      BY <2>5, <2>6 DEF Sorted
    <2> QED
      BY <2>8, <2>9, <2>10, <2>11 DEF Row
  <1> QED
    BY <1>6, <1>7

(* Comments are shown in the order they were posted until one is deleted. *)
LEMMA DenseOrder ==
  ASSUME TypeOK, DensePages
  PROVE  ShownInPostingOrder
  <1> SUFFICES ASSUME removed = {}, NEW t \in Tabs, view[t].open,
                      NEW dump \in dump_comments(view[t].rows)
               PROVE  \A i, j \in DOMAIN dump :
                          i < j => Pretty(dump)[i].comment < Pretty(dump)[j].comment
    BY DEF ShownInPostingOrder
  <1> DEFINE m == view[t].at
             rows == view[t].rows
  <1>1. m \in Nat
    BY DEF TypeOK, IsPage, NoPage
  <1>2. DOMAIN rows = 1..m /\ \A k \in 1..m : rows[k] = k
    BY DEF DensePages
  <1>3. {[id |-> k, comment |-> rows[k]] : k \in DOMAIN rows} = RowsTo(m)
    BY <1>2 DEF RowsTo, Row
  <1>4. dump \in SetToSeqs(RowsTo(m))
    BY <1>3 DEF dump_comments
  <1> QED
    BY <1>1, <1>4, SortedRows

(* What the page shows is in the order of posting, for any number of tabs  *)
(* and comments and every order a dump of the table can come in.           *)
THEOREM PostingOrder == Spec => []ShownInPostingOrder
  <1>1. Init => DensePages
    BY DEF Init, DensePages, NoPage
  <1>2. Inv /\ DensePages /\ [Next]_vars => DensePages'
    BY DensePagesStep
  <1>3. Inv /\ DensePages => ShownInPostingOrder
    BY DenseOrder DEF Inv
  <1> QED
    BY <1>1, <1>2, <1>3, Invariance, PTL DEF Spec

(* A step keeps a posted comment shown or on its way to the screen. *)
LEMMA RedirectStep ==
  ASSUME Inv, RedirectPending, [Next]_vars
  PROVE  RedirectPending'
  <1>1. TypeOK
    BY DEF Inv
  <1>2. ASSUME NEW t \in Tabs, event_save(t) PROVE RedirectPending'
    <2>1. /\ Len(log) \in Nat
          /\ DOMAIN log = 1..Len(log)
          /\ DOMAIN log' = 1..(Len(log) + 1)
          /\ \A n \in DOMAIN log : log'[n] = log[n]
      BY <1>1, <1>2, SaveStep
    <2>2. log'[Len(log) + 1].by = t
      BY <1>1, <1>2 DEF event_save, TypeOK
    <2>3. /\ view' = view /\ removed' = removed
          /\ redirected'[t]
          /\ \A r \in Tabs : redirected[r] => redirected'[r]
      BY <1>1, <1>2 DEF event_save, TypeOK
    <2> SUFFICES ASSUME NEW r \in Tabs, NEW n \in Accepted' \ removed,
                        log'[n].by = r, view[r].open
                 PROVE  n \in Rows(view[r].rows) \/ redirected'[r]
      BY <2>3 DEF RedirectPending, Rows
    <2>4. CASE n = Len(log) + 1
      BY <2>2, <2>3, <2>4
    <2>5. CASE n # Len(log) + 1
      <3>1. n \in DOMAIN log /\ log'[n] = log[n]
        BY <2>1, <2>5 DEF Accepted
      <3>2. n \in Accepted
        BY <3>1 DEF Accepted
      <3> QED
        BY <2>3, <3>1, <3>2 DEF RedirectPending
    <2> QED
      BY <2>4, <2>5
  <1>3. ASSUME NEW t \in Tabs, NEW id \in DeleteButtons(view[t]), event_delete(t, id)
        PROVE  RedirectPending'
    <2>1. /\ view' = view /\ log' = log /\ removed \subseteq removed'
          /\ \A r \in Tabs : redirected[r] => redirected'[r]
      BY <1>1, <1>3 DEF event_delete, TypeOK
    <2>2. Accepted' = Accepted
      BY <2>1 DEF Accepted
    <2> QED
      BY <2>1, <2>2 DEF RedirectPending, Rows
  <1>4. CASE /\ ~ \E t \in Tabs : event_save(t)
             /\ ~ \E t \in Tabs : \E id \in DeleteButtons(view[t]) : event_delete(t, id)
    <2>1. comments' = comments /\ log' = log /\ removed' = removed
      BY <1>1, <1>4, PageStep
    <2>2. Accepted' = Accepted
      BY <2>1 DEF Accepted
    <2>3. \A r \in Tabs :
              \/ view'[r] = view[r] /\ (redirected[r] => redirected'[r])
              \/ ~view'[r].open
              \/ view'[r].rows = comments
      <3>1. CASE \E t \in Tabs : body(t)
        BY <1>1, <3>1 DEF TypeOK, body, Page
      <3>2. CASE \E t \in Tabs : event_guestbook(t)
        BY <1>1, <3>2 DEF TypeOK, event_guestbook
      <3>3. CASE \E t \in Tabs : event_menu(t) \/ event_logout(t)
        BY <1>1, <3>3 DEF TypeOK, event_menu, event_logout, NoPage
      <3>4. CASE \E s \in Sessions, u \in Users : login(s, u)
        BY <3>4 DEF login
      <3>5. CASE UNCHANGED vars
        BY <3>5 DEF vars
      <3> QED
        BY <1>4, <3>1, <3>2, <3>3, <3>4, <3>5 DEF Next
    <2>4. Rows(comments) = Accepted \ removed
      BY DEF Inv, Conservation
    <2> SUFFICES ASSUME NEW r \in Tabs, NEW n \in Accepted \ removed,
                        log[n].by = r, view'[r].open
                 PROVE  n \in Rows(view'[r].rows) \/ redirected'[r]
      BY <2>1, <2>2 DEF RedirectPending, Rows
    <2> QED
      BY <2>3, <2>4 DEF RedirectPending
  <1> QED
    BY <1>2, <1>3, <1>4

(* The redirect after a post is never lost, for any number of tabs,        *)
(* sessions and comments.                                                  *)
THEOREM RedirectsPend == Spec => []RedirectPending
  <1>1. Init => RedirectPending
    BY DEF Init, RedirectPending, NoPage
  <1>2. Inv /\ RedirectPending /\ [Next]_vars => RedirectPending'
    BY RedirectStep
  <1> QED
    BY <1>1, <1>2, Invariance, PTL DEF Spec
----------------------------------------------------------------------------
(* Posting is a Post or, only on a board something was deleted from, a     *)
(* Refuse of the abstract board.                                           *)
LEMMA SaveImplements ==
  ASSUME Inv, Inv', NEW t \in Tabs, event_save(t)
  PROVE  Abstract!Post \/ Abstract!Refuse
  <1>1. TypeOK
    BY DEF Inv
  <1>2. removed' = removed /\ Shown' = Shown
    BY DEF event_save, Shown, ShownOn, Rows
  <1>3. Len(log') = Len(log) + 1
    BY <1>1, SaveStep
  <1>4. CASE NextId(comments) \notin DOMAIN comments
    <2>1. comments' = Write(comments, NextId(comments), Len(log) + 1)
      BY <1>1, <1>4, SaveStep
    <2>2. Rows(comments') = Rows(comments) \cup {Len(log) + 1}
      BY <1>4, <2>1 DEF Rows, Write
    <2> QED
      BY <1>2, <1>3, <2>2 DEF Abstract!Post
  <1>5. CASE NextId(comments) \in DOMAIN comments
    <2>1. comments' = comments
      BY <1>1, <1>5, SaveStep
    <2>2. Rows(comments') = Rows(comments)
      BY <2>1
    <2>3. removed # {}
      <3>1. log'[Len(log) + 1].reply = "already_inserted" /\ Len(log) \in Nat
        BY <1>1, <1>5, SaveStep
      <3>2. Len(log) + 1 \in DOMAIN log' \ Accepted'
        BY <1>1, <3>1, SaveStep DEF Accepted
      <3> QED
        BY <1>2, <3>2 DEF Inv, DenseUntilDelete
    <2> QED
      BY <1>2, <1>3, <2>2, <2>3 DEF Abstract!Refuse
  <1> QED
    BY <1>4, <1>5

(* Deleting takes one post down, or changes nothing the board shows. *)
LEMMA DeleteImplements ==
  ASSUME Inv, NEW t \in Tabs, NEW id, event_delete(t, id)
  PROVE  \/ \E gone \in SUBSET Rows(comments) : Abstract!TakeDown(gone)
         \/ UNCHANGED <<Rows(comments), Len(log), removed # {}, Shown>>
  <1>1. TypeOK
    BY DEF Inv
  <1>2. log' = log /\ view' = view /\ comments' = Delete(comments, id)
    BY <1>1, DeleteStep
  <1>3. Shown' = Shown
    BY <1>2 DEF Shown, ShownOn, Rows
  <1>4. CASE id \notin DOMAIN comments
    <2>1. comments' = comments /\ removed' = removed
      BY <1>1, <1>4, DeleteStep
    <2> QED
      BY <1>2, <1>3, <2>1
  <1>5. CASE id \in DOMAIN comments
    <2>1. removed' = removed \cup {comments[id]}
      BY <1>1, <1>5, DeleteStep
    <2>2. comments[id] \in Rows(comments)
      BY <1>5 DEF Rows
    <2>3. Rows(comments') = Rows(comments) \ {comments[id]}
      BY <1>2, <1>5 DEF Rows, Delete, Inv, Conservation
    <2>4. Abstract!TakeDown({comments[id]})
      BY <1>2, <1>3, <2>1, <2>2, <2>3 DEF Abstract!TakeDown
    <2> QED
      BY <2>2, <2>4
  <1> QED
    BY <1>4, <1>5

(* Any other step is a Look or a LookAway of one tab, or nothing. *)
LEMMA PageImplements ==
  ASSUME Inv, [Next]_vars,
         ~ \E t \in Tabs : event_save(t),
         ~ \E t \in Tabs : \E id \in DeleteButtons(view[t]) : event_delete(t, id)
  PROVE  \/ \E r \in Tabs : Abstract!Look(r) \/ Abstract!LookAway(r)
         \/ UNCHANGED <<Rows(comments), Len(log), removed # {}, Shown>>
  <1>1. TypeOK
    BY DEF Inv
  <1>2. comments' = comments /\ log' = log /\ removed' = removed
    BY <1>1, PageStep
  <1>3. ASSUME NEW t \in Tabs, body(t)
        PROVE  Abstract!Look(t)
    <2>1. view' = [view EXCEPT ![t] = Page(comments, user[SessionOf[t]], Len(log))]
      BY <1>3 DEF body
    <2>2. \A r \in Tabs : view'[r] =
              IF r = t THEN Page(comments, user[SessionOf[t]], Len(log)) ELSE view[r]
      BY <1>1, <2>1 DEF TypeOK
    <2>3. Shown' = [Shown EXCEPT ![t] = Rows(comments)]
      <3>1. ShownOn(Page(comments, user[SessionOf[t]], Len(log))) = Rows(comments)
        BY DEF ShownOn, Page
      <3>2. \A r \in Tabs : ShownOn(view'[r]) =
                IF r = t THEN Rows(comments) ELSE ShownOn(view[r])
        BY <2>2, <3>1
      <3>3. Shown' = [r \in Tabs |-> ShownOn(view'[r])]
        BY DEF Shown, ShownOn, Rows
      <3> QED
        BY <3>2, <3>3 DEF Shown
    <2> QED
      BY <1>2, <2>3 DEF Abstract!Look
  <1>4. ASSUME NEW t \in Tabs, event_menu(t) \/ event_logout(t)
        PROVE  Abstract!LookAway(t)
    <2>1. view' = [view EXCEPT ![t] = NoPage]
      BY <1>4 DEF event_menu, event_logout
    <2>2. \A r \in Tabs : view'[r] = IF r = t THEN NoPage ELSE view[r]
      BY <1>1, <2>1 DEF TypeOK
    <2>3. Shown' = [Shown EXCEPT ![t] = {}]
      <3>1. ShownOn(NoPage) = {}
        BY DEF ShownOn, NoPage
      <3>2. \A r \in Tabs : ShownOn(view'[r]) = IF r = t THEN {} ELSE ShownOn(view[r])
        BY <2>2, <3>1
      <3>3. Shown' = [r \in Tabs |-> ShownOn(view'[r])]
        BY DEF Shown, ShownOn, Rows
      <3> QED
        BY <3>2, <3>3 DEF Shown
    <2> QED
      BY <1>2, <2>3 DEF Abstract!LookAway
  <1>5. CASE view' = view
    <2>1. Shown' = Shown
      BY <1>5 DEF Shown, ShownOn, Rows
    <2> QED
      BY <1>2, <2>1
  <1>6. \/ \E t \in Tabs : body(t) \/ event_menu(t) \/ event_logout(t)
        \/ view' = view
    BY DEF Next, vars, event_guestbook, login
  <1> QED
    BY <1>3, <1>4, <1>5, <1>6

(* The guest book, with its ids that are computed from the number of rows  *)
(* and given again after deletes, implements the abstract message board.   *)
THEOREM Refinement == Spec => ImplementsBoard
  <1>1. Init => Abstract!Init
    <2> SUFFICES ASSUME Init PROVE Abstract!Init
      OBVIOUS
    <2>1. Rows(comments) = {} /\ Len(log) = 0 /\ ~(removed # {})
      BY DEF Init, EmptyTable, Rows
    <2>2. Shown = [t \in Tabs |-> {}]
      BY DEF Init, Shown, ShownOn, NoPage
    <2> QED
      BY <2>1, <2>2 DEF Abstract!Init
  <1>2. Inv /\ Inv' /\ [Next]_vars => [Abstract!Next]_(Abstract!vars)
    <2> SUFFICES ASSUME Inv, Inv', [Next]_vars
                 PROVE  Abstract!Next \/ UNCHANGED Abstract!vars
      OBVIOUS
    <2>1. CASE \E t \in Tabs : event_save(t)
      BY <2>1, SaveImplements DEF Abstract!Next
    <2>2. CASE \E t \in Tabs : \E id \in DeleteButtons(view[t]) : event_delete(t, id)
      BY <2>2, DeleteImplements DEF Abstract!Next, Abstract!vars
    <2>3. CASE /\ ~ \E t \in Tabs : event_save(t)
               /\ ~ \E t \in Tabs : \E id \in DeleteButtons(view[t]) : event_delete(t, id)
      BY <2>3, PageImplements DEF Abstract!Next, Abstract!vars
    <2> QED
      BY <2>1, <2>2, <2>3
  <1> QED
    BY <1>1, <1>2, Invariance, PTL DEF Spec, ImplementsBoard, Abstract!Spec
=============================================================================
