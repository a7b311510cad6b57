--------------------------- MODULE Visitors_proofs ---------------------------
(***************************************************************************)
(* Proofs about the register of visitors for any number of tabs, names,    *)
(* days and calls.                                                         *)
(***************************************************************************)
EXTENDS Visitors, TLAPS

(* A call is appended to the log. *)
LEMMA AppendCall ==
  ASSUME TypeOK, NEW call \in Call, calls' = Append(calls, call)
  PROVE  /\ Len(calls) \in Nat
         /\ calls' \in Seq(Call)
         /\ DOMAIN calls = 1..Len(calls)
         /\ DOMAIN calls' = 1..(Len(calls) + 1)
         /\ \A i \in DOMAIN calls : calls'[i] = calls[i]
         /\ calls'[Len(calls) + 1] = call
  BY DEF TypeOK

(* The types hold initially. *)
LEMMA TypeInit == Init => TypeOK
  BY DEF Init, EmptyTable, TypeOK

(* Every step keeps the types. *)
LEMMA TypeStep == TypeOK /\ [Next]_vars => TypeOK'
  <1> SUFFICES ASSUME TypeOK, [Next]_vars PROVE TypeOK'
    OBVIOUS
  <1>1. ASSUME NEW t \in Tabs, body(t) PROVE TypeOK'
    BY <1>1 DEF body, TypeOK
  <1>2. ASSUME NEW t \in Tabs, NEW q \in {"save", "done"}, event_ask(t, q) PROVE TypeOK'
    BY <1>2 DEF event_ask, TypeOK
  <1>3. ASSUME NEW t \in Tabs, cancel(t) \/ event_done_ok(t) PROVE TypeOK'
    BY <1>3 DEF cancel, event_done_ok, TypeOK
  <1>4. ASSUME NEW t \in Tabs, NEW name \in Names, NEW city \in Cities,
               event_confirm_ok(t, name, city)
        PROVE  TypeOK'
    <2> DEFINE call == [op |-> "insert", name |-> name, city |-> city, date |-> today]
               row == [city |-> city, date |-> today]
    <2>1. call \in Call /\ row \in [city : Cities, date : 0..today]
      BY DEF Call, TypeOK
    <2>2. calls' \in Seq(Call)
      BY <1>4, <2>1, AppendCall DEF event_confirm_ok
    <2>3. \/ visitor' = visitor
          \/ visitor' = [k \in DOMAIN visitor \cup {name} |-> IF k = name THEN row ELSE visitor[k]]
      BY <1>4 DEF event_confirm_ok, insert, Write
    <2>4. /\ DOMAIN visitor' \subseteq Names
          /\ visitor' \in [DOMAIN visitor' -> [city : Cities, date : 0..today]]
      <3> HIDE DEF row
      <3> QED
        BY <2>1, <2>3 DEF TypeOK
    <2>5. /\ page' \in [Tabs -> {"form", "elsewhere"}]
          /\ asking' \in [Tabs -> {"save", "done", "no"}]
          /\ \A u \in Tabs : asking'[u] # "no" => page'[u] = "form"
          /\ today' = today
      BY <1>4 DEF event_confirm_ok, TypeOK
    <2> QED
      BY <2>2, <2>4, <2>5 DEF TypeOK
  <1>5. ASSUME NEW name \in Names, remove(name) PROVE TypeOK'
    <2>1. [op |-> "remove", name |-> name] \in Call
      BY DEF Call
    <2>2. calls' \in Seq(Call)
      BY <1>5, <2>1, AppendCall DEF remove
    <2>3. visitor' = [k \in DOMAIN visitor \ {name} |-> visitor[k]]
      BY <1>5 DEF remove, Delete
    <2> QED
      BY <1>5, <2>2, <2>3 DEF remove, TypeOK
  <1>6. CASE midnight
    <2>1. /\ today' \in Nat
          /\ \A d \in 0..today : d \in 0..today'
      BY <1>6 DEF midnight, TypeOK
    <2>2. visitor' = visitor /\ UNCHANGED <<page, asking, calls>>
      BY <1>6 DEF midnight
    <2>3. visitor \in [DOMAIN visitor -> [city : Cities, date : 0..today']]
      BY <2>1 DEF TypeOK
    <2> QED
      BY <2>1, <2>2, <2>3 DEF TypeOK
  <1>7. CASE UNCHANGED vars
    BY <1>7 DEF vars, TypeOK
  <1> QED
    BY <1>1, <1>2, <1>3, <1>4, <1>5, <1>6, <1>7 DEF Next

(* No row is dated in the future, and a question is shown only on its page. *)
THEOREM TypeCorrect == Spec => []TypeOK
  BY TypeInit, TypeStep, PTL DEF Spec
----------------------------------------------------------------------------
(***************************************************************************)
(* FirstEntryWins speaks of the first entry of a name; that there is one   *)
(* for every registered name is kept along.                                *)
(***************************************************************************)
HasFirst ==
    \A name \in Names : Entries(name) # {} => \E i \in DOMAIN calls : IsFirst(i, name)

Inv == TypeOK /\ FirstEntryWins /\ HasFirst

(* An insert adds one entry, the last one, to its name. *)
LEMMA InsertEntries ==
  ASSUME TypeOK, NEW t \in Tabs, NEW name \in Names, NEW city \in Cities,
         event_confirm_ok(t, name, city)
  PROVE  /\ Len(calls) \in Nat
         /\ DOMAIN calls = 1..Len(calls)
         /\ DOMAIN calls' = 1..(Len(calls) + 1)
         /\ \A i \in DOMAIN calls : calls'[i] = calls[i]
         /\ calls'[Len(calls) + 1] =
              [op |-> "insert", name |-> name, city |-> city, date |-> today]
         /\ Entries(name)' = Entries(name) \cup {Len(calls) + 1}
         /\ \A m \in Names : m # name => Entries(m)' = Entries(m)
  <1> DEFINE n == Len(calls) + 1
             call == [op |-> "insert", name |-> name, city |-> city, date |-> today]
  <1>1. call \in Call
    BY DEF Call, TypeOK
  <1>2. /\ Len(calls) \in Nat
        /\ DOMAIN calls = 1..Len(calls)
        /\ DOMAIN calls' = 1..n
        /\ \A i \in DOMAIN calls : calls'[i] = calls[i]
        /\ calls'[n] = call
    BY <1>1, AppendCall DEF event_confirm_ok
  <1>3. call.op = "insert" /\ call.name = name
    OBVIOUS
  <1> HIDE DEF call
  <1>4. ASSUME NEW m \in Names, NEW i \in DOMAIN calls
        PROVE  i \in Entries(m)' <=> i \in Entries(m)
    BY <1>2, <1>3 DEF Entries
  <1>5. ASSUME NEW m \in Names
        PROVE  n \in Entries(m)' <=> m = name
    BY <1>2, <1>3 DEF Entries
  <1>6. \A m \in Names : Entries(m) \subseteq DOMAIN calls /\ Entries(m)' \subseteq DOMAIN calls'
    BY DEF Entries
  <1>7. DOMAIN calls' = DOMAIN calls \cup {n} /\ n \notin DOMAIN calls
    BY <1>2
  <1>8. Entries(name)' = Entries(name) \cup {n}
    BY <1>4, <1>5, <1>6, <1>7
  <1>9. \A m \in Names : m # name => Entries(m)' = Entries(m)
    BY <1>4, <1>5, <1>6, <1>7
  <1> QED
    BY <1>2, <1>8, <1>9 DEF call

(* A remove takes all entries from its name. *)
LEMMA RemoveEntries ==
  ASSUME TypeOK, NEW name \in Names, remove(name)
  PROVE  /\ DOMAIN calls \subseteq DOMAIN calls'
         /\ \A i \in DOMAIN calls : calls'[i] = calls[i]
         /\ Entries(name)' = {}
         /\ \A m \in Names : m # name => Entries(m)' = Entries(m)
  <1> DEFINE n == Len(calls) + 1
             call == [op |-> "remove", name |-> name]
  <1>1. call \in Call
    BY DEF Call
  <1>2. /\ Len(calls) \in Nat
        /\ DOMAIN calls = 1..Len(calls)
        /\ DOMAIN calls' = 1..n
        /\ \A i \in DOMAIN calls : calls'[i] = calls[i]
        /\ calls'[n] = call
    BY <1>1, AppendCall DEF remove
  <1>3. call.op = "remove" /\ call.name = name
    OBVIOUS
  <1> HIDE DEF call
  <1>4. ASSUME NEW m \in Names, m # name, NEW i \in DOMAIN calls
        PROVE  i \in Entries(m)' <=> i \in Entries(m)
    BY <1>2, <1>3, <1>4 DEF Entries
  <1>5. ASSUME NEW m \in Names
        PROVE  n \notin Entries(m)'
    BY <1>2, <1>3 DEF Entries
  <1>6. \A m \in Names : Entries(m) \subseteq DOMAIN calls /\ Entries(m)' \subseteq DOMAIN calls'
    BY DEF Entries
  <1>7. DOMAIN calls' = DOMAIN calls \cup {n} /\ n \notin DOMAIN calls
    BY <1>2
  <1>8. Entries(name)' = {}
    <2>1. ASSUME NEW i \in DOMAIN calls PROVE i \notin Entries(name)'
      BY <1>2, <1>3 DEF Entries
    <2> QED
      BY <1>5, <1>6, <1>7, <2>1
  <1>9. \A m \in Names : m # name => Entries(m)' = Entries(m)
    BY <1>4, <1>5, <1>6, <1>7
  <1> QED
    BY <1>2, <1>7, <1>8, <1>9

(* What FirstEntryWins and HasFirst say of one name. *)
Told(m) ==
    /\ m \in DOMAIN visitor <=> Entries(m) # {}
    /\ \A i \in DOMAIN calls : IsFirst(i, m) =>
          visitor[m] = [city |-> calls[i].city, date |-> calls[i].date]
    /\ Entries(m) # {} => \E i \in DOMAIN calls : IsFirst(i, m)

(* They say it of every name. *)
LEMMA ToldAll ==
  /\ FirstEntryWins /\ HasFirst <=> \A m \in Names : Told(m)
  /\ FirstEntryWins' /\ HasFirst' <=> \A m \in Names : Told(m)'
  BY DEF FirstEntryWins, HasFirst, Told

(* Names a step does not concern keep what is told of them. *)
LEMMA ToldKept ==
  ASSUME NEW m \in Names, Told(m), Entries(m)' = Entries(m),
         DOMAIN calls \subseteq DOMAIN calls',
         \A i \in DOMAIN calls : calls'[i] = calls[i],
         m \in DOMAIN visitor' <=> m \in DOMAIN visitor,
         visitor'[m] = visitor[m]
  PROVE  Told(m)'
  <1>1. \A i : IsFirst(i, m)' <=> IsFirst(i, m)
    BY DEF IsFirst
  <1>2. \A i : IsFirst(i, m) => i \in DOMAIN calls
    BY DEF IsFirst, Entries
  <1> QED
    BY <1>1, <1>2 DEF Told

(* Every step keeps the invariant. *)
LEMMA InvStep == Inv /\ [Next]_vars => Inv'
  <1> SUFFICES ASSUME Inv, [Next]_vars PROVE Inv'
    OBVIOUS
  <1>0. TypeOK /\ \A m \in Names : Told(m)
    BY ToldAll DEF Inv
  <1> SUFFICES ASSUME NEW m \in Names PROVE Told(m)'
    BY <1>0, TypeStep, ToldAll DEF Inv
  <1>1. ASSUME UNCHANGED <<visitor, calls>> PROVE Told(m)'
    <2>1. Entries(m)' = Entries(m)
      BY <1>1 DEF Entries
    <2> QED
      BY <1>0, <1>1, <2>1, ToldKept
  <1>2. ASSUME NEW t \in Tabs, NEW name \in Names, NEW city \in Cities,
               event_confirm_ok(t, name, city)
        PROVE  Told(m)'
    <2> DEFINE n == Len(calls) + 1
               row == [city |-> city, date |-> today]
    <2>1. /\ Len(calls) \in Nat
          /\ DOMAIN calls = 1..Len(calls)
          /\ DOMAIN calls' = 1..n
          /\ \A i \in DOMAIN calls : calls'[i] = calls[i]
          /\ calls'[n] = [op |-> "insert", name |-> name, city |-> city, date |-> today]
          /\ Entries(name)' = Entries(name) \cup {n}
          /\ \A k \in Names : k # name => Entries(k)' = Entries(k)
      BY <1>0, <1>2, InsertEntries
    <2>2. IF name \in DOMAIN visitor
          THEN visitor' = visitor
          ELSE visitor' = [k \in DOMAIN visitor \cup {name} |->
                              IF k = name THEN row ELSE visitor[k]]
      BY <1>2 DEF event_confirm_ok, insert, Read, Write
    <2>3. CASE m # name
      <3>1. (m \in DOMAIN visitor' <=> m \in DOMAIN visitor)
        BY <2>2, <2>3
      <3>2. CASE m \in DOMAIN visitor
        <4>1. visitor'[m] = visitor[m]
          BY <2>2, <2>3, <3>2
        <4> QED
          BY <1>0, <2>1, <2>3, <3>1, <4>1, ToldKept
      <3>3. CASE m \notin DOMAIN visitor
        <4>1. Entries(m) = {} /\ Entries(m)' = {}
          BY <1>0, <2>1, <2>3, <3>3 DEF Told
        <4> QED
          BY <3>1, <3>3, <4>1 DEF Told, IsFirst
      <3> QED
        BY <3>2, <3>3
    <2>4. CASE m = name /\ name \in DOMAIN visitor
      <3>1. PICK f \in DOMAIN calls : IsFirst(f, name)
        BY <1>0, <2>4 DEF Told
      <3>2. \A i \in Entries(name) : i \in 1..Len(calls)
        BY <2>1 DEF Entries
      <3>3. IsFirst(f, name)'
        BY <2>1, <3>1, <3>2 DEF IsFirst
      <3>4. \A i : IsFirst(i, name)' => i = f
        BY <2>1, <3>1, <3>2, <3>3 DEF IsFirst
      <3>5. visitor'[name] = [city |-> calls'[f].city, date |-> calls'[f].date]
        BY <1>0, <2>1, <2>2, <2>4, <3>1 DEF Told
      <3>6. f \in DOMAIN calls' /\ Entries(name)' # {}
        BY <2>1, <3>1
      <3> QED
        BY <2>2, <2>4, <3>3, <3>4, <3>5, <3>6 DEF Told
    <2>5. CASE m = name /\ name \notin DOMAIN visitor
      <3>1. Entries(name) = {} /\ Entries(name)' = {n}
        BY <1>0, <2>1, <2>5 DEF Told
      <3>2. \A i : IsFirst(i, name)' <=> i = n
        BY <2>1, <3>1 DEF IsFirst
      <3>3. n \in DOMAIN calls' /\ calls'[n].city = city /\ calls'[n].date = today
        BY <2>1
      <3>4. name \in DOMAIN visitor' /\ visitor'[name] = row
        BY <2>2, <2>5
      <3> QED
        BY <2>5, <3>1, <3>2, <3>3, <3>4 DEF Told
    <2> QED
      BY <2>3, <2>4, <2>5
  <1>3. ASSUME NEW name \in Names, remove(name) PROVE Told(m)'
    <2>1. /\ DOMAIN calls \subseteq DOMAIN calls'
          /\ \A i \in DOMAIN calls : calls'[i] = calls[i]
          /\ Entries(name)' = {}
          /\ \A k \in Names : k # name => Entries(k)' = Entries(k)
      BY <1>0, <1>3, RemoveEntries
    <2>2. visitor' = [k \in DOMAIN visitor \ {name} |-> visitor[k]]
      BY <1>3 DEF remove, Delete
    <2>3. CASE m = name
      BY <2>1, <2>2, <2>3 DEF Told, IsFirst
    <2>4. CASE m # name /\ m \in DOMAIN visitor
      BY <1>0, <2>1, <2>2, <2>4, ToldKept
    <2>5. CASE m # name /\ m \notin DOMAIN visitor
      BY <1>0, <2>1, <2>2, <2>5 DEF Told, IsFirst
    <2> QED
      BY <2>3, <2>4, <2>5
  <1>4. CASE \E t \in Tabs : \/ body(t) \/ cancel(t) \/ event_done_ok(t)
                             \/ \E q \in {"save", "done"} : event_ask(t, q)
    BY <1>1, <1>4 DEF body, cancel, event_done_ok, event_ask
  <1>5. CASE midnight \/ UNCHANGED vars
    BY <1>1, <1>5 DEF midnight, vars
  <1> QED
    BY <1>2, <1>3, <1>4, <1>5 DEF Next

(* The register starts empty, and so does the log. *)
LEMMA InvInit == Init => Inv
  <1> SUFFICES ASSUME Init PROVE FirstEntryWins /\ HasFirst
    BY TypeInit DEF Inv
  <1>1. \A name \in Names : Entries(name) = {}
    BY DEF Init, Entries
  <1>2. DOMAIN visitor = {}
    BY DEF Init, EmptyTable
  <1> QED
    BY <1>1, <1>2 DEF FirstEntryWins, HasFirst, IsFirst

(* The invariant holds always. *)
THEOREM Invariance == Spec => []Inv
  BY InvInit, InvStep, PTL DEF Spec

(* A visitor's first entry since the last removal wins, in whatever tab    *)
(* and in whatever order the dialogues were confirmed.                     *)
THEOREM FirstEntry == Spec => []FirstEntryWins
  <1>1. Inv => FirstEntryWins
    BY DEF Inv
  <1> QED
    BY <1>1, Invariance, PTL

(* The queries tell the names, the newcomers of the day and the rows that  *)
(* follow from the calls.                                                  *)
THEOREM Queries == Spec => []AnswersFollowCalls
  <1>1. Inv => AnswersFollowCalls
    <2> SUFFICES ASSUME Inv PROVE AnswersFollowCalls
      OBVIOUS
    <2>1. Registered = DOMAIN visitor
      BY DEF Inv, TypeOK, FirstEntryWins, Registered
    <2>2. Newcomers = {name \in DOMAIN visitor : visitor[name].date = today}
      <3>1. ASSUME NEW name \in Names, NEW i \in DOMAIN calls, IsFirst(i, name)
            PROVE  name \in DOMAIN visitor /\ visitor[name].date = calls[i].date
        <4>1. Entries(name) # {}
          BY <3>1 DEF IsFirst
        <4>2. visitor[name] = [city |-> calls[i].city, date |-> calls[i].date]
          BY <3>1 DEF Inv, FirstEntryWins
        <4> QED
          BY <4>1, <4>2 DEF Inv, FirstEntryWins
      <3>2. \A name \in DOMAIN visitor : name \in Names /\ \E i \in DOMAIN calls : IsFirst(i, name)
        BY DEF Inv, TypeOK, FirstEntryWins, HasFirst
      <3> QED
        BY <3>1, <3>2 DEF Newcomers
    <2>3. /\ Tells(all_names(visitor), Registered)
          /\ Tells(get_today_visitors(visitor, today), Newcomers)
      BY <2>1, <2>2 DEF Tells, all_names, get_today_visitors, regular_transaction
    <2>4. Tells(dump_visitors(visitor), {FirstRow(name) : name \in Registered})
      <3>1. ASSUME NEW name \in Registered
            PROVE  FirstRow(name) = [name |-> name, row |-> visitor[name]]
        <4> DEFINE f == CHOOSE i \in DOMAIN calls : IsFirst(i, name)
        <4>1. name \in Names /\ name \in DOMAIN visitor
          BY <2>1 DEF Registered
        <4>2. \E i \in DOMAIN calls : IsFirst(i, name)
          BY <4>1 DEF Inv, HasFirst, FirstEntryWins
        <4>3. f \in DOMAIN calls /\ IsFirst(f, name)
          BY <4>2
        <4>4. visitor[name] = [city |-> calls[f].city, date |-> calls[f].date]
          BY <4>1, <4>3 DEF Inv, FirstEntryWins
        <4> QED
          BY <4>4 DEF FirstRow
      <3>2. {FirstRow(name) : name \in Registered}
              = {[name |-> name, row |-> visitor[name]] : name \in DOMAIN visitor}
        BY <2>1, <3>1, Zenon
      <3> QED
        BY <3>2, Zenon DEF Tells, dump_visitors, regular_transaction
    <2> QED
      BY <2>3, <2>4 DEF AnswersFollowCalls
  <1> QED
    BY <1>1, Invariance, PTL
=============================================================================
