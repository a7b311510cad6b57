------------------------------ MODULE Visitors ------------------------------
(***************************************************************************)
(* The register of visitors: the visitors_db server and the visitors_admin *)
(* page.                                                                   *)
(*                                                                         *)
(* A row is keyed by the visitor's name and keeps the city and the date    *)
(* of the call that wrote it; the time of day plays no part.  Save and     *)
(* Done ask back first, and what is saved is what the form holds when the  *)
(* question is answered.  The queries are for the operator's shell: no     *)
(* page uses them.                                                         *)
(***************************************************************************)
EXTENDS MnesiaTable, Sequences

CONSTANTS
    Tabs,      \* browser tabs
    Names,     \* names of visitors
    Cities,
    None,      \* the answer to a query that finds nothing, the atom none
    MaxDays,   \* bound: midnights
    MaxCalls   \* bound: insert and remove calls

ASSUME BoundAssumption == MaxDays \in Nat /\ MaxCalls \in Nat

VARIABLES
    visitor,  \* the mnesia table: name -> city and date
    today,    \* the date, as calendar:local_time() gives it
    page,     \* tab -> "form" if it shows the page, else "elsewhere"
    asking,   \* tab -> the question it shows: "save", "done" or "no"
    calls     \* every insert and remove call so far, and its date

vars == <<visitor, today, page, asking, calls>>
----------------------------------------------------------------------------
(* visitors_db *)

(* Mutant of insert: a visitor who comes again gets a new row. *)
InsertAgain(tab, name, city, date) ==
    Write(tab, name, [city |-> city, date |-> date])

(* The table after insert: a name that is there already is left as it is. *)
insert(tab, name, city, date) ==
    IF Read(tab, name) = {}
    THEN Write(tab, name, [city |-> city, date |-> date])
    ELSE tab

(* regular_transaction: an empty list is answered with none. *)
regular_transaction(list) == IF list = {} THEN None ELSE list

all_names(tab) == regular_transaction(DOMAIN tab)

(* Mutant of get_today_visitors: finds who came yesterday as well. *)
TodayOrYesterday(tab, date) ==
    regular_transaction({name \in DOMAIN tab : tab[name].date >= date - 1})

get_today_visitors(tab, date) ==
    regular_transaction({name \in DOMAIN tab : tab[name].date = date})

dump_visitors(tab) ==
    regular_transaction({[name |-> name, row |-> tab[name]] : name \in DOMAIN tab})
----------------------------------------------------------------------------
Init ==
    /\ visitor = EmptyTable
    /\ today = 0
    /\ page = [t \in Tabs |-> "elsewhere"]
    /\ asking = [t \in Tabs |-> "no"]
    /\ calls = << >>

(* The tab loads the page. *)
body(t) ==
    /\ asking[t] = "no"
    /\ page' = [page EXCEPT ![t] = "form"]
    /\ UNCHANGED <<visitor, today, asking, calls>>

(* event(save) and event(done) ask back. *)
event_ask(t, question) ==
    /\ page[t] = "form" /\ asking[t] = "no"
    /\ asking' = [asking EXCEPT ![t] = question]
    /\ UNCHANGED <<visitor, today, page, calls>>

(* The question is answered with Cancel, which sends no event. *)
cancel(t) ==
    /\ asking[t] # "no"
    /\ asking' = [asking EXCEPT ![t] = "no"]
    /\ UNCHANGED <<visitor, today, page, calls>>

(* event(confirm_ok): save_visitor() reads the form now, ignores the       *)
(* answer of the server, and the tab goes home.                            *)
event_confirm_ok(t, name, city) ==
    /\ asking[t] = "save"
    /\ Len(calls) < MaxCalls
    /\ visitor' = insert(visitor, name, city, today)
    /\ calls' = Append(calls, [op |-> "insert", name |-> name, city |-> city, date |-> today])
    /\ page' = [page EXCEPT ![t] = "elsewhere"]
    /\ asking' = [asking EXCEPT ![t] = "no"]
    /\ UNCHANGED today

(* Mutant of event_done_ok: the question stays. *)
DoneKeepsAsking(t) ==
    /\ asking[t] = "done"
    /\ page' = [page EXCEPT ![t] = "elsewhere"]
    /\ UNCHANGED <<visitor, today, asking, calls>>

(* event(done_ok): the tab goes home. *)
event_done_ok(t) ==
    /\ asking[t] = "done"
    /\ page' = [page EXCEPT ![t] = "elsewhere"]
    /\ asking' = [asking EXCEPT ![t] = "no"]
    /\ UNCHANGED <<visitor, today, calls>>

(* The operator calls visitors_db:remove from the Erlang shell. *)
remove(name) ==
    /\ Len(calls) < MaxCalls
    /\ visitor' = Delete(visitor, name)
    /\ calls' = Append(calls, [op |-> "remove", name |-> name])
    /\ UNCHANGED <<today, page, asking>>

midnight ==
    /\ today < MaxDays
    /\ today' = today + 1
    /\ UNCHANGED <<visitor, page, asking, calls>>

Next ==
    \/ \E t \in Tabs :
        \/ body(t)
        \/ \E question \in {"save", "done"} : event_ask(t, question)
        \/ cancel(t)
        \/ \E name \in Names, city \in Cities : event_confirm_ok(t, name, city)
        \/ event_done_ok(t)
    \/ \E name \in Names : remove(name)
    \/ midnight

Spec == Init /\ [][Next]_vars
----------------------------------------------------------------------------
Call ==
    [op : {"insert"}, name : Names, city : Cities, date : Nat]
        \cup [op : {"remove"}, name : Names]

(* Type invariant: a row has a city and a date that is not in the future,  *)
(* and a question is shown only on the page it belongs to.                 *)
TypeOK ==
    /\ today \in Nat
    /\ DOMAIN visitor \subseteq Names
    /\ visitor \in [DOMAIN visitor -> [city : Cities, date : 0..today]]
    /\ page \in [Tabs -> {"form", "elsewhere"}]
    /\ asking \in [Tabs -> {"save", "done", "no"}]
    /\ \A t \in Tabs : asking[t] # "no" => page[t] = "form"
    /\ calls \in Seq(Call)

(* The calls that inserted a name since it was last removed. *)
Entries(name) ==
    {i \in DOMAIN calls :
        /\ calls[i].op = "insert" /\ calls[i].name = name
        /\ \A j \in DOMAIN calls :
            j > i /\ calls[j].op = "remove" => calls[j].name # name}

(* The first of them. *)
IsFirst(i, name) == i \in Entries(name) /\ \A j \in Entries(name) : i <= j

(* A visitor's first entry wins: whatever was confirmed in which tab, and  *)
(* whatever was removed in between, a name is registered if it was         *)
(* inserted since its last removal, with the city and the date of the      *)
(* first call that did so.                                                 *)
FirstEntryWins ==
    \A name \in Names :
        /\ name \in DOMAIN visitor <=> Entries(name) # {}
        /\ \A i \in DOMAIN calls : IsFirst(i, name) =>
              visitor[name] = [city |-> calls[i].city, date |-> calls[i].date]

(* The names that were inserted since their last removal, and those of    *)
(* them that were first inserted today.                                    *)
Registered == {name \in Names : Entries(name) # {}}
Newcomers ==
    {name \in Names : \E i \in DOMAIN calls : IsFirst(i, name) /\ calls[i].date = today}

(* The first entry of a name, as a row. *)
FirstRow(name) ==
    LET i == CHOOSE i \in DOMAIN calls : IsFirst(i, name)
    IN  [name |-> name, row |-> [city |-> calls[i].city, date |-> calls[i].date]]

(* An answer tells a list; that there is nobody may be told either way. *)
Tells(answer, list) == answer = list \/ (list = {} /\ answer = None)

(* The three queries tell what the calls say, at any date: all_names and   *)
(* dump_visitors know everyone who was inserted and not removed, with the  *)
(* city and the date of the first entry, and get_today_visitors the        *)
(* newcomers of today, not those who came before and were saved again.     *)
(* How a query says that there is nobody is left open.                     *)
AnswersFollowCalls ==
    /\ Tells(all_names(visitor), Registered)
    /\ Tells(get_today_visitors(visitor, today), Newcomers)
    /\ Tells(dump_visitors(visitor), {FirstRow(name) : name \in Registered})
=============================================================================
