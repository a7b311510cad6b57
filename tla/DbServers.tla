------------------------------ MODULE DbServers ------------------------------
(***************************************************************************)
(* The life of the four database servers (visitors_db, db_login,           *)
(* db_message, db_comment), of the mnesia they share and of the HTTP       *)
(* connections that start and call them.                                   *)
(*                                                                         *)
(* Nothing supervises the servers: the front page starts them with         *)
(* gen_server:start_link from the process that serves the request, so a    *)
(* server is linked to the connection of the first visitor.  Every server  *)
(* starts mnesia and creates its own table, all tables are in memory only, *)
(* and the stop of any one server stops mnesia for all of them.            *)
(*                                                                         *)
(* A page is the sequence of calls it still has to make (todo).  A step of *)
(* a server is one mnesia transaction or dirty call; the rows of the       *)
(* tables are abstracted to whether the table exists.                      *)
(***************************************************************************)
EXTENDS Integers, Sequences, FiniteSets

CONSTANTS
    Servers,    \* the servers modelled, a set of names
    Conns,      \* HTTP connections (one request handler process each)
    NoConn,     \* no connection: a process that is gone, or the operator's shell
    MaxFaults,  \* bound: lost connections, call timeouts and stops
    MaxStops    \* bound: stops among them

ASSUME ServersAssumption ==
    Servers \subseteq {"visitors_db", "db_login", "db_message", "db_comment"}
ASSUME NoConnAssumption == NoConn \notin Conns
ASSUME FaultsAssumption == MaxFaults \in Nat /\ MaxStops \in Nat

VARIABLES
    mnesia,   \* is mnesia running?
    tables,   \* the servers whose table exists
    pc,       \* server -> where its process is
    owner,    \* server -> the connection it is linked to
    mailbox,  \* server -> the calls it was sent; the head is being handled
    open,     \* connection -> is it open?
    todo,     \* connection -> the calls its page still makes; << >> when idle
    wait,     \* connection -> what the head of todo waits for
    exits,    \* connection -> the first 'EXIT' message it has not looked at
    faults,   \* faults so far
    stops     \* stops so far

vars == <<mnesia, tables, pc, owner, mailbox, open, todo, wait, exits, faults, stops>>

serverVars == <<pc, owner, mailbox>>
connVars == <<open, todo, wait, exits>>
faultVars == <<faults, stops>>
----------------------------------------------------------------------------
(* What the pages ask for *)

Call(server, op) == [server |-> server, op |-> op]

(* Mutant of IndexBody: the account is inserted before its server starts. *)
IndexBodyInsertFirst ==
    << Call("visitors_db", "start"),
       Call("db_login", "insert"),
       Call("db_login", "start"),
       Call("db_message", "start"),
       Call("db_comment", "start") >>

(* index:body(). *)
IndexBody ==
    << Call("visitors_db", "start"),
       Call("db_login", "start"),
       Call("db_login", "insert"),
       Call("db_message", "start"),
       Call("db_comment", "start") >>

(* The part of it that concerns the servers modelled. *)
Home ==
    LET Part(i) == IF IndexBody[i].server \in Servers THEN <<IndexBody[i]>> ELSE << >>
    IN  Part(1) \o Part(2) \o Part(3) \o Part(4) \o Part(5)

(* The one call each of the other pages and events makes: insert reads a   *)
(* key and writes a row, add first counts the keys, remove deletes, query  *)
(* reads.                                                                  *)
VisitorCalls == {Call("visitors_db", "insert")}

AccountCalls == {Call("db_login", "insert")}

LoginCalls == {Call("db_login", "query")}

MessageCalls == {Call("db_message", "add"), Call("db_message", "query")}

CommentCalls ==
    {Call("db_comment", "add"), Call("db_comment", "query"), Call("db_comment", "remove")}

PageCalls ==
    { call \in VisitorCalls \cup AccountCalls \cup LoginCalls \cup MessageCalls \cup CommentCalls :
        call.server \in Servers }
----------------------------------------------------------------------------
Registered(n) == pc[n] # "down"

Idle(c) == open[c] /\ todo[c] = << >>

(* The server the page of a connection is waiting for. *)
Target(c) == Head(todo[c]).server

WaitsFor(c, what, n) == wait[c] = what /\ Target(c) = n

(* What the death of the servers in D leaves behind: a caller gets 'DOWN'  *)
(* and its page is given up; who waits for a start gets the error, which   *)
(* index:body() ignores, and goes on.                                      *)
TodoAfter(D) ==
    [c \in Conns |->
        IF \E n \in D : WaitsFor(c, "reply", n) THEN << >>
        ELSE IF \E n \in D : WaitsFor(c, "ack", n) THEN Tail(todo[c])
        ELSE todo[c]]

WaitAfter(D) ==
    [c \in Conns |->
        IF \E n \in D : WaitsFor(c, "reply", n) \/ WaitsFor(c, "ack", n)
        THEN "none" ELSE wait[c]]

(* The owners find an 'EXIT' message, "crash" if the server was among C    *)
(* and "normal" if not, except for the one that start_link itself takes.   *)
ExitsAfter(D, C) ==
    LET told(c, S) == \E n \in S : owner[n] = c /\ ~WaitsFor(c, "ack", n)
    IN  [c \in Conns |->
            IF exits[c] # "none" THEN exits[c]
            ELSE IF told(c, C) THEN "crash"
            ELSE IF told(c, D) THEN "normal"
            ELSE "none"]

(* The servers in D end; those in H hang. *)
ServersAfter(D, H) ==
    /\ pc' = [n \in Servers |-> IF n \in D THEN "down"
                                ELSE IF n \in H THEN "hung" ELSE pc[n]]
    /\ mailbox' = [n \in Servers |-> IF n \in D THEN << >> ELSE mailbox[n]]

(* The servers in D end, those in C among them abnormally; those in H hang. *)
Die(D, C, H) ==
    /\ ServersAfter(D, H)
    /\ owner' = [n \in Servers |-> IF n \in D THEN NoConn ELSE owner[n]]
    /\ todo' = TodoAfter(D)
    /\ wait' = WaitAfter(D)
    /\ exits' = ExitsAfter(D, C)
----------------------------------------------------------------------------
Init ==
    /\ mnesia = FALSE
    /\ tables = {}
    /\ pc = [n \in Servers |-> "down"]
    /\ owner = [n \in Servers |-> NoConn]
    /\ mailbox = [n \in Servers |-> << >>]
    /\ open = [c \in Conns |-> FALSE]
    /\ todo = [c \in Conns |-> << >>]
    /\ wait = [c \in Conns |-> "none"]
    /\ exits = [c \in Conns |-> "none"]
    /\ faults = 0
    /\ stops = 0
----------------------------------------------------------------------------
(* The request handler of a connection *)

Accept(c) ==
    /\ ~open[c]
    /\ open' = [open EXCEPT ![c] = TRUE]
    /\ UNCHANGED <<mnesia, tables, serverVars, todo, wait, exits, faultVars>>

(* A request runs inside the handler: the front page, or one of the others. *)
Request(c, page) ==
    /\ Idle(c)
    /\ todo' = [todo EXCEPT ![c] = page]
    /\ UNCHANGED <<mnesia, tables, serverVars, open, wait, exits, faultVars>>

(* gen_server:start_link: nothing is spawned if the name is registered.    *)
(* The result is ignored.                                                  *)
Start(c) ==
    /\ todo[c] # << >> /\ wait[c] = "none" /\ Head(todo[c]).op = "start"
    /\ IF Registered(Target(c))
       THEN todo' = [todo EXCEPT ![c] = Tail(@)] /\ UNCHANGED wait
       ELSE wait' = [wait EXCEPT ![c] = "spawn"] /\ UNCHANGED todo
    /\ UNCHANGED <<mnesia, tables, serverVars, open, exits, faultVars>>

(* Mutant of Register: the process that comes second ends without telling  *)
(* its starter.                                                            *)
RegisterLoserSilent(c) ==
    /\ wait[c] = "spawn"
    /\ ~Registered(Target(c))
    /\ pc' = [pc EXCEPT ![Target(c)] = "mnesia"]
    /\ owner' = [owner EXCEPT ![Target(c)] = c]
    /\ wait' = [wait EXCEPT ![c] = "ack"]
    /\ UNCHANGED <<mnesia, tables, mailbox, open, todo, exits, faultVars>>

(* The spawned process registers its name.  If another one was faster it   *)
(* reports already_started and ends normally, linked to the connection.    *)
Register(c) ==
    /\ wait[c] = "spawn"
    /\ LET n == Target(c) IN
       \/ /\ ~Registered(n)
          /\ pc' = [pc EXCEPT ![n] = "mnesia"]
          /\ owner' = [owner EXCEPT ![n] = c]
          /\ wait' = [wait EXCEPT ![c] = "ack"]
          /\ UNCHANGED <<todo, exits>>
       \/ /\ Registered(n)
          /\ todo' = [todo EXCEPT ![c] = Tail(@)]
          /\ wait' = [wait EXCEPT ![c] = "none"]
          /\ exits' = [exits EXCEPT ![c] = IF @ = "none" THEN "normal" ELSE @]
          /\ UNCHANGED <<pc, owner>>
    /\ UNCHANGED <<mnesia, tables, mailbox, open, faultVars>>

(* gen_server:call: the request is sent, or there is no process and the    *)
(* page is given up.  What a hung server is sent, it never looks at.       *)
Send(c) ==
    /\ todo[c] # << >> /\ wait[c] = "none" /\ Head(todo[c]).op # "start"
    /\ IF Registered(Target(c))
       THEN /\ mailbox' = [mailbox EXCEPT ![Target(c)] =
                              IF pc[Target(c)] = "hung" THEN @
                              ELSE Append(@, [from |-> c, op |-> Head(todo[c]).op])]
            /\ wait' = [wait EXCEPT ![c] = "reply"]
            /\ UNCHANGED todo
       ELSE /\ todo' = [todo EXCEPT ![c] = << >>]
            /\ UNCHANGED <<mailbox, wait>>
    /\ UNCHANGED <<mnesia, tables, pc, owner, open, exits, faultVars>>

(* Mutant of Timeout: the late reply is taken for the next one. *)
TimeoutKeepsCall(c) ==
    /\ wait[c] = "reply"
    /\ faults < MaxFaults
    /\ faults' = faults + 1
    /\ todo' = [todo EXCEPT ![c] = << >>]
    /\ wait' = [wait EXCEPT ![c] = "none"]
    /\ UNCHANGED <<mnesia, tables, pc, owner, mailbox, open, exits, stops>>

(* After five seconds the call gives up, and with it the page.  The        *)
(* request stays in the mailbox; nobody waits for its reply.  That a live  *)
(* server is too slow is a fault; that a hung one is, is certain.          *)
Timeout(c) ==
    /\ wait[c] = "reply"
    /\ IF pc[Target(c)] = "hung"
       THEN UNCHANGED faults
       ELSE faults < MaxFaults /\ faults' = faults + 1
    /\ mailbox' = [mailbox EXCEPT ![Target(c)] =
                      [i \in DOMAIN @ |->
                          IF @[i].from = c THEN [@[i] EXCEPT !.from = NoConn] ELSE @[i]]]
    /\ todo' = [todo EXCEPT ![c] = << >>]
    /\ wait' = [wait EXCEPT ![c] = "none"]
    /\ UNCHANGED <<mnesia, tables, pc, owner, open, exits, stops>>

(* The handler ends.  If it ends normally its servers go on without it;    *)
(* otherwise the link takes them down.                                     *)
Close(c, abnormal) ==
    LET D == {n \in Servers : abnormal /\ owner[n] = c}
    IN  /\ ServersAfter(D, {})
        /\ owner' = [n \in Servers |-> IF owner[n] = c THEN NoConn ELSE owner[n]]
        /\ todo' = TodoAfter(D)
        /\ wait' = WaitAfter(D)
        /\ exits' = [exits EXCEPT ![c] = "none"]
        /\ open' = [open EXCEPT ![c] = FALSE]
        /\ UNCHANGED <<mnesia, tables>>

(* The peer closes, or keeps quiet for too long. *)
Closed(c) ==
    /\ Idle(c)
    /\ Close(c, FALSE)
    /\ UNCHANGED faultVars

(* The socket fails. *)
TcpError(c) ==
    /\ Idle(c)
    /\ faults < MaxFaults
    /\ faults' = faults + 1
    /\ Close(c, TRUE)
    /\ UNCHANGED stops

(* handle_info({'EXIT', _, Reason}): the handler ends for the same reason. *)
HandleExit(c) ==
    /\ Idle(c)
    /\ exits[c] # "none"
    /\ Close(c, exits[c] = "crash")
    /\ UNCHANGED faultVars

(* Mutant of Stop: a request the server has no clause for. *)
StopUnknownCall(n) ==
    /\ Registered(n)
    /\ faults < MaxFaults /\ stops < MaxStops
    /\ faults' = faults + 1
    /\ stops' = stops + 1
    /\ mailbox' = [mailbox EXCEPT ![n] = Append(@, [from |-> NoConn, op |-> "halt"])]
    /\ UNCHANGED <<mnesia, tables, pc, owner, connVars>>

(* An operator calls stop() of a server from the Erlang shell. *)
Stop(n) ==
    /\ Registered(n)
    /\ faults < MaxFaults /\ stops < MaxStops
    /\ faults' = faults + 1
    /\ stops' = stops + 1
    /\ mailbox' = [mailbox EXCEPT ![n] = Append(@, [from |-> NoConn, op |-> "stop"])]
    /\ UNCHANGED <<mnesia, tables, pc, owner, connVars>>
----------------------------------------------------------------------------
(* A server *)

(* Mutant of InitMnesia: init does not start mnesia. *)
InitMnesiaForgotten(n) ==
    /\ pc[n] = "mnesia"
    /\ pc' = [pc EXCEPT ![n] = "table"]
    /\ UNCHANGED <<mnesia, tables, owner, mailbox, connVars, faultVars>>

(* init: mnesia:start(), harmless if it runs already. *)
InitMnesia(n) ==
    /\ pc[n] = "mnesia"
    /\ mnesia' = TRUE
    /\ pc' = [pc EXCEPT ![n] = "table"]
    /\ UNCHANGED <<tables, owner, mailbox, connVars, faultVars>>

(* init: mnesia:create_table, the result ignored: it fails if the table    *)
(* exists or mnesia was stopped.  Then the starter gets its answer.        *)
InitTable(n) ==
    /\ pc[n] = "table"
    /\ tables' = IF mnesia THEN tables \cup {n} ELSE tables
    /\ pc' = [pc EXCEPT ![n] = "idle"]
    /\ todo' = [c \in Conns |-> IF WaitsFor(c, "ack", n) THEN Tail(todo[c]) ELSE todo[c]]
    /\ wait' = [c \in Conns |-> IF WaitsFor(c, "ack", n) THEN "none" ELSE wait[c]]
    /\ UNCHANGED <<mnesia, owner, mailbox, open, exits, faultVars>>

(* The server handles a call op and is at its first step. *)
Handles(n, op) == pc[n] = "idle" /\ mailbox[n] # << >> /\ Head(mailbox[n]).op = op

(* The reply goes to the caller, if it still waits. *)
Reply(n) ==
    LET from == Head(mailbox[n]).from
    IN  /\ mailbox' = [mailbox EXCEPT ![n] = Tail(@)]
        /\ pc' = [pc EXCEPT ![n] = "idle"]
        /\ todo' = [c \in Conns |-> IF c = from THEN Tail(todo[c]) ELSE todo[c]]
        /\ wait' = [c \in Conns |-> IF c = from THEN "none" ELSE wait[c]]
        /\ UNCHANGED <<owner, exits>>

(* mnesia:dirty_all_keys of add_comment and add_message exits if there is  *)
(* no table.                                                               *)
CountKeys(n) ==
    /\ Handles(n, "add")
    /\ \/ /\ n \in tables
          /\ pc' = [pc EXCEPT ![n] = "read"]
          /\ UNCHANGED <<owner, mailbox, todo, wait, exits>>
       \/ n \notin tables /\ Die({n}, {n}, {})
    /\ UNCHANGED <<mnesia, tables, open, faultVars>>

(* Mutant of ReadKey: an aborted transaction is answered, too. *)
ReadKeySwallowsAbort(n) ==
    /\ Handles(n, "insert") \/ pc[n] = "read"
    /\ \/ Reply(n)
       \/ /\ n \in tables
          /\ pc' = [pc EXCEPT ![n] = "write"]
          /\ UNCHANGED <<owner, mailbox, todo, wait, exits>>
    /\ UNCHANGED <<mnesia, tables, open, faultVars>>

(* The transaction that reads the key: the row is there and the answer is  *)
(* already_inserted, or it is not, or the transaction is aborted, for      *)
(* which the case has no clause.                                           *)
ReadKey(n) ==
    /\ Handles(n, "insert") \/ pc[n] = "read"
    /\ \/ n \in tables /\ Reply(n)
       \/ /\ n \in tables
          /\ pc' = [pc EXCEPT ![n] = "write"]
          /\ UNCHANGED <<owner, mailbox, todo, wait, exits>>
       \/ n \notin tables /\ Die({n}, {n}, {})
    /\ UNCHANGED <<mnesia, tables, open, faultVars>>

(* The transaction that writes the row; its result is ignored. *)
WriteRow(n) ==
    /\ pc[n] = "write"
    /\ Reply(n)
    /\ UNCHANGED <<mnesia, tables, open, faultVars>>

(* The transaction that deletes a key; its result is ignored. *)
RemoveRow(n) ==
    /\ Handles(n, "remove")
    /\ Reply(n)
    /\ UNCHANGED <<mnesia, tables, open, faultVars>>

(* regular_transaction and get_account: no clause for aborted. *)
Query(n) ==
    /\ Handles(n, "query")
    /\ \/ n \in tables /\ Reply(n)
       \/ n \notin tables /\ Die({n}, {n}, {})
    /\ UNCHANGED <<mnesia, tables, open, faultVars>>

(* A server that may be inside a transaction, linked to mnesia_tm. *)
InTransaction(n) ==
    \/ pc[n] \in {"read", "write"}
    \/ \E op \in {"insert", "remove", "query"} : Handles(n, op)

(* handle_call(stop): mnesia:stop() takes away all tables.  It also kills  *)
(* servers inside a transaction (K), and a create_table under way loses    *)
(* the process that would answer it (H).  Then the server ends normally.   *)
HandleStop(n) ==
    /\ Handles(n, "stop")
    /\ mnesia' = FALSE
    /\ tables' = {}
    /\ \E K \in SUBSET {m \in Servers \ {n} : InTransaction(m)},
          H \in SUBSET {m \in Servers \ {n} : mnesia /\ pc[m] = "table"} :
        Die(K \cup {n}, K, H)
    /\ UNCHANGED <<open, faultVars>>
----------------------------------------------------------------------------
ConnStep(c) ==
    \/ Start(c) \/ Register(c) \/ Send(c)

ServerStep(n) ==
    \/ InitMnesia(n) \/ InitTable(n)
    \/ CountKeys(n) \/ ReadKey(n) \/ WriteRow(n) \/ RemoveRow(n) \/ Query(n)
    \/ HandleStop(n)

Next ==
    \/ \E c \in Conns :
        \/ Accept(c)
        \/ Request(c, Home)
        \/ \E call \in PageCalls : Request(c, <<call>>)
        \/ ConnStep(c)
        \/ Timeout(c) \/ Closed(c) \/ TcpError(c) \/ HandleExit(c)
    \/ \E n \in Servers : Stop(n) \/ ServerStep(n)

Spec == Init /\ [][Next]_vars

(* Processes are scheduled: a page goes on and a server handles its        *)
(* mailbox.  Nothing is assumed of visitors, timeouts and failures.        *)
Fairness ==
    /\ \A c \in Conns : WF_vars(ConnStep(c)) /\ WF_vars(HandleExit(c))
    /\ \A n \in Servers : WF_vars(ServerStep(n))

FairSpec == Spec /\ Fairness

(* In addition somebody always comes back to the front page. *)
VisitedSpec ==
    /\ FairSpec
    /\ \A c \in Conns : WF_vars(Accept(c)) /\ SF_vars(Request(c, Home))
----------------------------------------------------------------------------
Ops == {"insert", "add", "remove", "query"}

(* Type invariant. *)
TypeOK ==
    /\ mnesia \in BOOLEAN
    /\ tables \subseteq Servers
    /\ pc \in [Servers -> {"down", "mnesia", "table", "idle", "read", "write", "hung"}]
    /\ owner \in [Servers -> Conns \cup {NoConn}]
    /\ mailbox \in [Servers -> Seq([from : Conns \cup {NoConn}, op : Ops \cup {"stop"}])]
    /\ open \in [Conns -> BOOLEAN]
    /\ todo \in [Conns -> Seq([server : Servers, op : Ops \cup {"start"}])]
    /\ wait \in [Conns -> {"none", "spawn", "ack", "reply"}]
    /\ exits \in [Conns -> {"none", "normal", "crash"}]
    /\ faults \in 0..MaxFaults
    /\ stops \in 0..MaxStops

(* The calls of connection c in the mailbox of server n. *)
CallsOf(c, n) == {i \in DOMAIN mailbox[n] : mailbox[n][i].from = c}

(* Nobody waits in vain: a page that waits for a reply has exactly one     *)
(* call in exactly that server's mailbox and the server is alive (or it    *)
(* hangs in its init, and the call will time out); a page                  *)
(* that waits for start_link waits for a server that is in its init and    *)
(* linked to it; and no server will reply to a page that does not wait.    *)
WaitsAreServed ==
    \A c \in Conns, n \in Servers :
        /\ WaitsFor(c, "reply", n) =>
              /\ todo[c] # << >>
              /\ Registered(n)
              /\ pc[n] = "hung" \/ Cardinality(CallsOf(c, n)) = 1
        /\ WaitsFor(c, "ack", n) =>
              /\ todo[c] # << >>
              /\ owner[n] = c
              /\ pc[n] \in {"mnesia", "table", "hung"}
        /\ CallsOf(c, n) # {} => WaitsFor(c, "reply", n)

(* While no server was stopped, every server that has finished its init    *)
(* has a table, however many servers and connections died before.          *)
UpMeansTable ==
    stops = 0 =>
        \A n \in Servers : pc[n] \in {"idle", "read", "write"} => mnesia /\ n \in tables

(* While no server was stopped, a server whose connection is gone stays    *)
(* up for good: no failing page, call or connection takes it down.         *)
OrphansStayUp ==
    [][\A n \in Servers :
        stops' = 0 /\ Registered(n) /\ owner[n] = NoConn => Registered(n)']_vars

(* As long as nothing has failed, no page ends before its time: a page     *)
(* with calls left makes the next one, and the one call it may be given up *)
(* with is its last.  So the front page brings up all servers, whichever   *)
(* connections of other visitors start the same ones, lose that race and   *)
(* end in the meantime.                                                    *)
GoesThrough ==
    [][faults' = 0 =>
        \A c \in Conns : todo[c] # << >> => todo'[c] \in {todo[c], Tail(todo[c])}]_vars

(* Every page comes to an end, with an answer or an error. *)
PagesEnd == \A c \in Conns : todo[c] # << >> ~> todo[c] = << >>

(* The site repairs itself: after the last fault, visits to the front page *)
(* bring all servers up and give db_login its table again, unless a server *)
(* hangs in its init.                                                      *)
Recovers ==
    <>[](\/ \E n \in Servers : pc[n] = "hung"
         \/ /\ \A n \in Servers : Registered(n)
            /\ "db_login" \in Servers => "db_login" \in tables)

(* What "insert account in database" and "insert comment in database"      *)
(* promise: an insert that is answered has found its table.                *)
AnsweredMeansDone ==
    [][\A n \in Servers :
        /\ mailbox[n] # << >>
        /\ Head(mailbox[n]).op \in {"insert", "add"}
        /\ mailbox'[n] = Tail(mailbox[n])
        /\ Registered(n)'
        => n \in tables]_vars
=============================================================================
