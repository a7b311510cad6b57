-------------------------- MODULE DbServers_proofs --------------------------
(***************************************************************************)
(* Proofs about the life cycle of the servers, for any set of servers and  *)
(* any number of connections, faults and stops.                            *)
(***************************************************************************)
EXTENDS DbServers, FiniteSetTheorems, SequenceTheorems, TLAPS

Calls == [server : Servers, op : Ops \cup {"start"}]

Messages == [from : Conns \cup {NoConn}, op : Ops \cup {"stop"}]

(***************************************************************************)
(* The inductive invariant.  WaitsAreServed is taken apart into facts      *)
(* about single messages: who waits has a call to make (Busy); a message   *)
(* in a mailbox is the call its sender waits with (Expected), and its      *)
(* sender's only one (Single); who waits for a reply is in the mailbox of  *)
(* a server that is up (Heard); who waits for start_link owns the server,  *)
(* which is in its init (Owned); a server in the middle of a call has the  *)
(* call at the head of its mailbox (Working).                              *)
(***************************************************************************)
Busy == \A c \in Conns : wait[c] # "none" => todo[c] # << >>

Expected ==
    \A n \in Servers : \A i \in DOMAIN mailbox[n] :
        mailbox[n][i].from \in Conns => WaitsFor(mailbox[n][i].from, "reply", n)

Single ==
    \A n \in Servers : \A i, j \in DOMAIN mailbox[n] :
        mailbox[n][i].from \in Conns /\ mailbox[n][i].from = mailbox[n][j].from => i = j

Heard ==
    \A c \in Conns, n \in Servers : WaitsFor(c, "reply", n) =>
        /\ pc[n] # "down"
        /\ pc[n] = "hung" \/ \E i \in DOMAIN mailbox[n] : mailbox[n][i].from = c

Owned ==
    \A c \in Conns, n \in Servers : WaitsFor(c, "ack", n) =>
        owner[n] = c /\ pc[n] \in {"mnesia", "table", "hung"}

Working ==
    \A n \in Servers : pc[n] \in {"read", "write"} => mailbox[n] # << >>

Served == Busy /\ Expected /\ Single /\ Heard /\ Owned /\ Working

(* A tail is the sequence moved by one. *)
LEMMA TailFacts ==
  ASSUME NEW S, NEW s \in Seq(S), s # << >>
  PROVE  /\ Len(s) \in Nat \ {0}
         /\ DOMAIN s = 1..Len(s)
         /\ Head(s) = s[1]
         /\ s[1] \in S
         /\ Tail(s) \in Seq(S)
         /\ DOMAIN Tail(s) = 1..(Len(s) - 1)
         /\ \A i \in 1..(Len(s) - 1) : Tail(s)[i] = s[i + 1]
  <1>1. /\ Head(s) \in S
        /\ Tail(s) \in Seq(S)
        /\ Len(Tail(s)) = Len(s) - 1
        /\ \A i \in 1..Len(Tail(s)) : Tail(s)[i] = s[i + 1]
    BY HeadTailProperties
  <1>2. Len(s) \in Nat \ {0} /\ DOMAIN s = 1..Len(s)
    BY EmptySeq
  <1>3. Head(s) = s[1]
    OBVIOUS
  <1> QED
    BY <1>1, <1>2, <1>3

(* The front page calls only the servers modelled. *)
LEMMA HomeType == Home \in Seq(Calls)
  <1> DEFINE Part(i) == IF IndexBody[i].server \in Servers THEN <<IndexBody[i]>> ELSE << >>
  <1>1. ASSUME NEW i \in 1..5 PROVE Part(i) \in Seq(Calls)
    <2>1. IndexBody[i].server \in Servers => IndexBody[i] \in Calls
      BY DEF IndexBody, Call, Calls, Ops
    <2> QED
      BY <2>1
  <1>2. Home = Part(1) \o Part(2) \o Part(3) \o Part(4) \o Part(5)
    BY DEF Home
  <1>3. /\ Part(1) \in Seq(Calls) /\ Part(2) \in Seq(Calls) /\ Part(3) \in Seq(Calls)
        /\ Part(4) \in Seq(Calls) /\ Part(5) \in Seq(Calls)
    BY <1>1
  <1> HIDE DEF Part
  <1> QED
    BY <1>2, <1>3

(* So do the other pages. *)
LEMMA PageType == \A call \in PageCalls : <<call>> \in Seq(Calls)
  <1>1. \A call \in PageCalls : call \in Calls
    BY DEF PageCalls, VisitorCalls, AccountCalls, LoginCalls, MessageCalls, CommentCalls,
           Call, Calls, Ops
  <1> QED
    BY <1>1

(* The pointwise facts say what WaitsAreServed says. *)
LEMMA ServedImplies == TypeOK /\ Served => WaitsAreServed
  <1> SUFFICES ASSUME TypeOK, Served, NEW c \in Conns, NEW n \in Servers
               PROVE  /\ WaitsFor(c, "reply", n) =>
                            /\ todo[c] # << >>
                            /\ Registered(n)
                            /\ pc[n] = "hung" \/ Cardinality(CallsOf(c, n)) = 1
                      /\ WaitsFor(c, "ack", n) =>
                            /\ todo[c] # << >>
                            /\ owner[n] = c
                            /\ pc[n] \in {"mnesia", "table", "hung"}
                      /\ CallsOf(c, n) # {} => WaitsFor(c, "reply", n)
    BY DEF WaitsAreServed
  <1>1. ASSUME WaitsFor(c, "reply", n), pc[n] # "hung"
        PROVE  Cardinality(CallsOf(c, n)) = 1
    <2>1. PICK i \in DOMAIN mailbox[n] : mailbox[n][i].from = c
      BY <1>1 DEF Served, Heard
    <2>2. CallsOf(c, n) = {i}
      BY <2>1 DEF CallsOf, Served, Single
    <2> QED
      BY <2>2, FS_Singleton
  <1>2. CallsOf(c, n) # {} => WaitsFor(c, "reply", n)
    BY DEF CallsOf, Served, Expected
  <1>3. WaitsFor(c, "reply", n) \/ WaitsFor(c, "ack", n) => todo[c] # << >>
    BY DEF WaitsFor, Served, Busy
  <1> QED
    BY <1>1, <1>2, <1>3 DEF Served, Heard, Owned, Registered

(* The part of the types that Served goes together with. *)
CoreType ==
    /\ pc \in [Servers -> {"down", "mnesia", "table", "idle", "read", "write", "hung"}]
    /\ mailbox \in [Servers -> Seq(Messages)]
    /\ todo \in [Conns -> Seq(Calls)]
    /\ wait \in [Conns -> {"none", "spawn", "ack", "reply"}]

RestType ==
    /\ mnesia \in BOOLEAN
    /\ tables \subseteq Servers
    /\ owner \in [Servers -> Conns \cup {NoConn}]
    /\ open \in [Conns -> BOOLEAN]
    /\ exits \in [Conns -> {"none", "normal", "crash"}]
    /\ faults \in 0..MaxFaults
    /\ stops \in 0..MaxStops

(* The two parts are the type invariant. *)
LEMMA TypeParts == (TypeOK <=> CoreType /\ RestType) /\ (TypeOK' <=> CoreType' /\ RestType')
  BY DEF TypeOK, CoreType, RestType, Calls, Messages

Core == CoreType /\ Served

(* A reply takes the message and its sender's wait away together. *)
LEMMA ReplyCore ==
  ASSUME Core, NEW n \in Servers, mailbox[n] # << >>,
         pc[n] \in {"idle", "read", "write"}, Reply(n)
  PROVE  Core'
  <1> DEFINE from == mailbox[n][1].from
  <1>1. /\ mailbox[n] \in Seq(Messages)
        /\ Len(mailbox[n]) \in Nat \ {0}
        /\ DOMAIN mailbox[n] = 1..Len(mailbox[n])
        /\ Head(mailbox[n]) = mailbox[n][1]
        /\ mailbox[n][1] \in Messages
        /\ Tail(mailbox[n]) \in Seq(Messages)
        /\ DOMAIN Tail(mailbox[n]) = 1..(Len(mailbox[n]) - 1)
        /\ \A i \in 1..(Len(mailbox[n]) - 1) : Tail(mailbox[n])[i] = mailbox[n][i + 1]
    <2>1. mailbox[n] \in Seq(Messages)
      BY DEF Core, CoreType
    <2> QED
      BY <2>1, TailFacts
  <1>2. /\ mailbox' = [mailbox EXCEPT ![n] = Tail(@)]
        /\ pc' = [pc EXCEPT ![n] = "idle"]
        /\ todo' = [c \in Conns |-> IF c = from THEN Tail(todo[c]) ELSE todo[c]]
        /\ wait' = [c \in Conns |-> IF c = from THEN "none" ELSE wait[c]]
        /\ owner' = owner
    BY <1>1 DEF Reply
  <1>3. from \in Conns => WaitsFor(from, "reply", n) /\ todo[from] # << >>
    BY <1>1 DEF Core, Served, Expected, Busy, WaitsFor
  <1> HIDE DEF from
  <1>4. CoreType'
    <2>1. \A c \in Conns : todo'[c] \in Seq(Calls)
      <3> SUFFICES ASSUME NEW c \in Conns PROVE todo'[c] \in Seq(Calls)
        OBVIOUS
      <3>1. todo[c] \in Seq(Calls)
        BY DEF Core, CoreType
      <3>2. CASE c = from
        BY <1>2, <1>3, <3>1, <3>2, TailFacts
      <3>3. CASE c # from
        BY <1>2, <3>1, <3>3
      <3> QED
        BY <3>2, <3>3
    <2>2. todo' \in [Conns -> Seq(Calls)]
      BY <1>2, <2>1
    <2>3. wait' \in [Conns -> {"none", "spawn", "ack", "reply"}]
      BY <1>2 DEF Core, CoreType
    <2>4. mailbox' \in [Servers -> Seq(Messages)]
      BY <1>1, <1>2 DEF Core, CoreType
    <2>5. pc' \in [Servers -> {"down", "mnesia", "table", "idle", "read", "write", "hung"}]
      BY <1>2 DEF Core, CoreType
    <2> QED
      BY <2>2, <2>3, <2>4, <2>5 DEF CoreType
  <1>5. /\ \A c \in Conns : c # from => todo'[c] = todo[c] /\ wait'[c] = wait[c]
        /\ from \in Conns => wait'[from] = "none"
        /\ \A m \in Servers : m # n => mailbox'[m] = mailbox[m] /\ pc'[m] = pc[m]
        /\ mailbox'[n] = Tail(mailbox[n])
        /\ pc'[n] = "idle"
    BY <1>2 DEF Core, CoreType
  <1>6. Busy'
    BY <1>5 DEF Core, Served, Busy
  <1>7. Expected'
    <2> SUFFICES ASSUME NEW m \in Servers, NEW i \in DOMAIN mailbox'[m],
                        mailbox'[m][i].from \in Conns
                 PROVE  WaitsFor(mailbox[m][i].from, "reply", m)'
      BY DEF Expected
    <2>1. PICK d \in Conns : d = mailbox'[m][i].from
      OBVIOUS
    <2>2. CASE m = n
      <3>1. i \in 1..(Len(mailbox[n]) - 1) /\ mailbox'[n][i] = mailbox[n][i + 1]
        BY <1>1, <1>5, <2>2
      <3>2. i + 1 \in DOMAIN mailbox[n] /\ 1 \in DOMAIN mailbox[n] /\ i + 1 # 1
        BY <1>1, <3>1
      <3>3. mailbox[n][i + 1].from = d
        BY <2>1, <2>2, <3>1
      <3>4. d # from
        BY <3>2, <3>3 DEF Core, Served, Single, from
      <3>5. wait[d] = "reply" /\ Head(todo[d]).server = n
        BY <3>2, <3>3 DEF Core, Served, Expected, WaitsFor, Target
      <3> QED
        BY <1>5, <2>1, <2>2, <3>4, <3>5 DEF WaitsFor, Target
    <2>3. CASE m # n
      <3>1. wait[d] = "reply" /\ Head(todo[d]).server = m
        BY <1>5, <2>1, <2>3 DEF Core, Served, Expected, WaitsFor, Target
      <3>2. d # from
        BY <1>3, <2>3, <3>1 DEF WaitsFor, Target
      <3> QED
        BY <1>5, <2>1, <3>1, <3>2 DEF WaitsFor, Target
    <2> QED
      BY <2>2, <2>3
  <1>8. Single'
    <2> SUFFICES ASSUME NEW m \in Servers, NEW i \in DOMAIN mailbox'[m],
                        NEW j \in DOMAIN mailbox'[m],
                        mailbox'[m][i].from \in Conns,
                        mailbox'[m][i].from = mailbox'[m][j].from
                 PROVE  i = j
      BY DEF Single
    <2>1. CASE m = n
      <3>1. /\ i \in 1..(Len(mailbox[n]) - 1) /\ mailbox'[n][i] = mailbox[n][i + 1]
            /\ j \in 1..(Len(mailbox[n]) - 1) /\ mailbox'[n][j] = mailbox[n][j + 1]
        BY <1>1, <1>5, <2>1
      <3>2. i + 1 \in DOMAIN mailbox[n] /\ j + 1 \in DOMAIN mailbox[n]
        BY <1>1, <3>1
      <3>3. i + 1 = j + 1
        BY <2>1, <3>1, <3>2 DEF Core, Served, Single
      <3> QED
        BY <3>1, <3>3
    <2>2. CASE m # n
      BY <1>5, <2>2 DEF Core, Served, Single
    <2> QED
      BY <2>1, <2>2
  <1>9. Heard'
    <2> SUFFICES ASSUME NEW d \in Conns, NEW m \in Servers, WaitsFor(d, "reply", m)'
                 PROVE  /\ pc'[m] # "down"
                        /\ \/ pc'[m] = "hung"
                           \/ \E i \in DOMAIN mailbox'[m] : mailbox'[m][i].from = d
      BY DEF Heard
    <2>1. d # from /\ WaitsFor(d, "reply", m)
      BY <1>5 DEF WaitsFor, Target
    <2>2. CASE m = n
      <3>1. PICK i \in DOMAIN mailbox[n] : mailbox[n][i].from = d
        BY <2>1, <2>2 DEF Core, Served, Heard
      <3>2. i # 1
        BY <2>1, <3>1 DEF from
      <3>3. i - 1 \in 1..(Len(mailbox[n]) - 1) /\ (i - 1) + 1 = i
        BY <1>1, <3>1, <3>2
      <3>4. Tail(mailbox[n])[i - 1] = mailbox[n][i]
        BY <1>1, <3>3
      <3>5. i - 1 \in DOMAIN mailbox'[n] /\ mailbox'[n][i - 1].from = d
        BY <1>1, <1>5, <3>1, <3>3, <3>4
      <3> QED
        BY <1>5, <2>2, <3>5
    <2>3. CASE m # n
      BY <1>5, <2>1, <2>3 DEF Core, Served, Heard
    <2> QED
      BY <2>2, <2>3
  <1>10. Owned'
    <2> SUFFICES ASSUME NEW d \in Conns, NEW m \in Servers, WaitsFor(d, "ack", m)'
                 PROVE  owner'[m] = d /\ pc'[m] \in {"mnesia", "table", "hung"}
      BY DEF Owned
    <2>1. WaitsFor(d, "ack", m)
      BY <1>5 DEF WaitsFor, Target
    <2>2. m # n
      BY <2>1 DEF Core, Served, Owned
    <2> QED
      BY <1>2, <1>5, <2>1, <2>2 DEF Core, Served, Owned
  <1>11. Working'
    BY <1>5 DEF Core, Served, Working
  <1> QED
    BY <1>4, <1>6, <1>7, <1>8, <1>9, <1>10, <1>11 DEF Core, Served

(* The death of servers ends the waits on them and empties their mailboxes. *)
LEMMA DeathCore ==
  ASSUME Core, NEW D \in SUBSET Servers, NEW H \in SUBSET Servers,
         \A n \in H : n \notin D /\ pc[n] = "table",
         ServersAfter(D, H), todo' = TodoAfter(D), wait' = WaitAfter(D),
         \A c \in Conns, n \in Servers :
             n \notin D /\ WaitsFor(c, "ack", n) => owner'[n] = owner[n]
  PROVE  Core'
  <1>1. /\ \A n \in D : pc'[n] = "down" /\ mailbox'[n] = << >>
        /\ \A n \in H : pc'[n] = "hung" /\ mailbox'[n] = mailbox[n]
        /\ \A n \in Servers : n \notin D \cup H => pc'[n] = pc[n] /\ mailbox'[n] = mailbox[n]
    BY DEF ServersAfter
  <1>2. ASSUME NEW c \in Conns
        PROVE  \/ /\ wait'[c] = "none"
                  /\ todo'[c] \in Seq(Calls)
               \/ /\ wait'[c] = wait[c]
                  /\ todo'[c] = todo[c]
                  /\ \A n \in D : ~WaitsFor(c, "reply", n) /\ ~WaitsFor(c, "ack", n)
    <2>0. todo[c] \in Seq(Calls)
      BY DEF Core, CoreType
    <2>1. CASE \E n \in D : WaitsFor(c, "reply", n)
      <3>1. wait'[c] = "none" /\ todo'[c] = << >>
        BY <2>1 DEF TodoAfter, WaitAfter
      <3> QED
        BY <3>1
    <2>2. CASE /\ \A n \in D : ~WaitsFor(c, "reply", n)
               /\ \E n \in D : WaitsFor(c, "ack", n)
      <3>1. wait'[c] = "none" /\ todo'[c] = Tail(todo[c])
        BY <2>2 DEF TodoAfter, WaitAfter
      <3>2. todo[c] # << >>
        BY <2>2 DEF Core, Served, Busy, WaitsFor
      <3> QED
        BY <2>0, <3>1, <3>2, TailFacts
    <2>3. CASE \A n \in D : ~WaitsFor(c, "reply", n) /\ ~WaitsFor(c, "ack", n)
      <3>1. wait'[c] = wait[c] /\ todo'[c] = todo[c]
        BY <2>3 DEF TodoAfter, WaitAfter
      <3> QED
        BY <2>3, <3>1
    <2> QED
      BY <2>1, <2>2, <2>3
  <1>3. CoreType'
    <2>1. todo' \in [Conns -> Seq(Calls)]
      <3>1. \A c \in Conns : todo'[c] \in Seq(Calls)
        BY <1>2 DEF Core, CoreType
      <3> QED
        BY <3>1 DEF TodoAfter
    <2>2. wait' \in [Conns -> {"none", "spawn", "ack", "reply"}]
      BY DEF WaitAfter, Core, CoreType
    <2>3. mailbox' \in [Servers -> Seq(Messages)]
      <3>1. \A n \in Servers : mailbox[n] \in Seq(Messages)
        BY DEF Core, CoreType
      <3>2. << >> \in Seq(Messages)
        OBVIOUS
      <3>3. \A n \in Servers : mailbox'[n] \in Seq(Messages)
        BY <1>1, <3>1, <3>2
      <3> QED
        BY <3>3 DEF ServersAfter
    <2>4. pc' \in [Servers -> {"down", "mnesia", "table", "idle", "read", "write", "hung"}]
      BY DEF ServersAfter, Core, CoreType
    <2> QED
      BY <2>1, <2>2, <2>3, <2>4 DEF CoreType
  <1>4. Busy'
    BY <1>2 DEF Core, Served, Busy
  <1>5. Expected'
    <2> SUFFICES ASSUME NEW m \in Servers, NEW i \in DOMAIN mailbox'[m],
                        mailbox'[m][i].from \in Conns
                 PROVE  WaitsFor(mailbox[m][i].from, "reply", m)'
      BY DEF Expected
    <2>1. PICK d \in Conns : d = mailbox'[m][i].from
      OBVIOUS
    <2>2. m \notin D /\ mailbox'[m] = mailbox[m]
      BY <1>1
    <2>3. wait[d] = "reply" /\ Head(todo[d]).server = m
      BY <2>1, <2>2 DEF Core, Served, Expected, WaitsFor, Target
    <2>4. wait'[d] = wait[d] /\ todo'[d] = todo[d]
      BY <2>2, <2>3 DEF TodoAfter, WaitAfter, WaitsFor, Target
    <2> QED
      BY <2>1, <2>3, <2>4 DEF WaitsFor, Target
  <1>6. Single'
    <2>1. \A m \in Servers : mailbox'[m] = mailbox[m] \/ DOMAIN mailbox'[m] = {}
      BY <1>1
    <2> QED
      BY <2>1 DEF Core, Served, Single
  <1>7. ASSUME NEW d \in Conns, NEW m \in Servers, NEW what \in {"reply", "ack"},
               WaitsFor(d, what, m)'
        PROVE  m \notin D /\ WaitsFor(d, what, m)
    BY <1>2, <1>7 DEF WaitsFor, Target
  <1>8. Heard'
    <2> SUFFICES ASSUME NEW d \in Conns, NEW m \in Servers, WaitsFor(d, "reply", m)'
                 PROVE  /\ pc'[m] # "down"
                        /\ \/ pc'[m] = "hung"
                           \/ \E i \in DOMAIN mailbox'[m] : mailbox'[m][i].from = d
      BY DEF Heard
    <2>1. m \notin D /\ WaitsFor(d, "reply", m)
      BY <1>7
    <2> QED
      BY <1>1, <2>1 DEF Core, Served, Heard
  <1>9. Owned'
    <2> SUFFICES ASSUME NEW d \in Conns, NEW m \in Servers, WaitsFor(d, "ack", m)'
                 PROVE  owner'[m] = d /\ pc'[m] \in {"mnesia", "table", "hung"}
      BY DEF Owned
    <2>1. m \notin D /\ WaitsFor(d, "ack", m)
      BY <1>7
    <2>2. owner[m] = d /\ pc[m] \in {"mnesia", "table", "hung"} /\ owner'[m] = owner[m]
      BY <2>1 DEF Core, Served, Owned
    <2> QED
      BY <1>1, <2>1, <2>2
  <1>10. Working'
    <2>1. \A m \in Servers : pc'[m] \in {"read", "write"} => pc'[m] = pc[m] /\ mailbox'[m] = mailbox[m]
      BY <1>1
    <2> QED
      BY <2>1 DEF Core, Served, Working
  <1> QED
    BY <1>3, <1>4, <1>5, <1>6, <1>8, <1>9, <1>10 DEF Core, Served

(* A page that waits for nobody may go on by itself. *)
LEMMA QuietCore ==
  ASSUME Core, NEW c \in Conns, NEW calls \in Seq(Calls), NEW w \in {"none", "spawn"},
         wait[c] \in {"none", "spawn"},
         w = "none" \/ calls # << >>,
         todo' = [todo EXCEPT ![c] = calls],
         wait' = [wait EXCEPT ![c] = w],
         UNCHANGED <<pc, owner, mailbox>>
  PROVE  Core'
  <1>1. CoreType'
    BY DEF Core, CoreType
  <1>2. /\ \A d \in Conns : d # c => todo'[d] = todo[d] /\ wait'[d] = wait[d]
        /\ todo'[c] = calls /\ wait'[c] = w
    BY DEF Core, CoreType
  <1>3. \A d \in Conns, n \in Servers, what \in {"reply", "ack"} :
            WaitsFor(d, what, n)' <=> WaitsFor(d, what, n)
    BY <1>2 DEF WaitsFor, Target
  <1>4. Busy'
    BY <1>2 DEF Core, Served, Busy
  <1>5. Expected'
    <2> SUFFICES ASSUME NEW n \in Servers, NEW i \in DOMAIN mailbox[n],
                        mailbox[n][i].from \in Conns
                 PROVE  WaitsFor(mailbox[n][i].from, "reply", n)'
      BY DEF Expected
    <2>1. WaitsFor(mailbox[n][i].from, "reply", n)
      BY DEF Core, Served, Expected
    <2>2. mailbox[n][i].from # c
      BY <2>1 DEF WaitsFor
    <2> QED
      BY <1>2, <2>1, <2>2 DEF WaitsFor, Target
  <1>6. Single' /\ Working'
    BY DEF Core, Served, Single, Working
  <1>7. Heard' /\ Owned'
    BY <1>3 DEF Core, Served, Heard, Owned
  <1> QED
    BY <1>1, <1>4, <1>5, <1>6, <1>7 DEF Core, Served

(* A server goes from one step of its init or of a call to the next. *)
LEMMA AdvanceCore ==
  ASSUME Core, NEW n \in Servers, NEW v \in {"table", "read", "write"},
         \/ pc[n] = "mnesia" /\ v = "table"
         \/ pc[n] \in {"idle", "read"} /\ v \in {"read", "write"} /\ mailbox[n] # << >>,
         pc' = [pc EXCEPT ![n] = v],
         UNCHANGED <<owner, mailbox, todo, wait>>
  PROVE  Core'
  <1>1. CoreType'
    BY DEF Core, CoreType
  <1>2. pc'[n] = v /\ \A m \in Servers : m # n => pc'[m] = pc[m]
    BY DEF Core, CoreType
  <1>3. \A d \in Conns, m \in Servers, what \in {"reply", "ack"} :
            WaitsFor(d, what, m)' <=> WaitsFor(d, what, m)
    BY DEF WaitsFor, Target
  <1>4. Busy' /\ Single'
    BY DEF Core, Served, Busy, Single
  <1>5. Expected'
    BY DEF Core, Served, Expected, WaitsFor, Target
  <1>6. Heard'
    <2> SUFFICES ASSUME NEW d \in Conns, NEW m \in Servers, WaitsFor(d, "reply", m)
                 PROVE  /\ pc'[m] # "down"
                        /\ pc'[m] = "hung" \/ \E i \in DOMAIN mailbox[m] : mailbox[m][i].from = d
      BY <1>3 DEF Heard
    <2> QED
      BY <1>2 DEF Core, Served, Heard
  <1>7. Owned'
    <2> SUFFICES ASSUME NEW d \in Conns, NEW m \in Servers, WaitsFor(d, "ack", m)
                 PROVE  owner[m] = d /\ pc'[m] \in {"mnesia", "table", "hung"}
      BY <1>3 DEF Owned
    <2> QED
      BY <1>2 DEF Core, Served, Owned
  <1>8. Working'
    BY <1>2 DEF Core, Served, Working
  <1> QED
    BY <1>1, <1>4, <1>5, <1>6, <1>7, <1>8 DEF Core, Served

(* A spawned process takes the name. *)
LEMMA RegisterCore ==
  ASSUME Core, NEW c \in Conns, NEW n \in Servers, WaitsFor(c, "spawn", n),
         pc[n] = "down", owner \in [Servers -> Conns \cup {NoConn}],
         pc' = [pc EXCEPT ![n] = "mnesia"],
         owner' = [owner EXCEPT ![n] = c],
         wait' = [wait EXCEPT ![c] = "ack"],
         UNCHANGED <<mailbox, todo>>
  PROVE  Core'
  <1>1. CoreType'
    BY DEF Core, CoreType
  <1>2. /\ pc'[n] = "mnesia" /\ \A m \in Servers : m # n => pc'[m] = pc[m]
        /\ owner'[n] = c /\ \A m \in Servers : m # n => owner'[m] = owner[m]
        /\ wait'[c] = "ack" /\ \A d \in Conns : d # c => wait'[d] = wait[d]
        /\ wait[c] = "spawn" /\ Head(todo[c]).server = n
    BY DEF Core, CoreType, WaitsFor, Target
  <1>3. Busy'
    BY <1>2 DEF Core, Served, Busy
  <1>4. Expected'
    <2> SUFFICES ASSUME NEW m \in Servers, NEW i \in DOMAIN mailbox[m],
                        mailbox[m][i].from \in Conns
                 PROVE  WaitsFor(mailbox[m][i].from, "reply", m)'
      BY DEF Expected
    <2>1. WaitsFor(mailbox[m][i].from, "reply", m)
      BY DEF Core, Served, Expected
    <2>2. mailbox[m][i].from # c
      BY <1>2, <2>1 DEF WaitsFor
    <2> QED
      BY <1>2, <2>1, <2>2 DEF WaitsFor, Target
  <1>5. Single' /\ Working'
    BY <1>2 DEF Core, Served, Single, Working
  <1>6. Heard'
    <2> SUFFICES ASSUME NEW d \in Conns, NEW m \in Servers, WaitsFor(d, "reply", m)'
                 PROVE  /\ pc'[m] # "down"
                        /\ pc'[m] = "hung" \/ \E i \in DOMAIN mailbox[m] : mailbox[m][i].from = d
      BY DEF Heard
    <2>1. WaitsFor(d, "reply", m)
      BY <1>2 DEF WaitsFor, Target
    <2>2. m # n
      BY <2>1 DEF Core, Served, Heard
    <2> QED
      BY <1>2, <2>1, <2>2 DEF Core, Served, Heard
  <1>7. Owned'
    <2> SUFFICES ASSUME NEW d \in Conns, NEW m \in Servers, WaitsFor(d, "ack", m)'
                 PROVE  owner'[m] = d /\ pc'[m] \in {"mnesia", "table", "hung"}
      BY DEF Owned
    <2>1. CASE d = c
      BY <1>2, <2>1 DEF WaitsFor, Target
    <2>2. CASE d # c
      <3>1. WaitsFor(d, "ack", m)
        BY <1>2, <2>2 DEF WaitsFor, Target
      <3>2. m # n
        BY <3>1 DEF Core, Served, Owned
      <3> QED
        BY <1>2, <3>1, <3>2 DEF Core, Served, Owned
    <2> QED
      BY <2>1, <2>2
  <1> QED
    BY <1>1, <1>3, <1>4, <1>5, <1>6, <1>7 DEF Core, Served

(* The end of an init lets its starter go on. *)
LEMMA InitTableCore ==
  ASSUME Core, NEW n \in Servers, InitTable(n)
  PROVE  Core'
  <1>1. /\ pc[n] = "table"
        /\ pc' = [pc EXCEPT ![n] = "idle"]
        /\ todo' = [c \in Conns |-> IF WaitsFor(c, "ack", n) THEN Tail(todo[c]) ELSE todo[c]]
        /\ wait' = [c \in Conns |-> IF WaitsFor(c, "ack", n) THEN "none" ELSE wait[c]]
        /\ owner' = owner /\ mailbox' = mailbox
    BY DEF InitTable
  <1>2. pc'[n] = "idle" /\ \A m \in Servers : m # n => pc'[m] = pc[m]
    BY <1>1 DEF Core, CoreType
  <1>3. ASSUME NEW c \in Conns
        PROVE  /\ todo'[c] \in Seq(Calls)
               /\ WaitsFor(c, "ack", n) => wait'[c] = "none"
               /\ ~WaitsFor(c, "ack", n) => todo'[c] = todo[c] /\ wait'[c] = wait[c]
    <2>1. todo[c] \in Seq(Calls)
      BY DEF Core, CoreType
    <2>2. CASE WaitsFor(c, "ack", n)
      <3>1. todo[c] # << >>
        BY <2>2 DEF Core, Served, Busy, WaitsFor
      <3>2. Tail(todo[c]) \in Seq(Calls)
        BY <2>1, <3>1, TailFacts
      <3> QED
        BY <1>1, <2>2, <3>2
    <2>3. CASE ~WaitsFor(c, "ack", n)
      BY <1>1, <2>1, <2>3
    <2> QED
      BY <2>2, <2>3
  <1>4. CoreType'
    <2>1. todo' \in [Conns -> Seq(Calls)]
      BY <1>1, <1>3
    <2>2. wait' \in [Conns -> {"none", "spawn", "ack", "reply"}]
      BY <1>1 DEF Core, CoreType
    <2> QED
      BY <1>1, <2>1, <2>2 DEF Core, CoreType
  <1>5. Busy'
    BY <1>3 DEF Core, Served, Busy
  <1>6. Expected'
    <2> SUFFICES ASSUME NEW m \in Servers, NEW i \in DOMAIN mailbox[m],
                        mailbox[m][i].from \in Conns
                 PROVE  WaitsFor(mailbox[m][i].from, "reply", m)'
      BY <1>1 DEF Expected
    <2>1. WaitsFor(mailbox[m][i].from, "reply", m)
      BY DEF Core, Served, Expected
    <2>2. ~WaitsFor(mailbox[m][i].from, "ack", n)
      BY <2>1 DEF WaitsFor
    <2> QED
      BY <1>1, <1>3, <2>1, <2>2 DEF WaitsFor, Target
  <1>7. Single' /\ Working'
    BY <1>1, <1>2 DEF Core, Served, Single, Working
  <1>8. ASSUME NEW d \in Conns, NEW m \in Servers, NEW what \in {"reply", "ack"},
               WaitsFor(d, what, m)'
        PROVE  WaitsFor(d, what, m) /\ ~WaitsFor(d, "ack", n)
    BY <1>3, <1>8 DEF WaitsFor, Target
  <1>9. Heard'
    <2> SUFFICES ASSUME NEW d \in Conns, NEW m \in Servers, WaitsFor(d, "reply", m)'
                 PROVE  /\ pc'[m] # "down"
                        /\ pc'[m] = "hung" \/ \E i \in DOMAIN mailbox[m] : mailbox[m][i].from = d
      BY <1>1 DEF Heard
    <2>1. WaitsFor(d, "reply", m)
      BY <1>8
    <2> QED
      BY <1>1, <1>2, <2>1 DEF Core, Served, Heard
  <1>10. Owned'
    <2> SUFFICES ASSUME NEW d \in Conns, NEW m \in Servers, WaitsFor(d, "ack", m)'
                 PROVE  owner[m] = d /\ pc'[m] \in {"mnesia", "table", "hung"}
      BY <1>1 DEF Owned
    <2>1. WaitsFor(d, "ack", m) /\ m # n
      BY <1>8
    <2> QED
      BY <1>2, <2>1 DEF Core, Served, Owned
  <1> QED
    BY <1>4, <1>5, <1>6, <1>7, <1>9, <1>10 DEF Core, Served

(* What appending a message does. *)
LEMMA AppendFacts ==
  ASSUME NEW s \in Seq(Messages), NEW msg \in Messages
  PROVE  /\ Append(s, msg) \in Seq(Messages)
         /\ Len(s) \in Nat
         /\ DOMAIN s = 1..Len(s)
         /\ DOMAIN Append(s, msg) = DOMAIN s \cup {Len(s) + 1}
         /\ Len(s) + 1 \notin DOMAIN s
         /\ Append(s, msg)[Len(s) + 1] = msg
         /\ \A i \in DOMAIN s : Append(s, msg)[i] = s[i]
         /\ Append(s, msg) # << >>
  <1>1. /\ Append(s, msg) \in Seq(Messages)
        /\ Append(s, msg) # << >>
        /\ Len(Append(s, msg)) = Len(s) + 1
        /\ \A i \in 1..Len(s) : Append(s, msg)[i] = s[i]
        /\ Append(s, msg)[Len(s) + 1] = msg
    BY AppendProperties
  <1>2. Len(s) \in Nat /\ DOMAIN s = 1..Len(s)
    OBVIOUS
  <1>3. DOMAIN Append(s, msg) = 1..(Len(s) + 1)
    BY <1>1, <1>2
  <1>4. 1..(Len(s) + 1) = 1..Len(s) \cup {Len(s) + 1}
    BY <1>2
  <1> QED
    BY <1>1, <1>2, <1>3, <1>4

(* A page sends its call to a server that is up. *)
LEMMA SendCore ==
  ASSUME Core, NEW c \in Conns, NEW n \in Servers, NEW op \in Ops,
         wait[c] = "none", todo[c] # << >>, Target(c) = n, pc[n] # "down",
         mailbox' = [mailbox EXCEPT ![n] =
                        IF pc[n] = "hung" THEN @ ELSE Append(@, [from |-> c, op |-> op])],
         wait' = [wait EXCEPT ![c] = "reply"],
         UNCHANGED <<pc, owner, todo>>
  PROVE  Core'
  <1> DEFINE msg == [from |-> c, op |-> op]
             k == Len(mailbox[n]) + 1
  <1>0. mailbox[n] \in Seq(Messages) /\ msg \in Messages
    BY DEF Core, CoreType, Messages
  <1>1. /\ wait'[c] = "reply" /\ \A d \in Conns : d # c => wait'[d] = wait[d]
        /\ \A m \in Servers : m # n => mailbox'[m] = mailbox[m]
        /\ mailbox'[n] = IF pc[n] = "hung" THEN mailbox[n] ELSE Append(mailbox[n], msg)
    BY DEF Core, CoreType
  <1>2. msg.from = c
    OBVIOUS
  <1> HIDE DEF msg
  <1>3. /\ mailbox'[n] \in Seq(Messages)
        /\ DOMAIN mailbox[n] \subseteq DOMAIN mailbox'[n]
        /\ k \notin DOMAIN mailbox[n]
        /\ \A i \in DOMAIN mailbox[n] : mailbox'[n][i] = mailbox[n][i]
        /\ \A i \in DOMAIN mailbox'[n] : i \in DOMAIN mailbox[n] \/ (i = k /\ mailbox'[n][i] = msg)
        /\ pc[n] # "hung" => k \in DOMAIN mailbox'[n] /\ mailbox'[n][k] = msg
        /\ mailbox[n] # << >> => mailbox'[n] # << >>
    <2> DEFINE longer == Append(mailbox[n], msg)
    <2>1. /\ longer \in Seq(Messages)
          /\ DOMAIN longer = DOMAIN mailbox[n] \cup {k}
          /\ k \notin DOMAIN mailbox[n]
          /\ longer[k] = msg
          /\ \A i \in DOMAIN mailbox[n] : longer[i] = mailbox[n][i]
          /\ longer # << >>
      BY <1>0, AppendFacts
    <2>2. mailbox'[n] = IF pc[n] = "hung" THEN mailbox[n] ELSE longer
      BY <1>1
    <2> HIDE DEF k, longer
    <2>3. CASE pc[n] = "hung"
      <3>1. mailbox'[n] = mailbox[n]
        BY <2>2, <2>3
      <3> QED
        BY <1>0, <2>1, <2>3, <3>1
    <2>4. CASE pc[n] # "hung"
      <3>1. mailbox'[n] = longer
        BY <2>2, <2>4
      <3> QED
        BY <2>1, <3>1
    <2> QED
      BY <2>3, <2>4
  <1> HIDE DEF k
  <1>4. \A m \in Servers : \A i \in DOMAIN mailbox[m] : mailbox[m][i].from # c
    BY DEF Core, Served, Expected, WaitsFor
  <1>5. CoreType'
    <2>1. mailbox' \in [Servers -> Seq(Messages)]
      BY <1>3 DEF Core, CoreType
    <2> QED
      BY <2>1 DEF Core, CoreType
  <1>6. Busy'
    BY <1>1 DEF Core, Served, Busy
  <1>7. Expected'
    <2> SUFFICES ASSUME NEW m \in Servers, NEW i \in DOMAIN mailbox'[m],
                        mailbox'[m][i].from \in Conns
                 PROVE  WaitsFor(mailbox[m][i].from, "reply", m)'
      BY DEF Expected
    <2>1. CASE i \in DOMAIN mailbox[m]
      <3>1. mailbox'[m][i] = mailbox[m][i]
        BY <1>1, <1>3, <2>1
      <3>2. WaitsFor(mailbox[m][i].from, "reply", m)
        BY <2>1, <3>1 DEF Core, Served, Expected
      <3> QED
        BY <1>1, <1>4, <2>1, <3>1, <3>2 DEF WaitsFor, Target
    <2>2. CASE i \notin DOMAIN mailbox[m]
      <3>1. m = n /\ mailbox'[m][i].from = c
        BY <1>1, <1>2, <1>3, <2>2
      <3> QED
        BY <1>1, <3>1 DEF WaitsFor, Target
    <2> QED
      BY <2>1, <2>2
  <1>8. Single'
    <2> SUFFICES ASSUME NEW m \in Servers, NEW i \in DOMAIN mailbox'[m],
                        NEW j \in DOMAIN mailbox'[m],
                        mailbox'[m][i].from \in Conns,
                        mailbox'[m][i].from = mailbox'[m][j].from
                 PROVE  i = j
      BY DEF Single
    <2>1. CASE m # n
      BY <1>1, <2>1 DEF Core, Served, Single
    <2>2. CASE m = n /\ i \in DOMAIN mailbox[n] /\ j \in DOMAIN mailbox[n]
      <3>1. mailbox'[n][i] = mailbox[n][i] /\ mailbox'[n][j] = mailbox[n][j]
        BY <1>3, <2>2
      <3> QED
        BY <2>2, <3>1 DEF Core, Served, Single
    <2>3. CASE m = n /\ (i \notin DOMAIN mailbox[n] \/ j \notin DOMAIN mailbox[n])
      BY <1>2, <1>3, <1>4, <2>3
    <2> QED
      BY <2>1, <2>2, <2>3
  <1>9. Heard'
    <2> SUFFICES ASSUME NEW d \in Conns, NEW m \in Servers, WaitsFor(d, "reply", m)'
                 PROVE  /\ pc[m] # "down"
                        /\ pc[m] = "hung" \/ \E i \in DOMAIN mailbox'[m] : mailbox'[m][i].from = d
      BY DEF Heard
    <2>1. CASE d = c
      <3>1. m = n
        BY <2>1 DEF WaitsFor, Target
      <3> QED
        BY <1>2, <1>3, <2>1, <3>1
    <2>2. CASE d # c
      <3>1. WaitsFor(d, "reply", m)
        BY <1>1, <2>2 DEF WaitsFor, Target
      <3> QED
        BY <1>1, <1>3, <3>1 DEF Core, Served, Heard
    <2> QED
      BY <2>1, <2>2
  <1>10. Owned'
    <2>1. \A d \in Conns, m \in Servers : WaitsFor(d, "ack", m)' => WaitsFor(d, "ack", m)
      BY <1>1 DEF WaitsFor, Target
    <2> QED
      BY <2>1 DEF Core, Served, Owned
  <1>11. Working'
    BY <1>1, <1>3 DEF Core, Served, Working
  <1> QED
    BY <1>5, <1>6, <1>7, <1>8, <1>9, <1>10, <1>11 DEF Core, Served

(* The operator's stop is a message nobody waits with. *)
LEMMA StopCore ==
  ASSUME Core, NEW n \in Servers, Stop(n)
  PROVE  Core'
  <1> DEFINE msg == [from |-> NoConn, op |-> "stop"]
             k == Len(mailbox[n]) + 1
  <1>0. mailbox[n] \in Seq(Messages) /\ msg \in Messages
    BY DEF Core, CoreType, Messages
  <1>1. /\ \A m \in Servers : m # n => mailbox'[m] = mailbox[m]
        /\ mailbox'[n] = Append(mailbox[n], msg)
        /\ mailbox' = [mailbox EXCEPT ![n] = Append(mailbox[n], msg)]
        /\ UNCHANGED <<pc, owner, todo, wait>>
    BY DEF Core, CoreType, Stop, connVars
  <1>2. msg.from \notin Conns
    BY NoConnAssumption
  <1> HIDE DEF msg
  <1>3. /\ mailbox'[n] \in Seq(Messages)
        /\ DOMAIN mailbox[n] \subseteq DOMAIN mailbox'[n]
        /\ \A i \in DOMAIN mailbox[n] : mailbox'[n][i] = mailbox[n][i]
        /\ \A i \in DOMAIN mailbox'[n] : i \in DOMAIN mailbox[n] \/ mailbox'[n][i] = msg
        /\ mailbox'[n] # << >>
    BY <1>0, <1>1, AppendFacts
  <1>4. CoreType'
    BY <1>1, <1>3 DEF Core, CoreType
  <1>5. \A d \in Conns, m \in Servers, what \in {"reply", "ack"} :
            WaitsFor(d, what, m)' <=> WaitsFor(d, what, m)
    BY <1>1 DEF WaitsFor, Target
  <1>6. Expected'
    <2> SUFFICES ASSUME NEW m \in Servers, NEW i \in DOMAIN mailbox'[m],
                        mailbox'[m][i].from \in Conns
                 PROVE  WaitsFor(mailbox[m][i].from, "reply", m)'
      BY DEF Expected
    <2>1. i \in DOMAIN mailbox[m] /\ mailbox'[m][i] = mailbox[m][i]
      BY <1>1, <1>2, <1>3
    <2>2. WaitsFor(mailbox[m][i].from, "reply", m)
      BY <2>1 DEF Core, Served, Expected
    <2> QED
      BY <1>1, <2>1, <2>2 DEF WaitsFor, Target
  <1>7. Single'
    <2> SUFFICES ASSUME NEW m \in Servers, NEW i \in DOMAIN mailbox'[m],
                        NEW j \in DOMAIN mailbox'[m],
                        mailbox'[m][i].from \in Conns,
                        mailbox'[m][i].from = mailbox'[m][j].from
                 PROVE  i = j
      BY DEF Single
    <2>1. /\ i \in DOMAIN mailbox[m] /\ mailbox'[m][i] = mailbox[m][i]
          /\ j \in DOMAIN mailbox[m] /\ mailbox'[m][j] = mailbox[m][j]
      BY <1>1, <1>2, <1>3
    <2> QED
      BY <2>1 DEF Core, Served, Single
  <1>8. Heard'
    <2> SUFFICES ASSUME NEW d \in Conns, NEW m \in Servers, WaitsFor(d, "reply", m)
                 PROVE  /\ pc[m] # "down"
                        /\ pc[m] = "hung" \/ \E i \in DOMAIN mailbox'[m] : mailbox'[m][i].from = d
      BY <1>1, <1>5 DEF Heard
    <2> QED
      BY <1>1, <1>3 DEF Core, Served, Heard
  <1>9. Busy' /\ Owned' /\ Working'
    BY <1>1, <1>3, <1>5 DEF Core, Served, Busy, Owned, Working
  <1> QED
    BY <1>4, <1>6, <1>7, <1>8, <1>9 DEF Core, Served

(* After a timeout nobody waits for the call that is still in the mailbox. *)
LEMMA TimeoutCore ==
  ASSUME Core, NEW c \in Conns, Timeout(c)
  PROVE  Core'
  <1> DEFINE n == Target(c)
             Orphan(msg) == IF msg.from = c THEN [msg EXCEPT !.from = NoConn] ELSE msg
  <1>0. /\ wait[c] = "reply" /\ todo[c] # << >>
        /\ todo[c] \in Seq(Calls)
    BY DEF Timeout, Core, CoreType, Served, Busy
  <1>1. n \in Servers
    <2>1. Head(todo[c]) \in Calls
      BY <1>0, TailFacts
    <2> QED
      BY <2>1 DEF Target, Calls
  <1>2. mailbox[n] \in Seq(Messages) /\ mailbox \in [Servers -> Seq(Messages)]
    BY <1>1 DEF Core, CoreType
  <1>3. /\ mailbox' = [mailbox EXCEPT ![n] = [i \in DOMAIN @ |-> Orphan(@[i])]]
        /\ todo' = [todo EXCEPT ![c] = << >>]
        /\ wait' = [wait EXCEPT ![c] = "none"]
        /\ UNCHANGED <<pc, owner>>
    BY DEF Timeout
  <1>4. /\ \A m \in Servers : m # n => mailbox'[m] = mailbox[m]
        /\ mailbox'[n] = [i \in DOMAIN mailbox[n] |-> Orphan(mailbox[n][i])]
        /\ todo'[c] = << >> /\ wait'[c] = "none"
        /\ \A d \in Conns : d # c => todo'[d] = todo[d] /\ wait'[d] = wait[d]
    BY <1>1, <1>2, <1>3 DEF Core, CoreType
  <1>5. ASSUME NEW msg \in Messages
        PROVE  /\ Orphan(msg) \in Messages
               /\ Orphan(msg).from # c
               /\ Orphan(msg).from \in Conns => Orphan(msg) = msg
               /\ msg.from # c => Orphan(msg) = msg
    BY NoConnAssumption DEF Messages
  <1>6. \A i \in DOMAIN mailbox[n] : mailbox[n][i] \in Messages
    BY <1>2
  <1> HIDE DEF n, Orphan
  <1>7. DOMAIN mailbox'[n] = DOMAIN mailbox[n] /\ mailbox'[n] \in Seq(Messages)
    <2>1. DOMAIN mailbox[n] = 1..Len(mailbox[n]) /\ Len(mailbox[n]) \in Nat
      BY <1>2
    <2>2. \A i \in 1..Len(mailbox[n]) : mailbox'[n][i] \in Messages
      BY <1>4, <1>5, <1>6, <2>1
    <2>3. mailbox'[n] = [i \in 1..Len(mailbox[n]) |-> mailbox'[n][i]]
      BY <1>4, <2>1
    <2>4. mailbox'[n] \in Seq(Messages)
      BY <2>1, <2>2, <2>3, IsASeq
    <2> QED
      BY <1>4, <2>4
  <1>8. CoreType'
    <2>1. mailbox' \in [Servers -> Seq(Messages)]
      BY <1>2, <1>3, <1>4, <1>7
    <2>2. << >> \in Seq(Calls)
      OBVIOUS
    <2>3. todo' \in [Conns -> Seq(Calls)]
      BY <1>3, <2>2 DEF Core, CoreType
    <2> QED
      BY <1>3, <2>1, <2>3 DEF Core, CoreType
  <1>9. \A m \in Servers : /\ DOMAIN mailbox'[m] = DOMAIN mailbox[m]
                           /\ \A i \in DOMAIN mailbox[m] :
                                /\ mailbox'[m][i].from \in Conns => mailbox'[m][i] = mailbox[m][i]
                                /\ mailbox[m][i].from # c => mailbox'[m][i] = mailbox[m][i]
    BY <1>4, <1>5, <1>6, <1>7
  <1>10. \A m \in Servers : \A i \in DOMAIN mailbox[m] : mailbox'[m][i].from # c
    <2> SUFFICES ASSUME NEW m \in Servers, NEW i \in DOMAIN mailbox[m]
                 PROVE  mailbox'[m][i].from # c
      OBVIOUS
    <2>1. CASE m = n
      BY <1>4, <1>5, <1>6, <2>1
    <2>2. CASE m # n
      BY <1>4, <2>2 DEF Core, Served, Expected, WaitsFor, n
    <2> QED
      BY <2>1, <2>2
  <1>11. Busy'
    BY <1>4 DEF Core, Served, Busy
  <1>12. Expected'
    <2> SUFFICES ASSUME NEW m \in Servers, NEW i \in DOMAIN mailbox'[m],
                        mailbox'[m][i].from \in Conns
                 PROVE  WaitsFor(mailbox[m][i].from, "reply", m)'
      BY DEF Expected
    <2>1. mailbox'[m][i] = mailbox[m][i] /\ i \in DOMAIN mailbox[m]
      BY <1>9
    <2>2. WaitsFor(mailbox[m][i].from, "reply", m)
      BY <2>1 DEF Core, Served, Expected
    <2>3. mailbox[m][i].from # c
      BY <1>10, <2>1
    <2> QED
      BY <1>4, <2>1, <2>2, <2>3 DEF WaitsFor, Target
  <1>13. Single'
    <2> SUFFICES ASSUME NEW m \in Servers, NEW i \in DOMAIN mailbox'[m],
                        NEW j \in DOMAIN mailbox'[m],
                        mailbox'[m][i].from \in Conns,
                        mailbox'[m][i].from = mailbox'[m][j].from
                 PROVE  i = j
      BY DEF Single
    <2>1. /\ i \in DOMAIN mailbox[m] /\ mailbox'[m][i] = mailbox[m][i]
          /\ j \in DOMAIN mailbox[m] /\ mailbox'[m][j] = mailbox[m][j]
      BY <1>9
    <2> QED
      BY <2>1 DEF Core, Served, Single
  <1>14. Heard'
    <2> SUFFICES ASSUME NEW d \in Conns, NEW m \in Servers, WaitsFor(d, "reply", m)'
                 PROVE  /\ pc[m] # "down"
                        /\ pc[m] = "hung" \/ \E i \in DOMAIN mailbox'[m] : mailbox'[m][i].from = d
      BY <1>3 DEF Heard
    <2>1. d # c /\ WaitsFor(d, "reply", m)
      BY <1>4 DEF WaitsFor, Target
    <2>2. CASE pc[m] # "hung"
      <3>1. PICK i \in DOMAIN mailbox[m] : mailbox[m][i].from = d
        BY <2>1, <2>2 DEF Core, Served, Heard
      <3>2. i \in DOMAIN mailbox'[m] /\ mailbox'[m][i].from = d
        BY <1>9, <2>1, <3>1
      <3> QED
        BY <2>1, <3>2 DEF Core, Served, Heard
    <2> QED
      BY <2>1, <2>2
  <1>15. Owned'
    <2>1. \A d \in Conns, m \in Servers : WaitsFor(d, "ack", m)' => WaitsFor(d, "ack", m)
      BY <1>4 DEF WaitsFor, Target
    <2> QED
      BY <1>3, <2>1 DEF Core, Served, Owned
  <1>16. Working'
    <2>1. \A m \in Servers : mailbox[m] # << >> => mailbox'[m] # << >>
      <3> SUFFICES ASSUME NEW m \in Servers, mailbox[m] # << >> PROVE mailbox'[m] # << >>
        OBVIOUS
      <3>1. 1 \in DOMAIN mailbox[m]
        <4>1. mailbox[m] \in Seq(Messages)
          BY <1>2
        <4> QED
          BY <4>1, TailFacts
      <3>2. 1 \in DOMAIN mailbox'[m]
        BY <1>9, <3>1
      <3> QED
        BY <3>2
    <2> QED
      BY <1>3, <2>1 DEF Core, Served, Working
  <1> QED
    BY <1>8, <1>11, <1>12, <1>13, <1>14, <1>15, <1>16 DEF Core, Served

(* A handler ends between requests: nobody waits in its name, and the      *)
(* servers that lose it as their owner are not in its start_link.          *)
LEMMA CloseCore ==
  ASSUME Core, NEW c \in Conns, NEW abnormal \in BOOLEAN, Idle(c), Close(c, abnormal)
  PROVE  Core'
  <1> DEFINE D == {n \in Servers : abnormal /\ owner[n] = c}
  <1>1. /\ ServersAfter(D, {})
        /\ owner' = [n \in Servers |-> IF owner[n] = c THEN NoConn ELSE owner[n]]
        /\ todo' = TodoAfter(D)
        /\ wait' = WaitAfter(D)
    BY DEF Close
  <1>2. wait[c] = "none"
    BY DEF Core, Served, Busy, Idle
  <1>3. \A d \in Conns, n \in Servers : WaitsFor(d, "ack", n) => owner[n] # c
    BY <1>2 DEF Core, Served, Owned, WaitsFor
  <1>4. \A d \in Conns, n \in Servers :
            n \notin D /\ WaitsFor(d, "ack", n) => owner'[n] = owner[n]
    BY <1>1, <1>3
  <1>5. D \in SUBSET Servers /\ {} \in SUBSET Servers
    OBVIOUS
  <1> HIDE DEF D
  <1> QED
    BY <1>1, <1>4, <1>5, DeathCore

(* The death of servers by their own crash or by a stop. *)
LEMMA DieCore ==
  ASSUME Core, NEW D \in SUBSET Servers, NEW C, NEW H \in SUBSET Servers,
         \A n \in H : n \notin D /\ pc[n] = "table",
         Die(D, C, H)
  PROVE  Core'
  <1>1. /\ ServersAfter(D, H)
        /\ owner' = [n \in Servers |-> IF n \in D THEN NoConn ELSE owner[n]]
        /\ todo' = TodoAfter(D)
        /\ wait' = WaitAfter(D)
    BY DEF Die
  <1>2. \A d \in Conns, n \in Servers :
            n \notin D /\ WaitsFor(d, "ack", n) => owner'[n] = owner[n]
    BY <1>1
  <1> QED
    BY <1>1, <1>2, DeathCore

(* The pages' own steps. *)
LEMMA PageCore ==
  ASSUME Core, RestType, NEW c \in Conns,
         \/ Request(c, Home)
         \/ \E call \in PageCalls : Request(c, <<call>>)
         \/ Start(c) \/ Register(c) \/ Send(c)
  PROVE  Core'
  <1>0. todo[c] \in Seq(Calls) /\ wait \in [Conns -> {"none", "spawn", "ack", "reply"}]
    BY DEF Core, CoreType
  <1>a. wait = [wait EXCEPT ![c] = wait[c]] /\ todo = [todo EXCEPT ![c] = todo[c]]
    BY DEF Core, CoreType
  <1>b. todo[c] # << >> => /\ Tail(todo[c]) \in Seq(Calls)
                           /\ Target(c) \in Servers
                           /\ Head(todo[c]).op \in Ops \cup {"start"}
    <2>1. todo[c] # << >> => Head(todo[c]) \in Calls /\ Tail(todo[c]) \in Seq(Calls)
      BY <1>0, TailFacts
    <2> QED
      BY <2>1 DEF Calls, Target
  <1>1. ASSUME NEW calls \in Seq(Calls), Request(c, calls) PROVE Core'
    <2>1. wait[c] = "none"
      BY <1>1 DEF Request, Idle, Core, Served, Busy
    <2>2. /\ todo' = [todo EXCEPT ![c] = calls]
          /\ wait' = [wait EXCEPT ![c] = "none"]
          /\ UNCHANGED <<pc, owner, mailbox>>
      BY <1>1, <1>a, <2>1 DEF Request, serverVars
    <2> QED
      BY <2>1, <2>2, QuietCore
  <1>2. CASE Start(c)
    <2>1. todo[c] # << >> /\ wait[c] = "none" /\ UNCHANGED <<pc, owner, mailbox>>
      BY <1>2 DEF Start, serverVars
    <2>2. CASE Registered(Target(c))
      <3>1. /\ todo' = [todo EXCEPT ![c] = Tail(todo[c])]
            /\ wait' = [wait EXCEPT ![c] = "none"]
        BY <1>2, <1>a, <2>1, <2>2 DEF Start
      <3>2. Tail(todo[c]) \in Seq(Calls)
        BY <1>b, <2>1
      <3> QED
        BY <2>1, <3>1, <3>2, QuietCore
    <2>3. CASE ~Registered(Target(c))
      <3>1. /\ todo' = [todo EXCEPT ![c] = todo[c]]
            /\ wait' = [wait EXCEPT ![c] = "spawn"]
        BY <1>2, <1>a, <2>3 DEF Start
      <3> QED
        BY <1>0, <2>1, <3>1, QuietCore
    <2> QED
      BY <2>2, <2>3
  <1>3. CASE Register(c)
    <2>1. wait[c] = "spawn" /\ todo[c] # << >> /\ UNCHANGED mailbox
      BY <1>3 DEF Register, Core, Served, Busy
    <2>2. CASE ~Registered(Target(c))
      <3>1. /\ pc' = [pc EXCEPT ![Target(c)] = "mnesia"]
            /\ owner' = [owner EXCEPT ![Target(c)] = c]
            /\ wait' = [wait EXCEPT ![c] = "ack"]
            /\ todo' = todo
        BY <1>3, <2>2 DEF Register
      <3>2. /\ WaitsFor(c, "spawn", Target(c))
            /\ pc[Target(c)] = "down"
            /\ Target(c) \in Servers
            /\ owner \in [Servers -> Conns \cup {NoConn}]
        BY <1>b, <2>1, <2>2 DEF WaitsFor, Registered, RestType
      <3> QED
        BY <2>1, <3>1, <3>2, RegisterCore
    <2>3. CASE Registered(Target(c))
      <3>1. /\ todo' = [todo EXCEPT ![c] = Tail(todo[c])]
            /\ wait' = [wait EXCEPT ![c] = "none"]
            /\ UNCHANGED <<pc, owner>>
        BY <1>3, <2>3 DEF Register
      <3>2. Tail(todo[c]) \in Seq(Calls)
        BY <1>b, <2>1
      <3> QED
        BY <2>1, <3>1, <3>2, QuietCore
    <2> QED
      BY <2>2, <2>3
  <1>4. CASE Send(c)
    <2>1. /\ todo[c] # << >> /\ wait[c] = "none" /\ Head(todo[c]).op # "start"
          /\ UNCHANGED <<pc, owner>>
      BY <1>4 DEF Send
    <2>2. CASE Registered(Target(c))
      <3>1. /\ mailbox' = [mailbox EXCEPT ![Target(c)] =
                              IF pc[Target(c)] = "hung" THEN @
                              ELSE Append(@, [from |-> c, op |-> Head(todo[c]).op])]
            /\ wait' = [wait EXCEPT ![c] = "reply"]
            /\ todo' = todo
        BY <1>4, <2>2 DEF Send
      <3>2. /\ Target(c) \in Servers
            /\ Head(todo[c]).op \in Ops
            /\ pc[Target(c)] # "down"
        BY <1>b, <2>1, <2>2 DEF Registered
      <3> QED
        BY <2>1, <3>1, <3>2, SendCore
    <2>3. CASE ~Registered(Target(c))
      <3>1. /\ todo' = [todo EXCEPT ![c] = << >>]
            /\ wait' = [wait EXCEPT ![c] = "none"]
            /\ UNCHANGED mailbox
        BY <1>4, <1>a, <2>1, <2>3 DEF Send
      <3>2. << >> \in Seq(Calls)
        OBVIOUS
      <3> QED
        BY <2>1, <3>1, <3>2, QuietCore
    <2> QED
      BY <2>2, <2>3
  <1> QED
    BY <1>1, <1>2, <1>3, <1>4, HomeType, PageType

(* The servers' steps. *)
LEMMA ServerCore ==
  ASSUME Core, NEW n \in Servers, ServerStep(n)
  PROVE  Core'
  <1>1. CASE InitMnesia(n)
    <2>1. /\ pc[n] = "mnesia" /\ pc' = [pc EXCEPT ![n] = "table"]
          /\ UNCHANGED <<owner, mailbox, todo, wait>>
      BY <1>1 DEF InitMnesia, connVars
    <2> QED
      BY <2>1, AdvanceCore
  <1>2. CASE InitTable(n)
    BY <1>2, InitTableCore
  <1>3. ASSUME NEW C, Die({n}, C, {}) PROVE Core'
    <2>1. {n} \in SUBSET Servers /\ {} \in SUBSET Servers
      OBVIOUS
    <2> QED
      BY <1>3, <2>1, DieCore
  <1>4. CASE CountKeys(n)
    <2>1. pc[n] = "idle" /\ mailbox[n] # << >>
      BY <1>4 DEF CountKeys, Handles
    <2>2. \/ Die({n}, {n}, {})
          \/ /\ pc' = [pc EXCEPT ![n] = "read"]
             /\ UNCHANGED <<owner, mailbox, todo, wait>>
      BY <1>4 DEF CountKeys
    <2> QED
      BY <1>3, <2>1, <2>2, AdvanceCore
  <1>5. CASE ReadKey(n)
    <2>1. pc[n] \in {"idle", "read"} /\ mailbox[n] # << >>
      BY <1>5 DEF ReadKey, Handles, Core, Served, Working
    <2>2. \/ Die({n}, {n}, {})
          \/ Reply(n)
          \/ /\ pc' = [pc EXCEPT ![n] = "write"]
             /\ UNCHANGED <<owner, mailbox, todo, wait>>
      BY <1>5 DEF ReadKey
    <2> QED
      BY <1>3, <2>1, <2>2, AdvanceCore, ReplyCore
  <1>6. CASE WriteRow(n) \/ RemoveRow(n)
    <2>1. pc[n] \in {"idle", "write"} /\ mailbox[n] # << >> /\ Reply(n)
      BY <1>6 DEF WriteRow, RemoveRow, Handles, Core, Served, Working
    <2> QED
      BY <2>1, ReplyCore
  <1>7. CASE Query(n)
    <2>1. pc[n] = "idle" /\ mailbox[n] # << >>
      BY <1>7 DEF Query, Handles
    <2>2. Reply(n) \/ Die({n}, {n}, {})
      BY <1>7 DEF Query
    <2> QED
      BY <1>3, <2>1, <2>2, ReplyCore
  <1>8. CASE HandleStop(n)
    <2>1. PICK K \in SUBSET {m \in Servers \ {n} : InTransaction(m)},
               H \in SUBSET {m \in Servers \ {n} : mnesia /\ pc[m] = "table"} :
                  Die(K \cup {n}, K, H)
      BY <1>8 DEF HandleStop
    <2>2. \A m \in K : pc[m] \in {"read", "write", "idle"}
      BY DEF InTransaction, Handles
    <2>3. K \cup {n} \in SUBSET Servers /\ H \in SUBSET Servers
      OBVIOUS
    <2>4. \A m \in H : m \notin K \cup {n} /\ pc[m] = "table"
      BY <2>2
    <2> QED
      BY <2>1, <2>3, <2>4, DieCore
  <1> QED
    BY <1>1, <1>2, <1>4, <1>5, <1>6, <1>7, <1>8 DEF ServerStep

(* Every step keeps the core. *)
LEMMA CoreStep ==
  ASSUME Core, RestType, [Next]_vars
  PROVE  Core'
  <1>1. ASSUME NEW c \in Conns,
               \/ Request(c, Home)
               \/ \E call \in PageCalls : Request(c, <<call>>)
               \/ ConnStep(c)
        PROVE  Core'
    BY <1>1, PageCore DEF ConnStep
  <1>2. ASSUME NEW c \in Conns, Timeout(c) PROVE Core'
    BY <1>2, TimeoutCore
  <1>3. ASSUME NEW c \in Conns, Closed(c) \/ TcpError(c) \/ HandleExit(c) PROVE Core'
    <2>1. Idle(c)
      BY <1>3 DEF Closed, TcpError, HandleExit
    <2>2. \E b \in BOOLEAN : Close(c, b)
      BY <1>3 DEF Closed, TcpError, HandleExit
    <2> QED
      BY <2>1, <2>2, CloseCore
  <1>4. ASSUME NEW n \in Servers, Stop(n) \/ ServerStep(n) PROVE Core'
    BY <1>4, StopCore, ServerCore
  <1>5. ASSUME UNCHANGED <<pc, owner, mailbox, todo, wait>> PROVE Core'
    BY <1>5 DEF Core, CoreType, Served, Busy, Expected, Single, Heard, Owned, Working,
                WaitsFor, Target
  <1>6. CASE \E c \in Conns : Accept(c)
    BY <1>5, <1>6 DEF Accept, serverVars
  <1>7. CASE UNCHANGED vars
    BY <1>5, <1>7 DEF vars
  <1> QED
    BY <1>1, <1>2, <1>3, <1>4, <1>6, <1>7 DEF Next

(* Every step keeps the rest of the types. *)
LEMMA RestStep ==
  ASSUME CoreType, Core, RestType, [Next]_vars
  PROVE  RestType'
  <1>0. \A D, C : ExitsAfter(D, C) \in [Conns -> {"none", "normal", "crash"}]
    BY DEF ExitsAfter, RestType
  <1>d. ASSUME NEW D, NEW C, NEW H, Die(D, C, H)
        PROVE  /\ owner' \in [Servers -> Conns \cup {NoConn}]
               /\ exits' \in [Conns -> {"none", "normal", "crash"}]
    BY <1>0, <1>d DEF Die, RestType
  <1>1. ASSUME NEW c \in Conns, Accept(c) PROVE RestType'
    BY <1>1 DEF Accept, RestType, serverVars, faultVars
  <1>2. ASSUME NEW c \in Conns, NEW calls, Request(c, calls) PROVE RestType'
    BY <1>2 DEF Request, RestType, serverVars, faultVars
  <1>3. ASSUME NEW c \in Conns, Start(c) PROVE RestType'
    BY <1>3 DEF Start, RestType, serverVars, faultVars
  <1>4. ASSUME NEW c \in Conns, Register(c) PROVE RestType'
    BY <1>4 DEF Register, RestType, faultVars
  <1>5. ASSUME NEW c \in Conns, Send(c) PROVE RestType'
    BY <1>5 DEF Send, RestType, faultVars
  <1>6. ASSUME NEW c \in Conns, Timeout(c) PROVE RestType'
    BY <1>6, FaultsAssumption DEF Timeout, RestType
  <1>7. ASSUME NEW c \in Conns, Closed(c) \/ TcpError(c) \/ HandleExit(c) PROVE RestType'
    <2>1. PICK b \in BOOLEAN : Close(c, b)
      BY <1>7 DEF Closed, TcpError, HandleExit
    <2>2. /\ owner' \in [Servers -> Conns \cup {NoConn}]
          /\ open' \in [Conns -> BOOLEAN]
          /\ exits' \in [Conns -> {"none", "normal", "crash"}]
          /\ UNCHANGED <<mnesia, tables>>
      BY <2>1 DEF Close, RestType
    <2>3. faults' \in 0..MaxFaults /\ stops' \in 0..MaxStops
      <3>1. faults \in 0..MaxFaults /\ stops \in 0..MaxStops
        BY DEF RestType
      <3>2. CASE UNCHANGED faultVars
        BY <3>1, <3>2 DEF faultVars
      <3>3. CASE TcpError(c)
        BY <3>1, <3>3, FaultsAssumption DEF TcpError
      <3> QED
        BY <1>7, <3>2, <3>3 DEF Closed, HandleExit
    <2> QED
      BY <2>2, <2>3 DEF RestType
  <1>8. ASSUME NEW n \in Servers, Stop(n) PROVE RestType'
    BY <1>8, FaultsAssumption DEF Stop, RestType, connVars
  <1>9. ASSUME NEW n \in Servers, InitMnesia(n) \/ InitTable(n) PROVE RestType'
    BY <1>9 DEF InitMnesia, InitTable, RestType, connVars, faultVars
  <1>10. ASSUME NEW n \in Servers, CountKeys(n) \/ ReadKey(n) \/ Query(n) PROVE RestType'
    <2>1. /\ owner' \in [Servers -> Conns \cup {NoConn}]
          /\ exits' \in [Conns -> {"none", "normal", "crash"}]
      BY <1>10, <1>d DEF CountKeys, ReadKey, Query, Reply, RestType
    <2>2. UNCHANGED <<mnesia, tables, open, faults, stops>>
      BY <1>10 DEF CountKeys, ReadKey, Query, faultVars
    <2> QED
      BY <2>1, <2>2 DEF RestType
  <1>11. ASSUME NEW n \in Servers, WriteRow(n) \/ RemoveRow(n) PROVE RestType'
    BY <1>11 DEF WriteRow, RemoveRow, Reply, RestType, faultVars
  <1>12. ASSUME NEW n \in Servers, HandleStop(n) PROVE RestType'
    <2>1. /\ owner' \in [Servers -> Conns \cup {NoConn}]
          /\ exits' \in [Conns -> {"none", "normal", "crash"}]
      BY <1>12, <1>d DEF HandleStop
    <2> QED
      BY <1>12, <2>1 DEF HandleStop, RestType, faultVars
  <1>13. CASE UNCHANGED vars
    BY <1>13 DEF vars, RestType
  <1> QED
    BY <1>1, <1>2, <1>3, <1>4, <1>5, <1>6, <1>7, <1>8, <1>9, <1>10, <1>11, <1>12, <1>13
       DEF Next, ConnStep, ServerStep
----------------------------------------------------------------------------
(***************************************************************************)
(* UpMeansTable is inductive once it is known that, before the first stop, *)
(* no stop is in any mailbox and a server about to create its table finds  *)
(* mnesia running.                                                         *)
(***************************************************************************)
NoStopSent ==
    stops = 0 => \A n \in Servers : \A i \in DOMAIN mailbox[n] : mailbox[n][i].op # "stop"

MnesiaFirst == stops = 0 => \A n \in Servers : pc[n] = "table" => mnesia

Ready == NoStopSent /\ MnesiaFirst /\ UpMeansTable

(* Only an operator's stop is counted as one. *)
LEMMA StopsStep ==
  ASSUME [Next]_vars
  PROVE  stops' = stops \/ \E n \in Servers : Stop(n)
  <1>1. ASSUME NEW c \in Conns, NEW calls,
               \/ Accept(c) \/ Request(c, calls) \/ ConnStep(c) \/ Timeout(c)
               \/ Closed(c) \/ TcpError(c) \/ HandleExit(c)
        PROVE  stops' = stops
    BY <1>1 DEF Accept, Request, ConnStep, Start, Register, Send, Timeout, Closed,
                TcpError, HandleExit, faultVars
  <1>2. ASSUME NEW n \in Servers, ServerStep(n) PROVE stops' = stops
    BY <1>2 DEF ServerStep, InitMnesia, InitTable, CountKeys, ReadKey, WriteRow, RemoveRow,
                Query, HandleStop, faultVars
  <1>3. CASE UNCHANGED vars
    BY <1>3 DEF vars
  <1> QED
    BY <1>1, <1>2, <1>3 DEF Next

(* Messages that are in a mailbox after a step, without a stop, were there *)
(* before or are the calls of pages.                                       *)
LEMMA NoStopStep ==
  ASSUME Core, RestType, NoStopSent, [Next]_vars, stops' = 0
  PROVE  stops = 0 /\ NoStopSent'
  <1>0. stops = 0
    <2>1. stops \in Nat
      BY DEF RestType
    <2>2. CASE \E n \in Servers : Stop(n)
      BY <2>1, <2>2 DEF Stop
    <2> QED
      BY <2>2, StopsStep
  <1>1. \A n \in Servers : \A i \in DOMAIN mailbox[n] : mailbox[n][i].op # "stop"
    BY <1>0 DEF NoStopSent
  <1> DEFINE Clean == \A n \in Servers : \A i \in DOMAIN mailbox'[n] : mailbox'[n][i].op # "stop"
  <1>2. ASSUME UNCHANGED mailbox PROVE Clean
    BY <1>1, <1>2
  <1>3. ASSUME \A n \in Servers : mailbox'[n] = mailbox[n] \/ mailbox'[n] = << >> PROVE Clean
    BY <1>1, <1>3
  <1>4. ASSUME NEW D, NEW H, ServersAfter(D, H) PROVE Clean
    BY <1>3, <1>4 DEF ServersAfter
  <1>5. ASSUME NEW n \in Servers, mailbox[n] # << >>, Reply(n) PROVE Clean
    <2>0. mailbox[n] \in Seq(Messages)
      BY DEF Core, CoreType
    <2>1. /\ \A m \in Servers : m # n => mailbox'[m] = mailbox[m]
          /\ mailbox'[n] = Tail(mailbox[n])
      BY <1>5 DEF Reply, Core, CoreType
    <2>2. /\ Len(mailbox[n]) \in Nat
          /\ DOMAIN mailbox[n] = 1..Len(mailbox[n])
          /\ DOMAIN Tail(mailbox[n]) = 1..(Len(mailbox[n]) - 1)
          /\ \A i \in 1..(Len(mailbox[n]) - 1) : Tail(mailbox[n])[i] = mailbox[n][i + 1]
      BY <1>5, <2>0, TailFacts
    <2>3. \A i \in DOMAIN mailbox'[n] : mailbox'[n][i].op # "stop"
      <3> SUFFICES ASSUME NEW i \in DOMAIN mailbox'[n] PROVE mailbox'[n][i].op # "stop"
        OBVIOUS
      <3>1. i + 1 \in DOMAIN mailbox[n] /\ mailbox'[n][i] = mailbox[n][i + 1]
        BY <2>1, <2>2
      <3> QED
        BY <1>1, <3>1
    <2> QED
      BY <1>1, <2>1, <2>3
  <1>6. ASSUME NEW c \in Conns, Send(c) PROVE Clean
    <2>1. todo[c] # << >> /\ todo[c] \in Seq(Calls)
      BY <1>6 DEF Send, Core, CoreType
    <2>2. Head(todo[c]) \in Calls
      BY <2>1, TailFacts
    <2>3. Target(c) \in Servers /\ Head(todo[c]).op # "stop"
          /\ [from |-> c, op |-> Head(todo[c]).op] \in Messages
      BY <1>6, <2>2 DEF Target, Calls, Messages, Ops, Send
    <2> DEFINE n == Target(c)
               msg == [from |-> c, op |-> Head(todo[c]).op]
               longer == Append(mailbox[n], msg)
    <2>4. msg.op # "stop"
      BY <2>3
    <2>5. /\ \A m \in Servers : m # n => mailbox'[m] = mailbox[m]
          /\ mailbox'[n] = mailbox[n] \/ mailbox'[n] = longer
      BY <1>6, <2>3 DEF Send, Core, CoreType
    <2>6. \A i \in DOMAIN longer : longer[i] = msg \/ (i \in DOMAIN mailbox[n] /\ longer[i] = mailbox[n][i])
      <3>1. mailbox[n] \in Seq(Messages)
        BY <2>3 DEF Core, CoreType
      <3> QED
        BY <2>3, <3>1, AppendFacts
    <2> HIDE DEF msg, longer
    <2>7. \A i \in DOMAIN mailbox'[n] : mailbox'[n][i].op # "stop"
      BY <1>1, <2>3, <2>4, <2>5, <2>6
    <2> QED
      BY <1>1, <2>5, <2>7
  <1>7. ASSUME NEW c \in Conns, Timeout(c) PROVE Clean
    <2>1. wait[c] = "reply" /\ todo[c] # << >> /\ todo[c] \in Seq(Calls)
      BY <1>7 DEF Timeout, Core, CoreType, Served, Busy
    <2>2. Head(todo[c]) \in Calls
      BY <2>1, TailFacts
    <2>3. Target(c) \in Servers
      BY <2>2 DEF Target, Calls
    <2> DEFINE n == Target(c)
               Orphan(msg) == IF msg.from = c THEN [msg EXCEPT !.from = NoConn] ELSE msg
    <2>4. /\ \A m \in Servers : m # n => mailbox'[m] = mailbox[m]
          /\ mailbox'[n] = [i \in DOMAIN mailbox[n] |-> Orphan(mailbox[n][i])]
      BY <1>7, <2>3 DEF Timeout, Core, CoreType
    <2>5. \A msg \in Messages : Orphan(msg).op = msg.op
      BY DEF Messages
    <2>6. \A i \in DOMAIN mailbox[n] : mailbox[n][i] \in Messages
      BY <2>3 DEF Core, CoreType
    <2> HIDE DEF n, Orphan
    <2>7. \A i \in DOMAIN mailbox'[n] : mailbox'[n][i].op # "stop"
      BY <1>1, <2>3, <2>4, <2>5, <2>6 DEF n
    <2> QED
      BY <1>1, <2>4, <2>7
  <1>8. ASSUME NEW c \in Conns, Closed(c) \/ TcpError(c) \/ HandleExit(c) PROVE Clean
    <2>1. \E b \in BOOLEAN : Close(c, b)
      BY <1>8 DEF Closed, TcpError, HandleExit
    <2> QED
      BY <1>4, <2>1 DEF Close
  <1>9. ASSUME NEW n \in Servers, ServerStep(n) PROVE Clean
    <2>1. CASE InitMnesia(n) \/ InitTable(n)
      BY <1>2, <2>1 DEF InitMnesia, InitTable
    <2>2. ASSUME NEW D, NEW C, NEW H, Die(D, C, H) PROVE Clean
      BY <1>4, <2>2 DEF Die
    <2>3. CASE CountKeys(n)
      BY <1>2, <2>2, <2>3 DEF CountKeys
    <2>4. CASE ReadKey(n)
      <3>1. mailbox[n] # << >>
        BY <2>4 DEF ReadKey, Handles, Core, Served, Working
      <3> QED
        BY <1>2, <1>5, <2>2, <2>4, <3>1 DEF ReadKey
    <2>5. CASE WriteRow(n) \/ RemoveRow(n)
      <3>1. mailbox[n] # << >> /\ Reply(n)
        BY <2>5 DEF WriteRow, RemoveRow, Handles, Core, Served, Working
      <3> QED
        BY <1>5, <3>1
    <2>6. CASE Query(n)
      BY <1>5, <2>2, <2>6 DEF Query, Handles
    <2>7. CASE HandleStop(n)
      BY <2>2, <2>7 DEF HandleStop
    <2> QED
      BY <1>9, <2>1, <2>3, <2>4, <2>5, <2>6, <2>7 DEF ServerStep
  <1>10. ~ \E n \in Servers : Stop(n)
    BY <1>0 DEF Stop
  <1>11. ASSUME NEW c \in Conns, NEW calls, Accept(c) \/ Request(c, calls) \/ Start(c) \/ Register(c)
         PROVE  Clean
    BY <1>2, <1>11 DEF Accept, Request, Start, Register, serverVars
  <1>12. ASSUME UNCHANGED vars PROVE Clean
    BY <1>2, <1>12 DEF vars
  <1>13. Clean
    BY <1>6, <1>7, <1>8, <1>9, <1>10, <1>11, <1>12 DEF Next, ConnStep
  <1> QED
    BY <1>0, <1>13 DEF NoStopSent

(* What a step, without a stop, does to one server: nothing, an advance    *)
(* within its calls, its init, or its death, and then it was killed by its *)
(* connection.                                                             *)
Killed(n) == owner[n] \in Conns /\ pc'[n] = "down"

(* The steps of the pages and connections move no server but by starting   *)
(* it or by killing it.                                                    *)
LEMMA ConnMoves ==
  ASSUME Core, RestType, NEW c \in Conns, NEW calls,
         \/ Accept(c) \/ Request(c, calls) \/ ConnStep(c) \/ Timeout(c)
         \/ Closed(c) \/ TcpError(c) \/ HandleExit(c)
  PROVE  /\ UNCHANGED <<mnesia, tables>>
         /\ \A n \in Servers :
              \/ pc'[n] = pc[n]
              \/ pc[n] = "down" /\ pc'[n] = "mnesia"
              \/ Killed(n)
  <1>1. CASE Accept(c) \/ Request(c, calls) \/ Start(c) \/ Send(c) \/ Timeout(c)
    BY <1>1 DEF Accept, Request, Start, Send, Timeout, serverVars
  <1>2. CASE Register(c)
    <2>1. \/ pc' = pc
          \/ pc[Target(c)] = "down" /\ pc' = [pc EXCEPT ![Target(c)] = "mnesia"]
      BY <1>2 DEF Register, Registered
    <2>2. UNCHANGED <<mnesia, tables>>
      BY <1>2 DEF Register
    <2> QED
      BY <2>1, <2>2 DEF Core, CoreType
  <1>3. CASE Closed(c) \/ TcpError(c) \/ HandleExit(c)
    <2>1. PICK b \in BOOLEAN : Close(c, b)
      BY <1>3 DEF Closed, TcpError, HandleExit
    <2>2. \A n \in Servers : pc'[n] = pc[n] \/ (owner[n] = c /\ pc'[n] = "down")
      BY <2>1 DEF Close, ServersAfter
    <2>3. UNCHANGED <<mnesia, tables>>
      BY <2>1 DEF Close
    <2> QED
      BY <2>2, <2>3 DEF Killed
  <1> QED
    BY <1>1, <1>2, <1>3 DEF ConnStep

(* A server's own step moves only that server, and never ends it.          *)
LEMMA ServerMoves ==
  ASSUME Core, RestType, Ready, stops = 0, NEW n \in Servers, ServerStep(n)
  PROVE  /\ mnesia => mnesia'
         /\ tables \subseteq tables'
         /\ \A m \in Servers : m # n => pc'[m] = pc[m]
         /\ \/ pc'[n] = "table" /\ mnesia'
            \/ pc'[n] = "idle" /\ pc[n] = "table" /\ mnesia' /\ n \in tables'
            \/ pc'[n] \in {"idle", "read", "write"} /\ pc[n] \in {"idle", "read", "write"}
  <1>0. pc \in [Servers -> {"down", "mnesia", "table", "idle", "read", "write", "hung"}]
    BY DEF Core, CoreType
  <1>1. CASE InitMnesia(n)
    BY <1>0, <1>1 DEF InitMnesia
  <1>2. CASE InitTable(n)
    <2>1. mnesia
      BY <1>2 DEF InitTable, Ready, MnesiaFirst
    <2> QED
      BY <1>0, <1>2, <2>1 DEF InitTable
  <1>3. pc[n] \in {"idle", "read", "write"} => n \in tables
    BY DEF Ready, UpMeansTable
  <1>4. CASE CountKeys(n) \/ ReadKey(n) \/ WriteRow(n) \/ RemoveRow(n) \/ Query(n)
    <2>1. pc[n] \in {"idle", "read", "write"}
      BY <1>4 DEF CountKeys, ReadKey, WriteRow, RemoveRow, Query, Handles
    <2>2. \/ Reply(n)
          \/ pc' = [pc EXCEPT ![n] = "read"]
          \/ pc' = [pc EXCEPT ![n] = "write"]
      BY <1>3, <1>4, <2>1 DEF CountKeys, ReadKey, WriteRow, RemoveRow, Query
    <2>3. \/ pc' = [pc EXCEPT ![n] = "idle"]
          \/ pc' = [pc EXCEPT ![n] = "read"]
          \/ pc' = [pc EXCEPT ![n] = "write"]
      BY <2>2 DEF Reply
    <2>4. UNCHANGED <<mnesia, tables>>
      BY <1>4 DEF CountKeys, ReadKey, WriteRow, RemoveRow, Query
    <2> QED
      BY <1>0, <2>1, <2>3, <2>4
  <1>5. ~HandleStop(n)
    <2>1. mailbox[n] \in Seq(Messages)
      BY DEF Core, CoreType
    <2>2. mailbox[n] # << >> => Head(mailbox[n]) = mailbox[n][1] /\ 1 \in DOMAIN mailbox[n]
      BY <2>1, TailFacts
    <2>3. \A i \in DOMAIN mailbox[n] : mailbox[n][i].op # "stop"
      BY DEF Ready, NoStopSent
    <2> QED
      BY <2>2, <2>3 DEF HandleStop, Handles
  <1> QED
    BY <1>1, <1>2, <1>4, <1>5 DEF ServerStep

(* So before the first stop a server that was up is up, or its connection  *)
(* killed it; mnesia keeps running and no table is lost.                   *)
LEMMA Moves ==
  ASSUME Core, RestType, Ready, [Next]_vars, stops' = 0
  PROVE  /\ mnesia => mnesia'
         /\ tables \subseteq tables'
         /\ \A n \in Servers :
              \/ pc'[n] = pc[n]
              \/ pc[n] = "down" /\ pc'[n] = "mnesia"
              \/ Killed(n)
              \/ pc'[n] = "table" /\ mnesia'
              \/ pc'[n] = "idle" /\ mnesia' /\ n \in tables'
              \/ pc'[n] \in {"idle", "read", "write"} /\ pc[n] \in {"idle", "read", "write"}
  <1>0. stops = 0
    BY NoStopStep DEF Ready
  <1>1. CASE UNCHANGED vars
    BY <1>1 DEF vars
  <1>2. CASE \E n \in Servers : Stop(n)
    <2>1. UNCHANGED <<mnesia, tables, pc>>
      BY <1>2 DEF Stop
    <2> QED
      BY <2>1
  <1>3. CASE \E n \in Servers : ServerStep(n)
    BY <1>0, <1>3, ServerMoves
  <1>4. ASSUME NEW c \in Conns, NEW calls,
               \/ Accept(c) \/ Request(c, calls) \/ ConnStep(c) \/ Timeout(c)
               \/ Closed(c) \/ TcpError(c) \/ HandleExit(c)
        PROVE  /\ UNCHANGED <<mnesia, tables>>
               /\ \A n \in Servers :
                    \/ pc'[n] = pc[n]
                    \/ pc[n] = "down" /\ pc'[n] = "mnesia"
                    \/ Killed(n)
    BY <1>4, ConnMoves
  <1> QED
    BY <1>1, <1>2, <1>3, <1>4 DEF Next

(* Every step keeps the facts about the time before the first stop. *)
LEMMA ReadyStep ==
  ASSUME Core, RestType, Ready, [Next]_vars
  PROVE  Ready'
  <1>1. CASE stops' # 0
    BY <1>1 DEF Ready, NoStopSent, MnesiaFirst, UpMeansTable
  <1>2. CASE stops' = 0
    <2>1. stops = 0 /\ NoStopSent'
      BY <1>2, NoStopStep DEF Ready
    <2>2. MnesiaFirst'
      BY <1>2, <2>1, Moves DEF Ready, MnesiaFirst, Killed
    <2>3. UpMeansTable'
      BY <1>2, <2>1, Moves DEF Ready, UpMeansTable, Killed
    <2> QED
      BY <2>1, <2>2, <2>3 DEF Ready
  <1> QED
    BY <1>1, <1>2

(* The initial state has all of it. *)
LEMMA InitFacts == Init => Core /\ RestType /\ Ready
  <1> SUFFICES ASSUME Init PROVE Core /\ RestType /\ Ready
    OBVIOUS
  <1>1. CoreType
    BY DEF Init, CoreType
  <1>2. RestType
    <2>1. faults \in 0..MaxFaults /\ stops \in 0..MaxStops
      BY FaultsAssumption DEF Init
    <2>2. mnesia \in BOOLEAN
      BY DEF Init
    <2>3. open \in [Conns -> BOOLEAN]
      BY Zenon DEF Init
    <2>4. /\ tables \subseteq Servers
          /\ owner \in [Servers -> Conns \cup {NoConn}]
          /\ exits \in [Conns -> {"none", "normal", "crash"}]
      BY DEF Init
    <2> QED
      BY <2>1, <2>2, <2>3, <2>4 DEF RestType
  <1>3. Served
    BY DEF Init, Served, Busy, Expected, Single, Heard, Owned, Working, WaitsFor
  <1>4. Ready
    BY DEF Init, Ready, NoStopSent, MnesiaFirst, UpMeansTable
  <1> QED
    BY <1>1, <1>2, <1>3, <1>4 DEF Core
----------------------------------------------------------------------------
Inv == Core /\ RestType /\ Ready

(* The conjunction is inductive, hence an invariant. *)
THEOREM Invariance == Spec => []Inv
  <1>1. Init => Inv
    BY InitFacts DEF Inv
  <1>2. Inv /\ [Next]_vars => Inv'
    BY CoreStep, RestStep, ReadyStep DEF Inv, Core
  <1> QED
    BY <1>1, <1>2, PTL DEF Spec

(* The states of the servers, the mailboxes and the connections keep their *)
(* types: in particular no page makes a call of a server that is not       *)
(* modelled and no counter passes its bound.                               *)
THEOREM TypeCorrect == Spec => []TypeOK
  <1>1. Inv => TypeOK
    BY TypeParts DEF Inv, Core
  <1> QED
    BY <1>1, Invariance, PTL

(* Nobody waits in vain: whoever waits in gen_server:call or start_link    *)
(* waits for a process that is up and has the call, whatever connections   *)
(* and servers died or timed out before.                                   *)
THEOREM Waits == Spec => []WaitsAreServed
  <1>1. Inv => WaitsAreServed
    BY TypeParts, ServedImplies DEF Inv, Core
  <1> QED
    BY <1>1, Invariance, PTL

(* Before the first stop a server that has finished its init has its table. *)
THEOREM UpTables == Spec => []UpMeansTable
  <1>1. Inv => UpMeansTable
    BY DEF Inv, Ready
  <1> QED
    BY <1>1, Invariance, PTL

(* Before the first stop a server without a connection never ends: only    *)
(* its link could take it down.                                            *)
THEOREM Orphans == Spec => OrphansStayUp
  <1> DEFINE Stays == \A n \in Servers :
                 stops' = 0 /\ Registered(n) /\ owner[n] = NoConn => Registered(n)'
  <1>1. Inv /\ [Next]_vars => [Stays]_vars
    <2> SUFFICES ASSUME Inv, [Next]_vars, NEW n \in Servers,
                        stops' = 0, Registered(n), owner[n] = NoConn
                 PROVE  Registered(n)'
      OBVIOUS
    <2> QED
      BY Moves, NoConnAssumption DEF Inv, Registered, Killed
  <1>2. [][Stays]_vars => OrphansStayUp
    BY PTL DEF OrphansStayUp
  <1> QED
    BY <1>1, <1>2, Invariance, PTL DEF Spec
----------------------------------------------------------------------------
(***************************************************************************)
(* GoesThrough.  Before the first fault nobody is told of a crash and no   *)
(* server hangs (Calm), so no server ends.  A page calls a server only     *)
(* right after it started it, unless the call is all it does (Chained), so *)
(* that a call with others before or after it finds its server (Begun).    *)
(***************************************************************************)
Calm ==
    faults = 0 => /\ stops = 0
                  /\ \A c \in Conns : exits[c] # "crash"
                  /\ \A n \in Servers : pc[n] # "hung"

Ordered(page) ==
    \A i \in 2..Len(page) :
        page[i].op # "start" => page[i - 1].op = "start" /\ page[i - 1].server = page[i].server

Chained == faults = 0 => \A c \in Conns : Ordered(todo[c])

Begun ==
    faults = 0 => \A c \in Conns :
        Len(todo[c]) > 1 /\ Head(todo[c]).op # "start" => Registered(Target(c))

(* Two ordered pages, the second of which begins with a start or with the  *)
(* server the first one ends with, make an ordered page.                   *)
LEMMA OrderedConcat ==
  ASSUME NEW s \in Seq(Calls), NEW t \in Seq(Calls), Ordered(s), Ordered(t),
         t # << >> /\ t[1].op # "start" =>
             s # << >> /\ s[Len(s)].op = "start" /\ s[Len(s)].server = t[1].server
  PROVE  s \o t \in Seq(Calls) /\ Ordered(s \o t)
  <1> DEFINE u == s \o t
  <1>1. /\ u \in Seq(Calls)
        /\ Len(u) = Len(s) + Len(t)
        /\ Len(s) \in Nat /\ Len(t) \in Nat
        /\ \A i \in 1..Len(s) : u[i] = s[i]
        /\ \A i \in 1..Len(t) : u[Len(s) + i] = t[i]
    BY ConcatProperties
  <1>2. /\ s # << >> => Len(s) > 0
        /\ Len(t) > 0 => t # << >>
    BY EmptySeq
  <1> HIDE DEF u
  <1> SUFFICES ASSUME NEW i \in 2..Len(u), u[i].op # "start"
               PROVE  u[i - 1].op = "start" /\ u[i - 1].server = u[i].server
    BY <1>1 DEF Ordered, u
  <1>3. CASE i <= Len(s)
    <2>1. i \in 2..Len(s) /\ i \in 1..Len(s) /\ i - 1 \in 1..Len(s)
      BY <1>1, <1>3
    <2>2. u[i] = s[i] /\ u[i - 1] = s[i - 1]
      BY <1>1, <2>1
    <2> QED
      BY <2>1, <2>2 DEF Ordered
  <1>4. CASE i = Len(s) + 1
    <2>1. u[i] = t[1] /\ t # << >>
      BY <1>1, <1>2, <1>4
    <2>2. u[i - 1] = s[Len(s)]
      BY <1>1, <1>2, <1>4, <2>1
    <2> QED
      BY <2>1, <2>2
  <1>5. CASE i > Len(s) + 1
    <2> DEFINE k == i - Len(s)
               j == k - 1
    <2>1. k \in 2..Len(t) /\ k \in 1..Len(t) /\ j \in 1..Len(t)
      BY <1>1, <1>5
    <2>2. i = Len(s) + k /\ i - 1 = Len(s) + j
      BY <1>1
    <2> HIDE DEF k, j
    <2>3. u[Len(s) + k] = t[k] /\ u[Len(s) + j] = t[j]
      BY <1>1, <2>1
    <2>4. u[i] = t[k] /\ u[i - 1] = t[k - 1]
      BY <2>2, <2>3 DEF j
    <2> QED
      BY <2>1, <2>4 DEF Ordered
  <1> QED
    BY <1>1, <1>3, <1>4, <1>5

(* The front page starts each server before it calls it. *)
LEMMA HomeOrdered == Ordered(Home) /\ (Home # << >> => Home[1].op = "start")
  <1> DEFINE Part(i) == IF IndexBody[i].server \in Servers THEN <<IndexBody[i]>> ELSE << >>
             Begins(q) == q \in Seq(Calls) /\ Ordered(q) /\ (q # << >> => q[1].op = "start")
  <1>1. /\ IndexBody[1].op = "start" /\ IndexBody[2].op = "start"
        /\ IndexBody[4].op = "start" /\ IndexBody[5].op = "start"
        /\ IndexBody[2].server = IndexBody[3].server
    BY DEF IndexBody, Call
  <1>2. ASSUME NEW i \in 1..5 PROVE Part(i) \in Seq(Calls) /\ Ordered(Part(i))
    <2>1. IndexBody[i].server \in Servers => IndexBody[i] \in Calls
      BY DEF IndexBody, Call, Calls, Ops
    <2>2. CASE IndexBody[i].server \in Servers
      <3>1. Part(i) = <<IndexBody[i]>> /\ Len(Part(i)) = 1
        BY <2>2
      <3> QED
        BY <2>1, <2>2, <3>1 DEF Ordered
    <2>3. CASE IndexBody[i].server \notin Servers
      <3>1. Part(i) = << >> /\ Len(Part(i)) = 0
        BY <2>3
      <3> QED
        BY <3>1 DEF Ordered
    <2> QED
      BY <2>2, <2>3
  <1>3. \A i \in 1..5 : Part(i) # << >> => Part(i)[1] = IndexBody[i]
    OBVIOUS
  <1>4. /\ Part(3) # << >> => Part(2) = <<IndexBody[2]>>
        /\ Part(3) = << >> => Part(2) = << >>
    BY <1>1
  <1>5. Home = Part(1) \o Part(2) \o Part(3) \o Part(4) \o Part(5)
    BY DEF Home
  <1> HIDE DEF Part
  <1>6. ASSUME NEW q, Begins(q), NEW i \in 1..5, IndexBody[i].op = "start"
        PROVE  Begins(q \o Part(i))
    <2>1. q \in Seq(Calls) /\ Part(i) \in Seq(Calls) /\ Ordered(q) /\ Ordered(Part(i))
      BY <1>2, <1>6
    <2>2. Part(i) # << >> => Part(i)[1].op = "start"
      BY <1>3, <1>6
    <2>3. q \o Part(i) \in Seq(Calls) /\ Ordered(q \o Part(i))
      BY <2>1, <2>2, OrderedConcat
    <2>4. q \o Part(i) # << >> => (q \o Part(i))[1].op = "start"
      <3>1. CASE q = << >>
        BY <2>1, <2>2, <3>1
      <3>2. CASE q # << >>
        BY <1>6, <2>1, <3>2
      <3> QED
        BY <3>1, <3>2
    <2> QED
      BY <2>3, <2>4
  <1>7. Begins(Part(1))
    BY <1>1, <1>2, <1>3
  <1> DEFINE q2 == Part(1) \o Part(2)
             q3 == q2 \o Part(3)
  <1>8. Begins(q2)
    BY <1>1, <1>6, <1>7
  <1>9. Begins(q3)
    <2>1. q2 \in Seq(Calls) /\ Part(3) \in Seq(Calls) /\ Part(1) \in Seq(Calls)
      BY <1>2, <1>8
    <2>2. CASE Part(3) = << >>
      <3>1. q3 = q2
        BY <2>1, <2>2
      <3> QED
        BY <1>8, <3>1
    <2>3. CASE Part(3) # << >>
      <3>0. Part(2) = <<IndexBody[2]>> /\ Part(2) \in Seq(Calls)
        BY <1>2, <1>4, <2>3
      <3>1. q2 # << >> /\ q2[Len(q2)] = IndexBody[2]
        <4>1. /\ Len(q2) = Len(Part(1)) + Len(Part(2))
              /\ \A i \in 1..Len(Part(2)) : q2[Len(Part(1)) + i] = Part(2)[i]
          BY <2>1, <3>0, ConcatProperties
        <4>2. Len(Part(2)) = 1 /\ Part(2)[1] = IndexBody[2] /\ Len(Part(1)) \in Nat
          BY <2>1, <3>0
        <4>3. Len(q2) = Len(Part(1)) + 1 /\ Len(q2) # 0
          BY <4>1, <4>2
        <4> HIDE DEF q2
        <4>4. q2[Len(q2)] = IndexBody[2]
          BY <4>1, <4>2, <4>3
        <4> QED
          BY <4>3, <4>4
      <3> HIDE DEF q2
      <3>2. q2[Len(q2)].op = "start" /\ q2[Len(q2)].server = Part(3)[1].server
        BY <1>1, <1>3, <2>3, <3>1
      <3>3. q3 \in Seq(Calls) /\ Ordered(q3)
        BY <1>2, <1>8, <2>1, <3>1, <3>2, OrderedConcat
      <3>4. q3[1] = q2[1]
        BY <2>1, <3>1
      <3> QED
        BY <1>8, <3>1, <3>3, <3>4
    <2> QED
      BY <2>2, <2>3
  <1> HIDE DEF q3, Begins
  <1>10. Begins(q3 \o Part(4))
    BY <1>1, <1>6, <1>9
  <1>11. Begins(q3 \o Part(4) \o Part(5))
    BY <1>1, <1>6, <1>10
  <1> QED
    BY <1>5, <1>11 DEF Begins, q3

(* A step without a fault was not preceded by one. *)
LEMMA FaultsStep ==
  ASSUME RestType, [Next]_vars, faults' = 0
  PROVE  /\ faults = 0
         /\ ~ \E c \in Conns : TcpError(c)
         /\ ~ \E n \in Servers : Stop(n)
  <1>0. faults \in Nat
    BY DEF RestType
  <1>1. ASSUME NEW c \in Conns, NEW calls,
               \/ Accept(c) \/ Request(c, calls) \/ ConnStep(c) \/ Timeout(c)
               \/ Closed(c) \/ TcpError(c) \/ HandleExit(c)
        PROVE  faults' = faults \/ faults' = faults + 1
    BY <1>1 DEF Accept, Request, ConnStep, Start, Register, Send, Timeout, Closed,
                TcpError, HandleExit, faultVars
  <1>2. ASSUME NEW n \in Servers, ServerStep(n) PROVE faults' = faults
    BY <1>2 DEF ServerStep, InitMnesia, InitTable, CountKeys, ReadKey, WriteRow, RemoveRow,
                Query, HandleStop, faultVars
  <1>3. UNCHANGED vars => faults' = faults
    BY DEF vars
  <1>4. ASSUME NEW n \in Servers, Stop(n) PROVE faults' = faults + 1
    BY <1>4 DEF Stop
  <1>5. faults' = faults \/ faults' = faults + 1
    BY <1>1, <1>2, <1>3, <1>4 DEF Next
  <1>6. faults = 0
    BY <1>0, <1>5
  <1> QED
    BY <1>6 DEF TcpError, Stop

(* What a step without a fault does to the call a page is at. *)
NextCall(c) ==
    \/ todo'[c] = todo[c]
    \/ todo[c] # << >> /\ todo'[c] = Tail(todo[c]) /\ pc'[Target(c)] # "down"
    \/ todo[c] = << >> /\ (todo'[c] = Home \/ \E call \in PageCalls : todo'[c] = <<call>>)
    \/ /\ todo[c] # << >> /\ todo'[c] = << >>
       /\ Head(todo[c]).op # "start" /\ pc[Target(c)] = "down"

(* A connection's step, *)
LEMMA ConnCalls ==
  ASSUME Core, RestType, Calm, faults = 0, faults' = 0, NEW c \in Conns,
         NEW calls, calls = Home \/ \E call \in PageCalls : calls = <<call>>,
         \/ Accept(c) \/ Request(c, calls) \/ ConnStep(c) \/ Timeout(c)
         \/ Closed(c) \/ HandleExit(c)
  PROVE  /\ \A n \in Servers : pc'[n] = pc[n] \/ (pc[n] = "down" /\ pc'[n] = "mnesia")
         /\ \A d \in Conns : exits'[d] # "crash"
         /\ \A d \in Conns : NextCall(d)
  <1>0. /\ pc \in [Servers -> {"down", "mnesia", "table", "idle", "read", "write", "hung"}]
        /\ todo \in [Conns -> Seq(Calls)]
        /\ exits \in [Conns -> {"none", "normal", "crash"}]
        /\ \A d \in Conns : exits[d] # "crash"
    BY DEF Core, CoreType, RestType, Calm
  <1>1. CASE Accept(c)
    BY <1>0, <1>1 DEF Accept, serverVars, NextCall
  <1>2. CASE Request(c, calls)
    <2>1. \A d \in Conns : todo'[d] = IF d = c THEN calls ELSE todo[d]
      BY <1>0, <1>2 DEF Request
    <2>2. todo[c] = << >> /\ pc' = pc /\ exits' = exits
      BY <1>2 DEF Request, Idle, serverVars
    <2> QED
      BY <1>0, <2>1, <2>2 DEF NextCall
  <1>3. CASE Start(c)
    <2>1. todo[c] # << >> /\ pc' = pc /\ exits' = exits
      BY <1>3 DEF Start, serverVars
    <2>2. \/ todo' = todo
          \/ pc[Target(c)] # "down" /\ todo' = [todo EXCEPT ![c] = Tail(@)]
      BY <1>3 DEF Start, Registered
    <2> QED
      BY <1>0, <2>1, <2>2 DEF NextCall
  <1>4. CASE Register(c)
    <2>1. todo[c] # << >>
      BY <1>4 DEF Register, Core, Served, Busy
    <2>2. CASE ~Registered(Target(c))
      <3>1. pc[Target(c)] = "down" /\ pc' = [pc EXCEPT ![Target(c)] = "mnesia"]
            /\ todo' = todo /\ exits' = exits
        BY <1>4, <2>2 DEF Register, Registered
      <3> QED
        BY <1>0, <3>1 DEF NextCall
    <2>3. CASE Registered(Target(c))
      <3>1. /\ pc[Target(c)] # "down" /\ pc' = pc
            /\ todo' = [todo EXCEPT ![c] = Tail(@)]
            /\ exits' = [exits EXCEPT ![c] = IF @ = "none" THEN "normal" ELSE @]
        BY <1>4, <2>3 DEF Register, Registered
      <3>2. \A d \in Conns : exits'[d] # "crash"
        BY <1>0, <3>1
      <3> QED
        BY <1>0, <2>1, <3>1, <3>2 DEF NextCall
    <2> QED
      BY <2>2, <2>3
  <1>5. CASE Send(c)
    <2>1. todo[c] # << >> /\ Head(todo[c]).op # "start" /\ pc' = pc /\ exits' = exits
      BY <1>5 DEF Send
    <2>2. \/ todo' = todo
          \/ pc[Target(c)] = "down" /\ todo' = [todo EXCEPT ![c] = << >>]
      BY <1>5 DEF Send, Registered
    <2> QED
      BY <1>0, <2>1, <2>2 DEF NextCall
  <1>6. CASE Timeout(c)
    <2>1. todo[c] # << >> /\ todo[c] \in Seq(Calls)
      BY <1>0, <1>6 DEF Timeout, Core, Served, Busy
    <2>a. Head(todo[c]) \in Calls
      BY <2>1, TailFacts
    <2>2. Target(c) \in Servers
      BY <2>a DEF Target, Calls
    <2>3. pc[Target(c)] # "hung"
      BY <2>2 DEF Calm
    <2> QED
      BY <1>6, <2>3 DEF Timeout
  <1>7. CASE Closed(c) \/ HandleExit(c)
    <2>1. Close(c, FALSE)
      <3>1. exits[c] = "crash" <=> FALSE
        BY <1>0
      <3>2. (exits[c] = "crash") = FALSE
        BY <3>1
      <3> QED
        BY <1>7, <3>2 DEF Closed, HandleExit
    <2>2. {n \in Servers : FALSE /\ owner[n] = c} = {}
      OBVIOUS
    <2>3. ServersAfter({}, {}) /\ todo' = TodoAfter({}) /\ exits' = [exits EXCEPT ![c] = "none"]
      BY <2>1, <2>2 DEF Close
    <2>4. \A n \in Servers : pc'[n] = pc[n]
      BY <2>3 DEF ServersAfter
    <2>5. \A d \in Conns : todo'[d] = todo[d] /\ exits'[d] # "crash"
      BY <1>0, <2>3 DEF TodoAfter
    <2> QED
      BY <2>4, <2>5 DEF NextCall
  <1> QED
    BY <1>1, <1>2, <1>3, <1>4, <1>5, <1>6, <1>7 DEF ConnStep

(* and a server's. *)
LEMMA ServerCalls ==
  ASSUME Core, RestType, Ready, Calm, faults = 0, NEW n \in Servers, ServerStep(n)
  PROVE  /\ pc'[n] \notin {"down", "hung"}
         /\ \A m \in Servers : m # n => pc'[m] = pc[m]
         /\ \A d \in Conns : exits'[d] # "crash"
         /\ \A d \in Conns : NextCall(d)
  <1>0. /\ pc \in [Servers -> {"down", "mnesia", "table", "idle", "read", "write", "hung"}]
        /\ todo \in [Conns -> Seq(Calls)]
        /\ \A d \in Conns : exits[d] # "crash"
        /\ stops = 0
    BY DEF Core, CoreType, Calm
  <1>1. /\ pc'[n] \in {"table", "idle", "read", "write"}
        /\ \A m \in Servers : m # n => pc'[m] = pc[m]
    BY <1>0, ServerMoves
  <1>2. pc[n] \in {"idle", "read", "write"} => n \in tables
    BY <1>0 DEF Ready, UpMeansTable
  <1>3. CASE InitMnesia(n)
    BY <1>0, <1>1, <1>3 DEF InitMnesia, connVars, NextCall
  <1>4. CASE InitTable(n)
    <2>1. exits' = exits
      BY <1>4 DEF InitTable
    <2>2. \A d \in Conns : todo'[d] = IF WaitsFor(d, "ack", n) THEN Tail(todo[d]) ELSE todo[d]
      BY <1>4 DEF InitTable
    <2>3. \A d \in Conns : WaitsFor(d, "ack", n) => todo[d] # << >> /\ Target(d) = n
      BY DEF WaitsFor, Core, Served, Busy
    <2> QED
      BY <1>0, <1>1, <2>1, <2>2, <2>3 DEF NextCall
  <1>5. CASE CountKeys(n) \/ ReadKey(n) \/ WriteRow(n) \/ RemoveRow(n) \/ Query(n)
    <2>1. pc[n] \in {"idle", "read", "write"} /\ mailbox[n] # << >>
      BY <1>5 DEF CountKeys, ReadKey, WriteRow, RemoveRow, Query, Handles, Core, Served, Working
    <2>2. Reply(n) \/ (todo' = todo /\ exits' = exits)
      BY <1>2, <1>5, <2>1 DEF CountKeys, ReadKey, WriteRow, RemoveRow, Query
    <2>3. CASE todo' = todo /\ exits' = exits
      BY <1>0, <1>1, <2>3 DEF NextCall
    <2>4. CASE Reply(n)
      <3> DEFINE from == Head(mailbox[n]).from
      <3>1. /\ exits' = exits
            /\ \A d \in Conns : todo'[d] = IF d = from THEN Tail(todo[d]) ELSE todo[d]
        BY <2>4 DEF Reply
      <3>2. mailbox[n] \in Seq(Messages)
        BY DEF Core, CoreType
      <3>3. Head(mailbox[n]) = mailbox[n][1] /\ 1 \in DOMAIN mailbox[n]
        BY <2>1, <3>2, TailFacts
      <3>4. from \in Conns => WaitsFor(from, "reply", n)
        BY <3>3 DEF Core, Served, Expected
      <3>5. from \in Conns => todo[from] # << >> /\ Target(from) = n
        BY <3>4 DEF WaitsFor, Core, Served, Busy
      <3> HIDE DEF from
      <3> QED
        BY <1>0, <1>1, <3>1, <3>5 DEF NextCall
    <2> QED
      BY <2>2, <2>3, <2>4
  <1>6. ~HandleStop(n)
    <2>1. mailbox[n] \in Seq(Messages)
      BY DEF Core, CoreType
    <2>2. mailbox[n] # << >> => Head(mailbox[n]) = mailbox[n][1] /\ 1 \in DOMAIN mailbox[n]
      BY <2>1, TailFacts
    <2>3. \A i \in DOMAIN mailbox[n] : mailbox[n][i].op # "stop"
      BY <1>0 DEF Ready, NoStopSent
    <2> QED
      BY <2>2, <2>3 DEF HandleStop, Handles
  <1> QED
    BY <1>3, <1>4, <1>5, <1>6 DEF ServerStep

(* Both together: before the first fault no server ends or hangs. *)
LEMMA CalmCalls ==
  ASSUME Inv, Calm, [Next]_vars, faults' = 0
  PROVE  /\ \A n \in Servers : pc[n] # "down" => pc'[n] # "down"
         /\ \A d \in Conns : NextCall(d)
         /\ Calm'
  <1>0. /\ Core /\ RestType /\ Ready
        /\ faults = 0 /\ stops = 0
        /\ ~ \E c \in Conns : TcpError(c)
        /\ ~ \E n \in Servers : Stop(n)
        /\ \A n \in Servers : pc[n] # "hung"
    BY FaultsStep DEF Inv, Calm
  <1>1. stops' = 0
    BY <1>0, StopsStep
  <1>2. CASE UNCHANGED vars
    BY <1>0, <1>1, <1>2 DEF vars, NextCall, Calm
  <1>3. CASE \E n \in Servers : ServerStep(n)
    <2>1. PICK n \in Servers : ServerStep(n)
      BY <1>3
    <2>2. /\ pc'[n] \notin {"down", "hung"}
          /\ \A m \in Servers : m # n => pc'[m] = pc[m]
          /\ \A d \in Conns : exits'[d] # "crash"
          /\ \A d \in Conns : NextCall(d)
      BY <1>0, <2>1, ServerCalls
    <2>3. \A m \in Servers : pc'[m] # "hung" /\ (pc[m] # "down" => pc'[m] # "down")
      BY <1>0, <2>2
    <2> QED
      BY <1>1, <2>2, <2>3 DEF Calm
  <1>4. ASSUME NEW c \in Conns, NEW calls, calls = Home \/ \E call \in PageCalls : calls = <<call>>,
               \/ Accept(c) \/ Request(c, calls) \/ ConnStep(c) \/ Timeout(c)
               \/ Closed(c) \/ HandleExit(c)
        PROVE  /\ \A n \in Servers : pc[n] # "down" => pc'[n] # "down"
               /\ \A d \in Conns : NextCall(d)
               /\ Calm'
    <2>1. /\ \A n \in Servers : pc'[n] = pc[n] \/ (pc[n] = "down" /\ pc'[n] = "mnesia")
          /\ \A d \in Conns : exits'[d] # "crash"
          /\ \A d \in Conns : NextCall(d)
      BY <1>0, <1>4, ConnCalls
    <2>2. \A m \in Servers : pc'[m] # "hung" /\ (pc[m] # "down" => pc'[m] # "down")
      BY <1>0, <2>1
    <2> QED
      BY <1>1, <2>1, <2>2 DEF Calm
  <1>5. CASE \E c \in Conns :
               \/ Accept(c) \/ Request(c, Home) \/ \E call \in PageCalls : Request(c, <<call>>)
               \/ ConnStep(c) \/ Timeout(c) \/ Closed(c) \/ HandleExit(c)
    <2>1. PICK c \in Conns :
               \/ Accept(c) \/ Request(c, Home) \/ \E call \in PageCalls : Request(c, <<call>>)
               \/ ConnStep(c) \/ Timeout(c) \/ Closed(c) \/ HandleExit(c)
      BY <1>5
    <2>2. CASE \E call \in PageCalls : Request(c, <<call>>)
      BY <1>4, <2>2
    <2>3. CASE \/ Accept(c) \/ Request(c, Home)
               \/ ConnStep(c) \/ Timeout(c) \/ Closed(c) \/ HandleExit(c)
      BY <1>4, <2>3
    <2> QED
      BY <2>1, <2>2, <2>3
  <1> QED
    BY <1>0, <1>2, <1>3, <1>5 DEF Next

(* What is left of an ordered page is ordered. *)
LEMMA OrderedTail ==
  ASSUME NEW s \in Seq(Calls), s # << >>, Ordered(s)
  PROVE  /\ Ordered(Tail(s))
         /\ Len(Tail(s)) > 0 /\ Head(Tail(s)).op # "start" => Head(Tail(s)).server = Head(s).server
  <1> DEFINE q == Tail(s)
             n == Len(s)
  <1>1. /\ n \in Nat \ {0}
        /\ Head(s) = s[1]
        /\ q \in Seq(Calls)
        /\ DOMAIN q = 1..(n - 1)
        /\ \A i \in 1..(n - 1) : q[i] = s[i + 1]
    BY TailFacts
  <1>2. Len(q) = n - 1
    BY <1>1
  <1> HIDE DEF q, n
  <1>3. Ordered(q)
    <2> SUFFICES ASSUME NEW i \in 2..Len(q), q[i].op # "start"
                 PROVE  q[i - 1].op = "start" /\ q[i - 1].server = q[i].server
      BY DEF Ordered
    <2> DEFINE j == i + 1
               h == i - 1
    <2>1. i \in 1..(n - 1) /\ h \in 1..(n - 1) /\ j \in 2..n /\ h + 1 = i /\ j - 1 = i
      BY <1>1, <1>2
    <2>2. q[i] = s[j] /\ q[h] = s[i]
      BY <1>1, <2>1
    <2>3. s[j].op # "start" => s[j - 1].op = "start" /\ s[j - 1].server = s[j].server
      BY <2>1 DEF Ordered, n
    <2> QED
      BY <2>1, <2>2, <2>3
  <1>4. ASSUME Len(q) > 0, Head(q).op # "start" PROVE Head(q).server = Head(s).server
    <2>1. q # << >> /\ 1 \in 1..(n - 1) /\ 2 \in 2..n
      BY <1>1, <1>2, <1>4
    <2>2. Head(q) = q[1] /\ q[1] = s[2]
      BY <1>1, <2>1
    <2>3. s[2].op # "start" => s[2 - 1].server = s[2].server
      BY <2>1 DEF Ordered, n
    <2> QED
      BY <1>1, <1>4, <2>2, <2>3
  <1> QED
    BY <1>3, <1>4 DEF q

(* A call that is not the last one of its page finds its server up. *)
LEMMA ThroughStep ==
  ASSUME Inv, Calm, Chained, Begun, [Next]_vars, faults' = 0
  PROVE  /\ Chained' /\ Begun'
         /\ \A c \in Conns : todo[c] # << >> => todo'[c] \in {todo[c], Tail(todo[c])}
  <1>0. /\ faults = 0
        /\ \A n \in Servers : pc[n] # "down" => pc'[n] # "down"
        /\ \A c \in Conns : NextCall(c)
    BY FaultsStep, CalmCalls DEF Inv
  <1> SUFFICES ASSUME NEW c \in Conns
               PROVE  /\ Ordered(todo'[c])
                      /\ Len(todo'[c]) > 1 /\ Head(todo'[c]).op # "start"
                            => pc'[Head(todo'[c]).server] # "down"
                      /\ todo[c] # << >> => todo'[c] \in {todo[c], Tail(todo[c])}
    BY DEF Chained, Begun, Registered, Target, Ordered
  <1>1. todo[c] \in Seq(Calls) /\ Ordered(todo[c])
    BY <1>0 DEF Inv, Core, CoreType, Chained
  <1>2. Len(todo[c]) > 1 /\ Head(todo[c]).op # "start" => pc[Head(todo[c]).server] # "down"
    BY <1>0 DEF Begun, Registered, Target
  <1>3. Len(<< >>) = 0 /\ Ordered(<< >>)
    BY DEF Ordered
  <1>4. CASE todo'[c] = todo[c]
    <2>1. ASSUME Len(todo[c]) > 1 PROVE Head(todo[c]).server \in Servers
      <3>1. todo[c] # << >>
        BY <1>3, <2>1
      <3>2. Head(todo[c]) \in Calls
        BY <1>1, <3>1, TailFacts
      <3> QED
        BY <3>2 DEF Calls
    <2> QED
      BY <1>0, <1>1, <1>2, <1>4, <2>1
  <1>5. CASE todo[c] # << >> /\ todo'[c] = Tail(todo[c]) /\ pc'[Target(c)] # "down"
    <2>1. Ordered(Tail(todo[c]))
      BY <1>1, <1>5, OrderedTail
    <2>2. Len(Tail(todo[c])) > 0 /\ Head(Tail(todo[c])).op # "start"
            => Head(Tail(todo[c])).server = Head(todo[c]).server
      BY <1>1, <1>5, OrderedTail
    <2>3. Len(Tail(todo[c])) > 1 => Len(Tail(todo[c])) > 0
      BY <1>1, <1>5, TailFacts
    <2> QED
      BY <1>5, <2>1, <2>2, <2>3 DEF Target
  <1>6. CASE todo[c] = << >> /\ todo'[c] = Home
    <2>1. Len(Home) > 1 => Head(Home).op = "start"
      <3>1. Home # << >> => Head(Home) = Home[1]
        BY HomeType, TailFacts
      <3>2. Len(Home) > 1 => Home # << >>
        BY <1>3
      <3> QED
        BY <3>1, <3>2, HomeOrdered
    <2> QED
      BY <1>6, <2>1, HomeOrdered
  <1>7. CASE todo[c] = << >> /\ \E call \in PageCalls : todo'[c] = <<call>>
    <2>1. Len(todo'[c]) = 1
      BY <1>7
    <2> QED
      BY <1>7, <2>1 DEF Ordered
  <1>8. CASE /\ todo[c] # << >> /\ todo'[c] = << >>
             /\ Head(todo[c]).op # "start" /\ pc[Target(c)] = "down"
    <2>1. ~(Len(todo[c]) > 1)
      BY <1>2, <1>8 DEF Target
    <2>2. Len(todo[c]) \in Nat \ {0}
      BY <1>1, <1>8, TailFacts
    <2>3. Tail(todo[c]) = << >>
      <3> DEFINE n == Len(todo[c])
                 q == Tail(todo[c])
      <3>1. q \in Seq(Calls) /\ Len(q) = n - 1
        BY <1>1, <1>8, HeadTailProperties
      <3>2. n \in Nat \ {0} /\ ~(n > 1)
        BY <2>1, <2>2
      <3> HIDE DEF n, q
      <3>3. n = 1
        BY ONLY <3>2
      <3>4. Len(q) = 0
        BY <3>1, <3>3
      <3>5. q = << >>
        BY ONLY <3>1, <3>4, EmptySeq
      <3> QED
        BY <3>5 DEF q
    <2> QED
      BY <1>3, <1>8, <2>3
  <1> QED
    BY <1>0, <1>4, <1>5, <1>6, <1>7, <1>8 DEF NextCall

(* As long as nothing has failed the front page makes all its calls, for   *)
(* any set of servers and any number of visitors that race through it.     *)
THEOREM Through == Spec => GoesThrough
  <1> DEFINE Goes == faults' = 0 => \A c \in Conns :
                         todo[c] # << >> => todo'[c] \in {todo[c], Tail(todo[c])}
             Whole == Inv /\ Calm /\ Chained /\ Begun
  <1>1. Init => Whole
    <2>1. Init => Calm /\ Chained /\ Begun
      BY DEF Init, Calm, Chained, Begun, Ordered
    <2> QED
      BY <2>1, InitFacts DEF Inv
  <1>2. Whole /\ [Next]_vars => Whole'
    <2> SUFFICES ASSUME Whole, [Next]_vars PROVE Whole'
      OBVIOUS
    <2>1. Inv'
      BY CoreStep, RestStep, ReadyStep DEF Inv, Core
    <2>2. CASE faults' = 0
      BY <2>1, <2>2, CalmCalls, ThroughStep
    <2>3. CASE faults' # 0
      BY <2>1, <2>3 DEF Calm, Chained, Begun
    <2> QED
      BY <2>2, <2>3
  <1>3. Whole /\ [Next]_vars => [Goes]_vars
    BY ThroughStep
  <1>4. [][Goes]_vars => GoesThrough
    BY PTL DEF GoesThrough
  <1> HIDE DEF Whole, Goes
  <1> QED
    BY <1>1, <1>2, <1>3, <1>4, PTL DEF Spec
=============================================================================
