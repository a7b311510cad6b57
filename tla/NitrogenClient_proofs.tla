------------------------ MODULE NitrogenClient_proofs ------------------------
(***************************************************************************)
(* Proofs about the event client.                                          *)
(*                                                                         *)
(* The two queues hardly touch each other, so the inductive invariant is   *)
(* stated for one kind of events, and a step is described by what it does  *)
(* to one kind: the lemmas on the event loop say that a turn does one of   *)
(* four things to each of them.                                            *)
(***************************************************************************)
EXTENDS NitrogenClient, TLAPS

Post == [event : Nat, way : Ways, served : BOOLEAN]

(* The types, for one kind. *)
KType(k) ==
    /\ \A i \in DOMAIN queue[k] : queue[k][i] \in Events(k)
    /\ \A i \in DOMAIN posts[k] : posts[k][i].event \in Events(k)
    /\ timers[k] > 0 \/ is_running[k] \/ flight[k] # {} => last[k] \in Events(k)
    /\ flight[k] \subseteq DOMAIN posts[k] /\ strays[k] \subseteq DOMAIN posts[k]
    /\ handle[k] # 0 => handle[k] \in DOMAIN posts[k]

(* AnswerMeetsItsEvent for one kind, and what makes it inductive: which    *)
(* posts the handles stand for and that only an enabled web socket carries *)
(* posts.                                                                  *)
KFlight(k) ==
    /\ \A i \in flight[k] \ strays[k] :
        /\ i = Len(posts[k]) /\ posts[k][i].event = last[k] /\ is_running[k]
        /\ posts[k][i].way = "http" => handle[k] = i
    /\ ~ever => strays[k] = {} /\ (is_running[k] => flight[k] # {})
    /\ \A i \in flight[k] : posts[k][i].way # "http" => enabled
    /\ handle[k] # 0 => posts[k][handle[k]].way = "http" /\ handle[k] \notin strays[k]
    /\ k = "event" =>
        /\ \A i \in strays[k] : posts[k][i].way # "http"
        /\ flight[k] \cap strays[k] # {} => \A i \in flight[k] : posts[k][i].way # "http"

NPosts(k) == Len(posts[k])
NQueue(k) == Len(queue[k])

(* What strengthens RepeatBound: what is to be posted counts as well. *)
KCount(k) == NPosts(k) + NQueue(k) + timers[k] <= made[k] + failures[k] + closes

(* What strengthens PostedInOrder: the queue comes after the posts. *)
KOrder(k) ==
    ~putback[k] =>
        /\ \A i, j \in DOMAIN posts[k] : i < j => posts[k][i].event < posts[k][j].event
        /\ \A i, j \in DOMAIN queue[k] : i < j => queue[k][i] < queue[k][j]
        /\ \A i \in DOMAIN posts[k], j \in DOMAIN queue[k] : posts[k][i].event < queue[k][j]

KConserve(k) ==
    \A e \in Events(k) :
        Posted(k, e) \/ Kept(k, e) \/ InFlight(k, e) \/ e \in lost[k] \cup overtaken[k]

KInv(k) == KType(k) /\ KFlight(k) /\ KCount(k) /\ KOrder(k) /\ KConserve(k)

(* The types of the variables alone; the flags are kept apart. *)
Types ==
    /\ made \in [Kinds -> Nat] /\ failures \in [Kinds -> Nat] /\ closes \in Nat
    /\ timers \in [Kinds -> Nat] /\ handle \in [Kinds -> Nat]
    /\ websocket \in {"connecting", "open", "closing", "waiting", "closed"}
    /\ queue \in [Kinds -> Seq(Nat)] /\ last \in [Kinds -> Nat]
    /\ posts \in [Kinds -> Seq(Post)]
    /\ flight \in [Kinds -> SUBSET Nat] /\ strays \in [Kinds -> SUBSET Nat]
    /\ lost \in [Kinds -> SUBSET Nat] /\ overtaken \in [Kinds -> SUBSET Nat]

Flags ==
    /\ is_running \in [Kinds -> BOOLEAN] /\ putback \in [Kinds -> BOOLEAN]
    /\ going_away \in BOOLEAN /\ looping \in BOOLEAN
    /\ enabled \in BOOLEAN /\ ever \in BOOLEAN
    /\ enabled => ever

IInv == Types /\ Flags /\ \A k \in Kinds : KInv(k)
----------------------------------------------------------------------------
(* What a step can do to one kind of events. *)

SameRun(k) ==
    /\ is_running'[k] = is_running[k] /\ last'[k] = last[k] /\ handle'[k] = handle[k]
    /\ flight'[k] = flight[k] /\ strays'[k] = strays[k]
SameFate(k) == lost'[k] = lost[k] /\ overtaken'[k] = overtaken[k]
SameCounts(k) ==
    made'[k] = made[k] /\ failures'[k] = failures[k] /\ closes' = closes

(* The web socket may be enabled, nothing else happens to it. *)
Socket == (enabled => enabled') /\ (ever => ever') /\ closes' = closes

Same(k) ==
    /\ SameRun(k) /\ SameFate(k) /\ SameCounts(k) /\ putback'[k] = putback[k]
    /\ queue'[k] = queue[k] /\ timers'[k] = timers[k] /\ posts'[k] = posts[k]

Queues(k) ==
    /\ queue'[k] = Append(queue[k], made[k] + 1) /\ made'[k] = made[k] + 1
    /\ SameRun(k) /\ SameFate(k)
    /\ failures'[k] = failures[k] /\ putback'[k] = putback[k]
    /\ timers'[k] = timers[k] /\ posts'[k] = posts[k]

Serves(k, i) ==
    /\ i \in DOMAIN posts[k] /\ posts'[k] = [posts[k] EXCEPT ![i].served = TRUE]
    /\ SameRun(k) /\ SameFate(k) /\ SameCounts(k) /\ putback'[k] = putback[k]
    /\ queue'[k] = queue[k] /\ timers'[k] = timers[k]

(* The flag is cleared, see Clear. *)
Cleared(k, i) ==
    /\ is_running'[k] = FALSE /\ last'[k] = last[k] /\ posts'[k] = posts[k]
    /\ flight'[k] = flight[k] \ {i} /\ strays'[k] = strays[k] \cup (flight[k] \ {i})
    /\ \/ k # "event" /\ handle'[k] = 0
       \/ k = "event" /\ handle'[k] = handle[k] /\ i \in flight[k]
    /\ i \in flight[k] \/ i = handle[k] \/ ever'

(* The answer to a post and what the server says unasked. *)
Succeeds(k, i) ==
    /\ Cleared(k, i) /\ (i \in flight[k] => posts[k][i].served)
    /\ SameFate(k) /\ SameCounts(k) /\ putback'[k] = putback[k]
    /\ queue'[k] = queue[k] /\ timers'[k] = timers[k]

Fails(k, i) ==
    /\ Cleared(k, i) /\ i \in flight[k]
    /\ made'[k] = made[k] /\ failures'[k] = failures[k] + 1 /\ timers'[k] = timers[k] + 1
    /\ lost'[k] = lost[k] /\ overtaken[k] \subseteq overtaken'[k]
    /\ posts[k][i].event = last[k] \/ posts[k][i].event \in overtaken'[k]
    /\ queue'[k] = queue[k] /\ putback'[k] = putback[k]

(* $destroy, for system events. *)
Destroys(k, i) ==
    /\ Cleared(k, i)
    /\ queue'[k] = << >> /\ timers'[k] = timers[k]
    /\ SameCounts(k) /\ putback'[k] = putback[k] /\ overtaken'[k] = overtaken[k]
    /\ lost[k] \subseteq lost'[k]
    /\ \A j \in DOMAIN queue[k] : queue[k][j] \in lost'[k]
    /\ \A j \in flight[k] : posts[k][j].event \in lost'[k]

PutsBack(k) ==
    /\ timers[k] > 0 /\ timers'[k] = timers[k] - 1
    /\ queue'[k] = <<last[k]>> \o queue[k]
    /\ putback'[k] = TRUE
    /\ SameRun(k) /\ SameFate(k) /\ SameCounts(k)
    /\ posts'[k] = posts[k]

(* The web socket is closed. *)
Closing(k, calls) ==
    /\ is_running'[k] = is_running[k] /\ last'[k] = last[k] /\ handle'[k] = handle[k]
    /\ flight'[k] = flight[k] \ OnSocket(k) /\ strays'[k] = strays[k]
    /\ queue'[k] = IF is_running[k] THEN Copies(last[k], calls) \o queue[k] ELSE queue[k]
    /\ putback'[k] = (putback[k] \/ is_running[k])
    /\ timers'[k] = timers[k] /\ posts'[k] = posts[k]
    /\ made'[k] = made[k] /\ failures'[k] = failures[k] /\ overtaken'[k] = overtaken[k]
    /\ lost[k] \subseteq lost'[k]
    /\ \A i \in OnSocket(k) :
        \/ Kept(k, posts[k][i].event)
        \/ is_running[k] /\ last[k] = posts[k][i].event
        \/ posts[k][i].event \in lost'[k]

(* What is left in flight when the loop gives up what is running, or if    *)
(* nothing is.                                                             *)
Remains(k, rest) ==
    /\ \/ /\ handle[k] # 0 /\ is_running[k]
          /\ rest = flight[k] \ {handle[k]} /\ strays'[k] = strays[k] \cup rest
          /\ Kept(k, last[k]) \/ last[k] \in lost'[k]
       \/ ~is_running[k] /\ rest = flight[k] /\ strays'[k] = strays[k]
    /\ lost[k] \subseteq lost'[k] /\ overtaken[k] \subseteq overtaken'[k]
    /\ SameCounts(k) /\ timers'[k] = timers[k] /\ putback'[k] = putback[k]

GivesUp(k, rest) ==
    /\ Remains(k, rest)
    /\ queue'[k] = queue[k] /\ last'[k] = last[k] /\ posts'[k] = posts[k]
    /\ is_running'[k] = FALSE /\ handle'[k] = 0 /\ flight'[k] = rest

(* The loop takes an event. *)
Takes(k, rest) ==
    /\ Remains(k, rest)
    /\ queue[k] # << >> /\ queue'[k] = Tail(queue[k]) /\ last'[k] = Head(queue[k])
    /\ timers[k] > 0 => Head(queue[k]) = last[k] \/ last[k] \in overtaken'[k]

Sends(k, rest) ==
    /\ Takes(k, rest)
    /\ is_running'[k] = TRUE /\ flight'[k] = rest \cup {Len(posts[k]) + 1}
    /\ IF enabled THEN handle'[k] \in {0, handle[k]} ELSE handle'[k] = Len(posts[k]) + 1
    /\ posts'[k] = Append(posts[k], [event |-> Head(queue[k]), way |-> Way, served |-> FALSE])

Drops(k, rest) ==
    /\ Takes(k, rest)
    /\ is_running'[k] = FALSE /\ flight'[k] = rest
    /\ handle'[k] \in {0, handle[k]}
    /\ posts'[k] = posts[k]
    /\ Head(queue[k]) \in lost'[k]
----------------------------------------------------------------------------
(* Facts about sequences. *)
LEMMA SeqFacts ==
    ASSUME NEW S, NEW s \in Seq(S)
    PROVE  Len(s) \in Nat /\ DOMAIN s = 1..Len(s) /\ \A i \in 1..Len(s) : s[i] \in S
OBVIOUS

LEMMA AppendFacts ==
    ASSUME NEW S, NEW s \in Seq(S), NEW x \in S
    PROVE  /\ Append(s, x) \in Seq(S) /\ Len(Append(s, x)) = Len(s) + 1
           /\ \A i \in 1..Len(s) : Append(s, x)[i] = s[i]
           /\ Append(s, x)[Len(s) + 1] = x
OBVIOUS

LEMMA ExceptFacts ==
    ASSUME NEW S, NEW s \in Seq(S), NEW i \in DOMAIN s, NEW x \in S
    PROVE  [s EXCEPT ![i] = x] \in Seq(S)
OBVIOUS

LEMMA ConsFacts ==
    ASSUME NEW S, NEW s \in Seq(S), NEW x \in S
    PROVE  /\ <<x>> \o s \in Seq(S) /\ Len(<<x>> \o s) = Len(s) + 1
           /\ (<<x>> \o s)[1] = x
           /\ \A i \in 1..Len(s) : (<<x>> \o s)[i + 1] = s[i]
           /\ \A i \in 2..(Len(s) + 1) : (<<x>> \o s)[i] = s[i - 1]
OBVIOUS

LEMMA Cons2Facts ==
    ASSUME NEW S, NEW s \in Seq(S), NEW x \in S
    PROVE  /\ <<x, x>> \o s \in Seq(S) /\ Len(<<x, x>> \o s) = Len(s) + 2
           /\ (<<x, x>> \o s)[1] = x /\ (<<x, x>> \o s)[2] = x
           /\ \A i \in 1..Len(s) : (<<x, x>> \o s)[i + 2] = s[i]
           /\ \A i \in 3..(Len(s) + 2) : (<<x, x>> \o s)[i] = s[i - 2]
OBVIOUS

LEMMA TailFacts ==
    ASSUME NEW S, NEW s \in Seq(S), s # << >>
    PROVE  /\ Tail(s) \in Seq(S) /\ Len(Tail(s)) = Len(s) - 1 /\ Len(s) >= 1
           /\ Head(s) = s[1] /\ Head(s) \in S
           /\ \A i \in 1..(Len(s) - 1) : Tail(s)[i] = s[i + 1]
           /\ \A i \in 2..Len(s) : Tail(s)[i - 1] = s[i]
OBVIOUS
----------------------------------------------------------------------------
LEMMA WayFacts ==
    ASSUME Flags
    PROVE  Way \in Ways /\ (Way = "http" <=> ~enabled)
BY DEF Flags, Way, Ways

LEMMA KTypes ==
    ASSUME Types, NEW k \in Kinds
    PROVE  /\ made[k] \in Nat /\ timers[k] \in Nat /\ failures[k] \in Nat /\ closes \in Nat
           /\ last[k] \in Nat /\ handle[k] \in Nat
           /\ queue[k] \in Seq(Nat) /\ posts[k] \in Seq(Post)
           /\ NQueue(k) \in Nat /\ DOMAIN queue[k] = 1..NQueue(k)
           /\ NPosts(k) \in Nat /\ DOMAIN posts[k] = 1..NPosts(k)
BY DEF Types, NPosts, NQueue

(* A kind that a step leaves alone keeps its invariant. *)
LEMMA SameKeeps ==
    ASSUME NEW k \in Kinds, KInv(k), Same(k), Socket
    PROVE  KInv(k)'
<1> USE DEF Same, SameRun, SameFate, SameCounts, KInv, Socket
<1>1. KType(k)'
    BY DEF KType, Events
<1>2. KFlight(k)'
    BY DEF KFlight
<1>3. KCount(k)'
    BY DEF KCount, NPosts, NQueue
<1>4. KOrder(k)'
    BY DEF KOrder
<1>5. KConserve(k)'
    BY DEF KConserve, Events, Posted, Kept, Queued, InFlight
<1> QED BY <1>1, <1>2, <1>3, <1>4, <1>5

LEMMA QueuesKeeps ==
    ASSUME Types, NEW k \in Kinds, KInv(k), Queues(k), Socket
    PROVE  KInv(k)'
<1>0. /\ made[k] \in Nat /\ timers[k] \in Nat /\ failures[k] \in Nat /\ closes \in Nat
      /\ NPosts(k) \in Nat /\ NQueue(k) \in Nat
    BY KTypes
<1>a. DOMAIN queue[k] = 1..NQueue(k) /\ queue[k] \in Seq(Nat) /\ NQueue(k) = Len(queue[k])
    BY KTypes DEF NQueue
<1>b. made[k] + 1 \in Nat
    BY <1>0
<1>1. queue'[k] \in Seq(Nat) /\ Len(queue'[k]) = NQueue(k) + 1
    BY <1>a, <1>b, AppendFacts DEF Queues
<1>c. \A i \in 1..NQueue(k) : queue'[k][i] = queue[k][i]
    BY <1>a, <1>b, AppendFacts DEF Queues
<1>d. queue'[k][NQueue(k) + 1] = made[k] + 1
    BY <1>a, <1>b, AppendFacts DEF Queues
<1>2. NQueue(k)' = NQueue(k) + 1
    BY <1>1 DEF NQueue
<1>e. DOMAIN queue'[k] = 1..(NQueue(k) + 1)
    BY <1>1, SeqFacts
<1>3. /\ made'[k] = made[k] + 1 /\ failures'[k] = failures[k] /\ timers'[k] = timers[k]
      /\ NPosts(k)' = NPosts(k) /\ closes' = closes
    BY DEF Queues, NPosts, Socket
<1>f. putback'[k] = putback[k] /\ posts'[k] = posts[k] /\ SameRun(k) /\ SameFate(k)
    BY DEF Queues
<1>g. \A i \in DOMAIN queue'[k] :
        \/ i \in DOMAIN queue[k] /\ queue'[k][i] = queue[k][i] /\ i < NQueue(k) + 1
        \/ i = NQueue(k) + 1 /\ queue'[k][i] = made[k] + 1
  <2> DEFINE n == NQueue(k)
  <2>0. n \in Nat /\ DOMAIN queue[k] = 1..n
      BY <1>0, <1>a
  <2> HIDE DEF n
  <2>1. 1..(n + 1) = (1..n) \cup {n + 1} /\ \A i \in 1..n : i < n + 1
      BY <2>0
  <2>2. DOMAIN queue'[k] = 1..(n + 1)
      BY <1>e DEF n
  <2>3. (\A i \in 1..n : queue'[k][i] = queue[k][i]) /\ queue'[k][n + 1] = made[k] + 1
      BY <1>c, <1>d DEF n
  <2>4. \A i \in DOMAIN queue'[k] :
          \/ i \in DOMAIN queue[k] /\ queue'[k][i] = queue[k][i] /\ i < n + 1
          \/ i = n + 1 /\ queue'[k][i] = made[k] + 1
      BY <2>0, <2>1, <2>2, <2>3, Zenon
  <2> QED BY <2>4 DEF n
<1>4. KType(k)'
  <2>1. Events(k) \subseteq Events(k)' /\ made[k] + 1 \in Events(k)'
      BY <1>0, <1>3 DEF Events
  <2> QED BY <2>1, <1>3, <1>f, <1>g DEF KInv, KType, SameRun
<1>5. KFlight(k)'
    BY <1>f DEF KInv, KFlight, SameRun, Socket
<1>6. KCount(k)'
    BY <1>0, <1>2, <1>3 DEF KInv, KCount
<1>7. KOrder(k)'
  <2> SUFFICES ASSUME ~putback[k]
               PROVE  /\ \A i, j \in DOMAIN queue'[k] : i < j => queue'[k][i] < queue'[k][j]
                      /\ \A i \in DOMAIN posts[k], j \in DOMAIN queue'[k] :
                            posts[k][i].event < queue'[k][j]
      BY <1>f DEF KInv, KOrder
  <2>1. \A i \in DOMAIN queue[k] : queue[k][i] \in Nat /\ queue[k][i] < made[k] + 1
      BY <1>0 DEF KInv, KType, Events
  <2>2. \A i \in DOMAIN posts[k] : posts[k][i].event < made[k] + 1
      BY <1>0 DEF KInv, KType, Events
  <2>o. /\ \A i, j \in DOMAIN queue[k] : i < j => queue[k][i] < queue[k][j]
        /\ \A i \in DOMAIN posts[k], j \in DOMAIN queue[k] : posts[k][i].event < queue[k][j]
      BY DEF KInv, KOrder
  <2>3. \A i, j \in DOMAIN queue'[k] : i < j => queue'[k][i] < queue'[k][j]
      BY ONLY <1>0, <1>a, <1>g, <2>1, <2>o
  <2> QED BY <2>2, <2>3, <2>o, <1>g
<1>8. KConserve(k)'
  <2> SUFFICES ASSUME NEW e \in Events(k)' PROVE
            Posted(k, e)' \/ Kept(k, e)' \/ InFlight(k, e)' \/ (e \in lost[k] \cup overtaken[k])'
      BY DEF KConserve
  <2>1. CASE e = made[k] + 1
    <3>1. NQueue(k) + 1 \in DOMAIN queue'[k]
        BY <1>0, <1>e
    <3> QED BY <2>1, <3>1, <1>d DEF Kept, Queued
  <2>2. CASE e # made[k] + 1
    <3>1. e \in Events(k)
        BY <1>0, <1>3, <2>2 DEF Events
    <3>2. Queued(k, e) => Queued(k, e)'
        BY <1>0, <1>a, <1>c, <1>e DEF Queued
    <3>3. (Posted(k, e) => Posted(k, e)') /\ (InFlight(k, e) => InFlight(k, e)')
        BY <1>f DEF Posted, InFlight, SameRun
    <3>4. Kept(k, e) => Kept(k, e)'
        BY <3>2, <1>3, <1>f DEF Kept, SameRun
    <3> QED BY <3>1, <3>3, <3>4, <1>f DEF KInv, KConserve, SameFate
  <2> QED BY <2>1, <2>2
<1> QED BY <1>4, <1>5, <1>6, <1>7, <1>8 DEF KInv

LEMMA ServesKeeps ==
    ASSUME Types, NEW k \in Kinds, NEW i, KInv(k), Serves(k, i), Socket
    PROVE  KInv(k)'
<1>0. posts[k] \in Seq(Post)
    BY DEF Types
<1>1. /\ DOMAIN posts'[k] = DOMAIN posts[k] /\ Len(posts'[k]) = Len(posts[k])
      /\ \A j \in DOMAIN posts[k] : /\ posts'[k][j].event = posts[k][j].event
                                    /\ posts'[k][j].way = posts[k][j].way
                                    /\ posts[k][j].served => posts'[k][j].served
    BY <1>0 DEF Serves, Post
<1>2. /\ queue'[k] = queue[k] /\ timers'[k] = timers[k] /\ putback'[k] = putback[k]
      /\ SameRun(k) /\ SameFate(k) /\ SameCounts(k)
    BY DEF Serves
<1>s. flight[k] \subseteq DOMAIN posts[k] /\ strays[k] \subseteq DOMAIN posts[k]
      /\ (handle[k] # 0 => handle[k] \in DOMAIN posts[k])
    BY DEF KInv, KType
<1> USE DEF SameRun, SameFate, SameCounts
<1>3. KType(k)'
    BY <1>1, <1>2 DEF KInv, KType, Events
<1>4. KFlight(k)'
    BY <1>1, <1>2, <1>s DEF KInv, KFlight, Socket
<1>5. KCount(k)'
    BY <1>1, <1>2 DEF KInv, KCount, NPosts, NQueue
<1>6. KOrder(k)'
    BY <1>1, <1>2 DEF KInv, KOrder
<1>7. KConserve(k)'
  <2> SUFFICES ASSUME NEW e \in Events(k) PROVE
            Posted(k, e)' \/ Kept(k, e)' \/ InFlight(k, e)' \/ (e \in lost[k] \cup overtaken[k])'
      BY <1>2 DEF KConserve, Events
  <2>1. Posted(k, e) => Posted(k, e)'
      BY <1>1 DEF Posted
  <2>2. Kept(k, e) => Kept(k, e)'
      BY <1>2 DEF Kept, Queued
  <2>3. InFlight(k, e) => InFlight(k, e)'
      BY <1>1, <1>2, <1>s DEF InFlight
  <2> QED BY <2>1, <2>2, <2>3, <1>2 DEF KInv, KConserve
<1> QED BY <1>3, <1>4, <1>5, <1>6, <1>7 DEF KInv

(* A flag is cleared. *)
LEMMA ClearedFlight ==
    ASSUME Flags, NEW k \in Kinds, NEW i, KInv(k), Cleared(k, i), Socket
    PROVE  /\ KFlight(k)'
           /\ flight'[k] \subseteq DOMAIN posts'[k] /\ strays'[k] \subseteq DOMAIN posts'[k]
           /\ handle'[k] # 0 => handle'[k] \in DOMAIN posts'[k]
<1>t. /\ flight[k] \subseteq DOMAIN posts[k] /\ strays[k] \subseteq DOMAIN posts[k]
      /\ handle[k] # 0 => handle[k] \in DOMAIN posts[k]
    BY DEF KInv, KType
<1>1. \A j \in flight[k] \ strays[k] :
        j = NPosts(k) /\ (posts[k][j].way = "http" => handle[k] = j)
    BY DEF KInv, KFlight, NPosts
<1>2. /\ ~ever => strays[k] = {} /\ ~enabled
      /\ \A j \in flight[k] : posts[k][j].way # "http" => enabled
    BY DEF KInv, KFlight, Flags
<1>3. handle[k] # 0 => posts[k][handle[k]].way = "http" /\ handle[k] \notin strays[k]
    BY DEF KInv, KFlight
<1>4. k = "event" =>
        /\ \A j \in strays[k] : posts[k][j].way # "http"
        /\ flight[k] \cap strays[k] # {} => \A j \in flight[k] : posts[k][j].way # "http"
    BY DEF KInv, KFlight
<1>5. /\ is_running'[k] = FALSE /\ posts'[k] = posts[k]
      /\ flight'[k] = flight[k] \ {i} /\ strays'[k] = strays[k] \cup (flight[k] \ {i})
    BY DEF Cleared
<1>6. \/ k # "event" /\ handle'[k] = 0
      \/ k = "event" /\ handle'[k] = handle[k] /\ i \in flight[k]
    BY DEF Cleared
<1>7. i \in flight[k] \/ i = handle[k] \/ ever'
    BY DEF Cleared
<1>8. (enabled => enabled') /\ (ever => ever')
    BY DEF Socket
<1>9. flight'[k] \ strays'[k] = {}
    BY <1>5
<1>10. ~ever' => strays'[k] = {}
  <2> SUFFICES ASSUME ~ever', NEW j \in flight[k] \ {i} PROVE FALSE
      BY <1>2, <1>5, <1>8
  <2>0. strays[k] = {} /\ \A m \in flight[k] : posts[k][m].way = "http"
      BY <1>2, <1>8
  <2>1. j = NPosts(k) /\ handle[k] = j
      BY <2>0, <1>1
  <2>2. i \in flight[k] => i = NPosts(k)
      BY <2>0, <1>1
  <2> QED BY <2>1, <2>2, <1>7
<1>11. \A j \in flight'[k] : posts'[k][j].way # "http" => enabled'
    BY <1>2, <1>5, <1>8
<1>12. ASSUME k = "event", NEW j \in flight[k] \ {i} PROVE posts[k][j].way # "http"
  <2>0. i \in flight[k]
      BY <1>6, <1>12
  <2>1. CASE j \in strays[k]
      BY <2>1, <1>4, <1>12
  <2>2. CASE j \notin strays[k]
    <3>1. i \in strays[k]
        BY <2>0, <2>2, <1>1, <1>12
    <3> QED BY <2>0, <3>1, <1>4, <1>12
  <2> QED BY <2>1, <2>2
<1>13. handle'[k] # 0 => posts'[k][handle'[k]].way = "http" /\ handle'[k] \notin strays'[k]
    BY <1>3, <1>5, <1>6, <1>12
<1>14. k = "event" => \A j \in strays'[k] : posts'[k][j].way # "http"
    BY <1>4, <1>5, <1>12
<1>15. k = "event" => (flight'[k] \cap strays'[k] # {} => \A j \in flight'[k] : posts'[k][j].way # "http")
    BY <1>5, <1>14
<1>16. KFlight(k)'
    BY <1>5, <1>9, <1>10, <1>11, <1>13, <1>14, <1>15 DEF KFlight
<1> QED BY <1>t, <1>5, <1>6, <1>16

(* What is queued and posted does not change when a flag is cleared. *)
LEMMA ClearedConserve ==
    ASSUME NEW k \in Kinds, NEW i, Cleared(k, i), NEW e
    PROVE  /\ Posted(k, e) => Posted(k, e)'
           /\ InFlight(k, e) => InFlight(k, e)' \/ (i \in flight[k] /\ posts[k][i].event = e)
           /\ queue'[k] = queue[k] => (Queued(k, e) => Queued(k, e)')
<1>1. posts'[k] = posts[k] /\ flight'[k] = flight[k] \ {i}
    BY DEF Cleared
<1>2. Posted(k, e) => Posted(k, e)'
    BY <1>1 DEF Posted
<1>3. InFlight(k, e) => InFlight(k, e)' \/ (i \in flight[k] /\ posts[k][i].event = e)
    BY <1>1 DEF InFlight
<1>4. queue'[k] = queue[k] => (Queued(k, e) => Queued(k, e)')
    BY DEF Queued
<1> QED BY <1>2, <1>3, <1>4

LEMMA SucceedsKeeps ==
    ASSUME Types, Flags, NEW k \in Kinds, NEW i, KInv(k), Succeeds(k, i), Socket
    PROVE  KInv(k)'
<1>1. Cleared(k, i) /\ SameFate(k) /\ SameCounts(k) /\ putback'[k] = putback[k]
      /\ queue'[k] = queue[k] /\ timers'[k] = timers[k]
    BY DEF Succeeds
<1>2. is_running'[k] = FALSE /\ last'[k] = last[k] /\ posts'[k] = posts[k]
    BY <1>1 DEF Cleared
<1>3. /\ KFlight(k)'
      /\ flight'[k] \subseteq DOMAIN posts'[k] /\ strays'[k] \subseteq DOMAIN posts'[k]
      /\ handle'[k] # 0 => handle'[k] \in DOMAIN posts'[k]
    BY <1>1, ClearedFlight
<1>4. KType(k)'
  <2>1. flight'[k] \subseteq flight[k]
      BY <1>1 DEF Cleared
  <2>2. timers[k] > 0 \/ is_running[k] \/ flight[k] # {} => last[k] \in Events(k)
      BY DEF KInv, KType
  <2>3. timers'[k] > 0 \/ is_running'[k] \/ flight'[k] # {} => last'[k] \in Events(k)
      BY <2>1, <2>2, <1>1, <1>2
  <2> QED BY <1>1, <1>2, <1>3, <2>3 DEF KInv, KType, Events, SameCounts
<1>5. KCount(k)'
    BY <1>1, <1>2 DEF KInv, KCount, SameCounts, NPosts, NQueue
<1>6. KOrder(k)'
    BY <1>1, <1>2 DEF KInv, KOrder
<1>7. KConserve(k)'
  <2> SUFFICES ASSUME NEW e \in Events(k) PROVE
            Posted(k, e)' \/ Kept(k, e)' \/ InFlight(k, e)' \/ (e \in lost[k] \cup overtaken[k])'
      BY <1>1 DEF KConserve, Events, SameCounts
  <2>1. /\ Posted(k, e) => Posted(k, e)'
        /\ InFlight(k, e) => InFlight(k, e)' \/ (i \in flight[k] /\ posts[k][i].event = e)
        /\ Queued(k, e) => Queued(k, e)'
      BY <1>1, ClearedConserve
  <2>2. i \in flight[k] /\ posts[k][i].event = e => Posted(k, e)
    <3>1. i \in flight[k] => i \in DOMAIN posts[k] /\ posts[k][i].served
        BY DEF KInv, KType, Succeeds
    <3> QED BY <3>1 DEF Posted
  <2>3. Kept(k, e) => Kept(k, e)'
      BY <2>1, <1>1, <1>2 DEF Kept
  <2> QED BY <2>1, <2>2, <2>3, <1>1 DEF KInv, KConserve, SameFate
<1> QED BY <1>3, <1>4, <1>5, <1>6, <1>7 DEF KInv

LEMMA FailsKeeps ==
    ASSUME Types, Flags, NEW k \in Kinds, NEW i, KInv(k), Fails(k, i), Socket
    PROVE  KInv(k)'
<1>0. /\ made[k] \in Nat /\ timers[k] \in Nat /\ failures[k] \in Nat /\ closes \in Nat
      /\ NPosts(k) \in Nat /\ NQueue(k) \in Nat
    BY KTypes
<1>1. /\ Cleared(k, i) /\ i \in flight[k] /\ made'[k] = made[k]
      /\ failures'[k] = failures[k] + 1 /\ timers'[k] = timers[k] + 1
      /\ queue'[k] = queue[k] /\ putback'[k] = putback[k]
    BY DEF Fails
<1>2. is_running'[k] = FALSE /\ last'[k] = last[k] /\ posts'[k] = posts[k]
      /\ NPosts(k)' = NPosts(k) /\ NQueue(k)' = NQueue(k) /\ closes' = closes
    BY <1>1 DEF Cleared, NPosts, NQueue, Socket
<1>3. /\ KFlight(k)'
      /\ flight'[k] \subseteq DOMAIN posts'[k] /\ strays'[k] \subseteq DOMAIN posts'[k]
      /\ handle'[k] # 0 => handle'[k] \in DOMAIN posts'[k]
    BY <1>1, ClearedFlight
<1>p. i \in DOMAIN posts[k] /\ posts[k][i].event \in Events(k)
    BY <1>1 DEF KInv, KType
<1>5. KCount(k)'
    BY <1>0, <1>1, <1>2 DEF KInv, KCount
<1>6. KOrder(k)'
    BY <1>1, <1>2 DEF KInv, KOrder
<1>7. KConserve(k)'
  <2> SUFFICES ASSUME NEW e \in Events(k) PROVE
            Posted(k, e)' \/ Kept(k, e)' \/ InFlight(k, e)' \/ (e \in lost[k] \cup overtaken[k])'
      BY <1>1 DEF KConserve, Events
  <2>1. /\ Posted(k, e) => Posted(k, e)'
        /\ InFlight(k, e) => InFlight(k, e)' \/ posts[k][i].event = e
        /\ Queued(k, e) => Queued(k, e)'
      BY <1>1, ClearedConserve
  <2>2. timers'[k] > 0
      BY <1>0, <1>1
  <2>3. Kept(k, e) => Kept(k, e)'
      BY <2>1, <2>2, <1>2 DEF Kept
  <2>4. posts[k][i].event = e => Kept(k, e)' \/ e \in overtaken'[k]
      BY <2>2, <1>2 DEF Kept, Fails
  <2>5. lost'[k] = lost[k] /\ overtaken[k] \subseteq overtaken'[k]
      BY DEF Fails
  <2> QED BY <2>1, <2>3, <2>4, <2>5 DEF KInv, KConserve
<1>4. KType(k)'
  <2>1. last[k] \in Events(k)
      BY <1>1 DEF KInv, KType
  <2> QED BY <2>1, <1>1, <1>2, <1>3 DEF KInv, KType, Events
<1> QED BY <1>3, <1>4, <1>5, <1>6, <1>7 DEF KInv

(* The script is destroyed. *)
LEMMA DestroysKeeps ==
    ASSUME Types, Flags, NEW k \in Kinds, NEW i, KInv(k), Destroys(k, i), Socket
    PROVE  KInv(k)'
<1>0. /\ made[k] \in Nat /\ timers[k] \in Nat /\ failures[k] \in Nat /\ closes \in Nat
      /\ NPosts(k) \in Nat /\ NQueue(k) \in Nat
    BY KTypes
<1>1. /\ Cleared(k, i) /\ SameCounts(k) /\ putback'[k] = putback[k] /\ queue'[k] = << >>
      /\ timers'[k] = timers[k] /\ overtaken'[k] = overtaken[k]
    BY DEF Destroys
<1>2. is_running'[k] = FALSE /\ last'[k] = last[k] /\ posts'[k] = posts[k]
      /\ NPosts(k)' = NPosts(k)
    BY <1>1 DEF Cleared, NPosts
<1>3. /\ KFlight(k)'
      /\ flight'[k] \subseteq DOMAIN posts'[k] /\ strays'[k] \subseteq DOMAIN posts'[k]
      /\ handle'[k] # 0 => handle'[k] \in DOMAIN posts'[k]
    BY <1>1, ClearedFlight
<1>q. NQueue(k)' = 0 /\ DOMAIN queue'[k] = {}
    BY <1>1 DEF NQueue
<1>4. KType(k)'
  <2>1. flight'[k] \subseteq flight[k]
      BY <1>1 DEF Cleared
  <2>2. timers[k] > 0 \/ is_running[k] \/ flight[k] # {} => last[k] \in Events(k)
      BY DEF KInv, KType
  <2>3. timers'[k] > 0 \/ is_running'[k] \/ flight'[k] # {} => last'[k] \in Events(k)
      BY <2>1, <2>2, <1>1, <1>2
  <2> QED BY <1>1, <1>2, <1>3, <1>q, <2>3 DEF KInv, KType, Events, SameCounts
<1>5. KCount(k)'
    BY <1>0, <1>1, <1>2, <1>q DEF KInv, KCount, SameCounts
<1>6. KOrder(k)'
    BY <1>1, <1>2, <1>q DEF KInv, KOrder
<1>7. KConserve(k)'
  <2> SUFFICES ASSUME NEW e \in Events(k) PROVE
            Posted(k, e)' \/ Kept(k, e)' \/ InFlight(k, e)' \/ (e \in lost[k] \cup overtaken[k])'
      BY <1>1 DEF KConserve, Events, SameCounts
  <2>1. Posted(k, e) => Posted(k, e)'
      BY <1>1, ClearedConserve
  <2>2. InFlight(k, e) => e \in lost'[k]
      BY DEF InFlight, Destroys
  <2>3. Kept(k, e) => Kept(k, e)' \/ e \in lost'[k]
      BY <1>1, <1>2 DEF Kept, Queued, Destroys
  <2>4. lost[k] \subseteq lost'[k]
      BY DEF Destroys
  <2> QED BY <2>1, <2>2, <2>3, <2>4, <1>1 DEF KInv, KConserve
<1> QED BY <1>3, <1>4, <1>5, <1>6, <1>7 DEF KInv

(* An event is put back once or twice: it comes first, the rest stays. *)
LEMMA PrependFacts ==
    ASSUME Types, NEW k \in Kinds, last[k] \in Events(k), KInv(k), last'[k] = last[k],
           NEW n \in {1, 2},
           queue'[k] = Copies(last[k], n) \o queue[k]
    PROVE  /\ NQueue(k)' = NQueue(k) + n
           /\ \A i \in DOMAIN queue'[k] : queue'[k][i] \in Events(k)
           /\ Queued(k, last[k])'
           /\ \A e : Queued(k, e) => Queued(k, e)'
<1>0. queue[k] \in Seq(Nat) /\ last[k] \in Nat /\ Len(queue[k]) \in Nat
      /\ DOMAIN queue[k] = 1..Len(queue[k])
    BY KTypes, SeqFacts
<1>q. \A i \in 1..Len(queue[k]) : queue[k][i] \in Events(k)
    BY <1>0 DEF KInv, KType
<1>1. CASE n = 1
  <2>0. /\ queue'[k] \in Seq(Nat) /\ Len(queue'[k]) = Len(queue[k]) + 1 /\ queue'[k][1] = last[k]
        /\ \A i \in 1..Len(queue[k]) : queue'[k][i + 1] = queue[k][i]
        /\ \A i \in 2..(Len(queue[k]) + 1) : queue'[k][i] = queue[k][i - 1]
      BY <1>0, <1>1, ConsFacts DEF Copies
  <2> DEFINE m == Len(queue[k])
  <2>1. m \in Nat /\ DOMAIN queue'[k] = 1..(m + 1) /\ DOMAIN queue[k] = 1..m
      BY <2>0, <1>0, SeqFacts
  <2>2. /\ queue'[k][1] = last[k]
        /\ \A i \in 1..m : queue'[k][i + 1] = queue[k][i]
        /\ \A i \in 2..(m + 1) : queue'[k][i] = queue[k][i - 1]
        /\ \A i \in 1..m : queue[k][i] \in Events(k)
      BY <2>0, <1>q
  <2>3. NQueue(k)' = NQueue(k) + n
      BY <2>0, <1>1 DEF NQueue
  <2> HIDE DEF m
  <2>4. \A i \in 1..(m + 1) : i = 1 \/ (i \in 2..(m + 1) /\ i - 1 \in 1..m)
      BY <2>1
  <2>5. \A i \in 1..m : i + 1 \in 1..(m + 1)
      BY <2>1
  <2>6. 1 \in 1..(m + 1)
      BY <2>1
  <2>7. \A i \in DOMAIN queue'[k] : queue'[k][i] \in Events(k)
      BY <2>1, <2>2, <2>4, Zenon
  <2>8. Queued(k, last[k])'
    <3>1. \E i \in DOMAIN queue'[k] : queue'[k][i] = last[k]
        BY <2>1, <2>2, <2>6, Zenon
    <3> QED BY <3>1 DEF Queued
  <2>9. ASSUME NEW e, Queued(k, e) PROVE Queued(k, e)'
    <3>1. PICK i \in 1..m : queue[k][i] = e
        BY <2>9, <2>1 DEF Queued
    <3> QED BY <3>1, <2>1, <2>2, <2>5 DEF Queued
  <2> QED BY <2>3, <2>7, <2>8, <2>9
<1>2. CASE n = 2
  <2>0. /\ queue'[k] \in Seq(Nat) /\ Len(queue'[k]) = Len(queue[k]) + 2
        /\ queue'[k][1] = last[k] /\ queue'[k][2] = last[k]
        /\ \A i \in 1..Len(queue[k]) : queue'[k][i + 2] = queue[k][i]
        /\ \A i \in 3..(Len(queue[k]) + 2) : queue'[k][i] = queue[k][i - 2]
      BY <1>0, <1>2, Cons2Facts DEF Copies
  <2> DEFINE m == Len(queue[k])
  <2>1. m \in Nat /\ DOMAIN queue'[k] = 1..(m + 2) /\ DOMAIN queue[k] = 1..m
      BY <2>0, <1>0, SeqFacts
  <2>2. /\ queue'[k][1] = last[k] /\ queue'[k][2] = last[k]
        /\ \A i \in 1..m : queue'[k][i + 2] = queue[k][i]
        /\ \A i \in 3..(m + 2) : queue'[k][i] = queue[k][i - 2]
        /\ \A i \in 1..m : queue[k][i] \in Events(k)
      BY <2>0, <1>q
  <2>3. NQueue(k)' = NQueue(k) + n
      BY <2>0, <1>2 DEF NQueue
  <2> HIDE DEF m
  <2>4. \A i \in 1..(m + 2) : i = 1 \/ i = 2 \/ (i \in 3..(m + 2) /\ i - 2 \in 1..m)
      BY <2>1
  <2>5. \A i \in 1..m : i + 2 \in 1..(m + 2)
      BY <2>1
  <2>6. 1 \in 1..(m + 2)
      BY <2>1
  <2>7. \A i \in DOMAIN queue'[k] : queue'[k][i] \in Events(k)
      BY <2>1, <2>2, <2>4, Zenon
  <2>8. Queued(k, last[k])'
    <3>1. \E i \in DOMAIN queue'[k] : queue'[k][i] = last[k]
        BY <2>1, <2>2, <2>6, Zenon
    <3> QED BY <3>1 DEF Queued
  <2>9. ASSUME NEW e, Queued(k, e) PROVE Queued(k, e)'
    <3>1. PICK i \in 1..m : queue[k][i] = e
        BY <2>9, <2>1 DEF Queued
    <3> QED BY <3>1, <2>1, <2>2, <2>5 DEF Queued
  <2> QED BY <2>3, <2>7, <2>8, <2>9
<1> QED BY <1>1, <1>2

(* The pause is over. *)
LEMMA PutsBackKeeps ==
    ASSUME Types, NEW k \in Kinds, KInv(k), PutsBack(k), Socket
    PROVE  KInv(k)'
<1>0. /\ made[k] \in Nat /\ timers[k] \in Nat /\ failures[k] \in Nat /\ closes \in Nat
      /\ NPosts(k) \in Nat /\ NQueue(k) \in Nat
    BY KTypes
<1>1. /\ timers[k] > 0 /\ timers'[k] = timers[k] - 1 /\ SameCounts(k) /\ posts'[k] = posts[k]
      /\ NPosts(k)' = NPosts(k) /\ SameRun(k) /\ SameFate(k)
    BY DEF PutsBack, NPosts
<1>p. putback'[k] = TRUE
    BY DEF PutsBack
<1>2. last[k] \in Events(k)
    BY <1>1 DEF KInv, KType
<1>3. /\ NQueue(k)' = NQueue(k) + 1 /\ Queued(k, last[k])'
      /\ \A i \in DOMAIN queue'[k] : queue'[k][i] \in Events(k)
      /\ \A e : Queued(k, e) => Queued(k, e)'
  <2>1. queue'[k] = Copies(last[k], 1) \o queue[k]
      BY DEF PutsBack, Copies
  <2>2. last'[k] = last[k] /\ 1 \in {1, 2}
      BY <1>1 DEF SameRun
  <2> QED BY <1>2, <2>1, <2>2, PrependFacts
<1>4. KType(k)'
    BY <1>1, <1>2, <1>3 DEF KInv, KType, Events, SameRun, SameCounts
<1>5. KFlight(k)'
    BY <1>1 DEF KInv, KFlight, SameRun, Socket
<1>6. KCount(k)'
    BY <1>0, <1>1, <1>3 DEF KInv, KCount, SameCounts
<1>7. KOrder(k)'
    BY <1>p DEF KOrder
<1>8. KConserve(k)'
  <2> SUFFICES ASSUME NEW e \in Events(k) PROVE
            Posted(k, e)' \/ Kept(k, e)' \/ InFlight(k, e)' \/ (e \in lost[k] \cup overtaken[k])'
      BY <1>1 DEF KConserve, Events, SameCounts
  <2>1. (Queued(k, e) => Queued(k, e)') /\ (Posted(k, e) => Posted(k, e)')
        /\ (InFlight(k, e) => InFlight(k, e)')
      BY <1>1, <1>3 DEF Posted, InFlight, SameRun
  <2>2. e = last[k] => Queued(k, e)'
      BY <1>1, <1>3 DEF SameRun, Queued
  <2>3. Kept(k, e) => Kept(k, e)'
      BY <2>1, <2>2 DEF Kept
  <2> QED BY <2>1, <2>3, <1>1 DEF KInv, KConserve, SameFate
<1> QED BY <1>4, <1>5, <1>6, <1>7, <1>8 DEF KInv

(* The web socket is closed. *)
LEMMA ClosingKeeps ==
    ASSUME Types, Flags, NEW k \in Kinds, NEW calls \in {1, 2}, KInv(k), Closing(k, calls),
           ever' = ever, ~enabled', closes' = closes + calls
    PROVE  KInv(k)'
<1>0. /\ made[k] \in Nat /\ timers[k] \in Nat /\ failures[k] \in Nat /\ closes \in Nat
      /\ NPosts(k) \in Nat /\ NQueue(k) \in Nat /\ calls \in Nat
    BY KTypes
<1>1. /\ is_running'[k] = is_running[k] /\ last'[k] = last[k] /\ handle'[k] = handle[k]
      /\ strays'[k] = strays[k] /\ timers'[k] = timers[k] /\ posts'[k] = posts[k]
      /\ made'[k] = made[k] /\ failures'[k] = failures[k] /\ overtaken'[k] = overtaken[k]
      /\ lost[k] \subseteq lost'[k] /\ NPosts(k)' = NPosts(k)
    BY DEF Closing, NPosts
<1>f. flight'[k] = {i \in flight[k] : posts[k][i].way = "http"}
    BY DEF Closing, OnSocket
<1>2. /\ \A i \in DOMAIN queue'[k] : queue'[k][i] \in Events(k)
      /\ is_running[k] => Queued(k, last[k])'
      /\ \A e : Queued(k, e) => Queued(k, e)'
      /\ NQueue(k)' <= NQueue(k) + calls /\ NQueue(k)' \in Nat
  <2>1. CASE is_running[k]
    <3>1. last[k] \in Events(k)
        BY <2>1 DEF KInv, KType
    <3>2. queue'[k] = Copies(last[k], calls) \o queue[k]
        BY <2>1 DEF Closing
    <3>3. /\ NQueue(k)' = NQueue(k) + calls /\ Queued(k, last[k])'
          /\ \A i \in DOMAIN queue'[k] : queue'[k][i] \in Events(k)
          /\ \A e : Queued(k, e) => Queued(k, e)'
        BY <1>1, <3>1, <3>2, PrependFacts
    <3> QED BY <3>3, <1>0
  <2>2. CASE ~is_running[k]
    <3>1. queue'[k] = queue[k]
        BY <2>2 DEF Closing
    <3>2. NQueue(k)' = NQueue(k)
        BY <3>1 DEF NQueue
    <3> QED BY <2>2, <3>1, <3>2, <1>0 DEF KInv, KType, Queued
  <2> QED BY <2>1, <2>2
<1>4. KType(k)'
    BY <1>1, <1>f, <1>2 DEF KInv, KType, Events
<1>5. KFlight(k)'
  <2>1. ~ever => flight'[k] = flight[k]
    <3>1. ~ever => ~enabled
        BY DEF Flags
    <3>2. \A i \in flight[k] : posts[k][i].way # "http" => enabled
        BY DEF KInv, KFlight
    <3> QED BY <3>1, <3>2, <1>f
  <2> QED BY <2>1, <1>1, <1>f DEF KInv, KFlight
<1>6. KCount(k)'
    BY <1>0, <1>1, <1>2 DEF KInv, KCount
<1>7. KOrder(k)'
  <2>1. CASE is_running[k]
    <3>1. putback'[k]
        BY <2>1 DEF Closing
    <3> QED BY <3>1 DEF KOrder
  <2>2. CASE ~is_running[k]
    <3>1. queue'[k] = queue[k] /\ (putback'[k] <=> putback[k])
        BY <2>2 DEF Closing
    <3> QED BY <3>1, <1>1 DEF KInv, KOrder
  <2> QED BY <2>1, <2>2
<1>8. KConserve(k)'
  <2> SUFFICES ASSUME NEW e \in Events(k) PROVE
            Posted(k, e)' \/ Kept(k, e)' \/ InFlight(k, e)' \/ (e \in lost[k] \cup overtaken[k])'
      BY <1>1 DEF KConserve, Events
  <2>1. Posted(k, e) => Posted(k, e)'
      BY <1>1 DEF Posted
  <2>2. Kept(k, e) => Kept(k, e)'
      BY <1>1, <1>2 DEF Kept
  <2>3. is_running[k] /\ last[k] = e => Kept(k, e)'
      BY <1>1, <1>2 DEF Kept, Queued
  <2>4. InFlight(k, e) => InFlight(k, e)' \/ Kept(k, e)' \/ e \in lost'[k]
    <3> SUFFICES ASSUME NEW i \in flight[k], posts[k][i].event = e
                 PROVE  InFlight(k, e)' \/ Kept(k, e)' \/ e \in lost'[k]
        BY DEF InFlight
    <3>1. CASE posts[k][i].way = "http"
        BY <3>1, <1>1, <1>f DEF InFlight
    <3>2. CASE posts[k][i].way # "http"
        BY <3>2, <2>2, <2>3 DEF Closing, OnSocket
    <3> QED BY <3>1, <3>2
  <2> QED BY <2>1, <2>2, <2>4, <1>1 DEF KInv, KConserve
<1> QED BY <1>4, <1>5, <1>6, <1>7, <1>8 DEF KInv

(* What remains in flight is stray. *)
LEMMA RemainsFacts ==
    ASSUME Types, Flags, NEW k \in Kinds, KInv(k), NEW rest, Remains(k, rest)
    PROVE  /\ rest \subseteq flight[k] /\ rest \subseteq strays'[k]
           /\ strays'[k] \subseteq DOMAIN posts[k]
           /\ ~ever => rest = {} /\ strays'[k] = {}
           /\ k = "event" => \A i \in strays'[k] : posts[k][i].way # "http"
           /\ \A i \in rest : posts[k][i].way # "http" => enabled
           /\ handle[k] # 0 => posts[k][handle[k]].way = "http" /\ handle[k] \notin strays'[k]
           /\ \A e : InFlight(k, e) => \/ \E i \in rest : posts[k][i].event = e
                                       \/ e = last[k] /\ (Kept(k, e) \/ e \in lost'[k])
<1>0. flight[k] \subseteq DOMAIN posts[k] /\ strays[k] \subseteq DOMAIN posts[k]
    BY DEF KInv, KType
<1>1. \A i \in flight[k] \ strays[k] :
        posts[k][i].event = last[k] /\ is_running[k] /\ (posts[k][i].way = "http" => handle[k] = i)
    BY DEF KInv, KFlight
<1>2. /\ \A i \in flight[k] : posts[k][i].way # "http" => enabled
      /\ ~ever => strays[k] = {}
      /\ handle[k] # 0 => posts[k][handle[k]].way = "http" /\ handle[k] \notin strays[k]
      /\ k = "event" => \A i \in strays[k] : posts[k][i].way # "http"
    BY DEF KInv, KFlight
<1>3. ~ever => ~enabled
    BY DEF Flags
<1>4. CASE /\ handle[k] # 0 /\ is_running[k]
           /\ rest = flight[k] \ {handle[k]} /\ strays'[k] = strays[k] \cup rest
           /\ Kept(k, last[k]) \/ last[k] \in lost'[k]
  <2>1. \A i \in rest : i \in strays[k] \/ posts[k][i].way # "http"
      BY <1>1, <1>4
  <2>2. ~ever => rest = {}
      BY <2>1, <1>2, <1>3, <1>4
  <2>3. ASSUME NEW e, InFlight(k, e)
        PROVE  \/ \E i \in rest : posts[k][i].event = e
               \/ e = last[k] /\ (Kept(k, e) \/ e \in lost'[k])
    <3>1. PICK i \in flight[k] : posts[k][i].event = e
        BY <2>3 DEF InFlight
    <3>2. CASE i = handle[k]
        BY <3>1, <3>2, <1>1, <1>2, <1>4
    <3>3. CASE i # handle[k]
        BY <3>1, <3>3, <1>4
    <3> QED BY <3>2, <3>3
  <2>4. handle[k] \notin strays'[k]
      BY <1>2, <1>4
  <2>5. rest \subseteq flight[k] /\ rest \subseteq strays'[k] /\ strays'[k] \subseteq DOMAIN posts[k]
      BY <1>0, <1>4
  <2>6. ~ever => strays'[k] = {}
      BY <2>2, <1>2, <1>4
  <2>7. k = "event" => \A i \in strays'[k] : posts[k][i].way # "http"
      BY <2>1, <1>2, <1>4
  <2> QED BY <2>2, <2>3, <2>4, <2>5, <2>6, <2>7, <1>2
<1>5. CASE ~is_running[k] /\ rest = flight[k] /\ strays'[k] = strays[k]
  <2>1. rest \subseteq strays'[k]
      BY <1>1, <1>5
  <2>2. \A e : InFlight(k, e) => \E i \in rest : posts[k][i].event = e
      BY <1>5 DEF InFlight
  <2>3. ~ever => rest = {} /\ strays'[k] = {}
      BY <2>1, <1>2, <1>5
  <2> QED BY <2>1, <2>2, <2>3, <1>0, <1>2, <1>5
<1> QED BY <1>4, <1>5 DEF Remains

(* The flight when the loop has given up, and posted nothing. *)
LEMMA RestFlight ==
    ASSUME Types, Flags, NEW k \in Kinds, KInv(k), NEW rest, Remains(k, rest),
           posts'[k] = posts[k], is_running'[k] = FALSE, flight'[k] = rest,
           handle'[k] \in {0, handle[k]}, enabled' = enabled, ever' = ever
    PROVE  /\ KFlight(k)'
           /\ flight'[k] \subseteq DOMAIN posts'[k] /\ strays'[k] \subseteq DOMAIN posts'[k]
           /\ handle'[k] # 0 => handle'[k] \in DOMAIN posts'[k]
<1>1. /\ rest \subseteq flight[k] /\ rest \subseteq strays'[k]
      /\ strays'[k] \subseteq DOMAIN posts[k]
      /\ ~ever => rest = {} /\ strays'[k] = {}
      /\ k = "event" => \A i \in strays'[k] : posts[k][i].way # "http"
      /\ \A i \in rest : posts[k][i].way # "http" => enabled
      /\ handle[k] # 0 => posts[k][handle[k]].way = "http" /\ handle[k] \notin strays'[k]
    BY RemainsFacts
<1>2. flight'[k] \ strays'[k] = {}
    BY <1>1
<1>3. /\ ~ever' => strays'[k] = {}
      /\ \A i \in flight'[k] : posts'[k][i].way # "http" => enabled'
    BY <1>1
<1>4. handle'[k] # 0 => posts'[k][handle'[k]].way = "http" /\ handle'[k] \notin strays'[k]
    BY <1>1
<1>5. k = "event" =>
        /\ \A i \in strays'[k] : posts'[k][i].way # "http"
        /\ flight'[k] \cap strays'[k] # {} => \A i \in flight'[k] : posts'[k][i].way # "http"
    BY <1>1
<1>6. KFlight(k)'
    BY <1>2, <1>3, <1>4, <1>5 DEF KFlight
<1>7. (handle[k] # 0 => handle[k] \in DOMAIN posts[k]) /\ flight[k] \subseteq DOMAIN posts[k]
    BY DEF KInv, KType
<1>8. /\ flight'[k] \subseteq DOMAIN posts'[k] /\ strays'[k] \subseteq DOMAIN posts'[k]
      /\ handle'[k] # 0 => handle'[k] \in DOMAIN posts'[k]
    BY <1>1, <1>7
<1> QED BY <1>6, <1>8

LEMMA GivesUpKeeps ==
    ASSUME Types, Flags, NEW k \in Kinds, KInv(k), NEW rest, GivesUp(k, rest),
           enabled' = enabled, ever' = ever
    PROVE  KInv(k)'
<1>1. /\ Remains(k, rest) /\ queue'[k] = queue[k] /\ last'[k] = last[k] /\ posts'[k] = posts[k]
      /\ is_running'[k] = FALSE /\ handle'[k] \in {0, handle[k]} /\ flight'[k] = rest
    BY DEF GivesUp
<1>2. /\ lost[k] \subseteq lost'[k] /\ overtaken[k] \subseteq overtaken'[k]
      /\ SameCounts(k) /\ timers'[k] = timers[k] /\ putback'[k] = putback[k]
    BY <1>1 DEF Remains
<1>3. /\ KFlight(k)'
      /\ flight'[k] \subseteq DOMAIN posts'[k] /\ strays'[k] \subseteq DOMAIN posts'[k]
      /\ handle'[k] # 0 => handle'[k] \in DOMAIN posts'[k]
    BY <1>1, RestFlight
<1>4. KType(k)'
  <2>1. flight'[k] \subseteq flight[k]
      BY <1>1, RemainsFacts
  <2>2. timers[k] > 0 \/ is_running[k] \/ flight[k] # {} => last[k] \in Events(k)
      BY DEF KInv, KType
  <2>3. timers'[k] > 0 \/ is_running'[k] \/ flight'[k] # {} => last'[k] \in Events(k)
      BY <2>1, <2>2, <1>1, <1>2
  <2> QED BY <1>1, <1>2, <1>3, <2>3 DEF KInv, KType, Events, SameCounts
<1>5. KCount(k)'
    BY <1>1, <1>2 DEF KInv, KCount, SameCounts, NPosts, NQueue
<1>6. KOrder(k)'
    BY <1>1, <1>2 DEF KInv, KOrder
<1>7. KConserve(k)'
  <2> SUFFICES ASSUME NEW e \in Events(k) PROVE
            Posted(k, e)' \/ Kept(k, e)' \/ InFlight(k, e)' \/ (e \in lost[k] \cup overtaken[k])'
      BY <1>2 DEF KConserve, Events, SameCounts
  <2>1. Posted(k, e) => Posted(k, e)'
      BY <1>1 DEF Posted
  <2>2. Kept(k, e) => Kept(k, e)'
      BY <1>1, <1>2 DEF Kept, Queued
  <2>3. InFlight(k, e) => (\E i \in rest : posts[k][i].event = e) \/ Kept(k, e) \/ e \in lost'[k]
      BY <1>1, RemainsFacts
  <2>4. (\E i \in rest : posts[k][i].event = e) => InFlight(k, e)'
      BY <1>1 DEF InFlight
  <2> QED BY <2>1, <2>2, <2>3, <2>4, <1>2 DEF KInv, KConserve
<1> QED BY <1>3, <1>4, <1>5, <1>6, <1>7 DEF KInv

(* The loop takes the first event of the queue. *)
LEMMA TakesFacts ==
    ASSUME Types, Flags, NEW k \in Kinds, KInv(k), NEW rest, Takes(k, rest)
    PROVE  /\ Head(queue[k]) \in Events(k) /\ last'[k] = Head(queue[k]) /\ SameCounts(k)
           /\ timers'[k] = timers[k] /\ putback'[k] = putback[k]
           /\ NQueue(k)' = NQueue(k) - 1
           /\ \A i \in DOMAIN queue'[k] : queue'[k][i] \in Events(k)
           /\ \A e \in Events(k) : \/ Posted(k, e)
                                   \/ e = Head(queue[k]) \/ Queued(k, e)'
                                   \/ \E i \in rest : posts[k][i].event = e
                                   \/ e \in lost'[k] \cup overtaken'[k]
           /\ ~putback[k] =>
                /\ \A i \in DOMAIN posts[k] : posts[k][i].event < Head(queue[k])
                /\ \A i \in DOMAIN posts[k], j \in DOMAIN queue'[k] :
                        posts[k][i].event < queue'[k][j]
                /\ \A j \in DOMAIN queue'[k] : Head(queue[k]) < queue'[k][j]
                /\ \A i, j \in DOMAIN queue'[k] : i < j => queue'[k][i] < queue'[k][j]
<1>r. Remains(k, rest)
    BY DEF Takes
<1>1. /\ queue[k] # << >> /\ queue'[k] = Tail(queue[k]) /\ last'[k] = Head(queue[k])
      /\ SameCounts(k) /\ timers'[k] = timers[k] /\ putback'[k] = putback[k]
    BY DEF Takes, Remains
<1>2. queue[k] \in Seq(Nat)
    BY KTypes
<1>3. /\ queue'[k] \in Seq(Nat) /\ Len(queue'[k]) = Len(queue[k]) - 1 /\ Len(queue[k]) >= 1
      /\ Head(queue[k]) = queue[k][1]
      /\ \A i \in 1..(Len(queue[k]) - 1) : queue'[k][i] = queue[k][i + 1]
      /\ \A i \in 2..Len(queue[k]) : queue'[k][i - 1] = queue[k][i]
  <2> DEFINE q == queue[k]
             t == Tail(q)
  <2>1. q \in Seq(Nat) /\ q # << >> /\ queue'[k] = t
      BY <1>1, <1>2
  <2> HIDE DEF q
  <2>2. /\ t \in Seq(Nat) /\ Len(t) = Len(q) - 1 /\ Len(q) >= 1 /\ Head(q) = q[1]
        /\ \A i \in 1..(Len(q) - 1) : t[i] = q[i + 1]
        /\ \A i \in 2..Len(q) : t[i - 1] = q[i]
      BY <2>1, TailFacts, Zenon
  <2> HIDE DEF t
  <2> QED BY <2>1, <2>2, Zenon DEF q
<1> DEFINE m == Len(queue[k])
           h == Head(queue[k])
<1>4. m \in Nat /\ m >= 1 /\ DOMAIN queue'[k] = 1..(m - 1) /\ DOMAIN queue[k] = 1..m
    BY <1>2, <1>3, SeqFacts
<1>5. /\ h = queue[k][1]
      /\ \A i \in 1..(m - 1) : queue'[k][i] = queue[k][i + 1]
      /\ \A i \in 2..m : queue'[k][i - 1] = queue[k][i]
    BY <1>3
<1>6. NQueue(k)' = NQueue(k) - 1
    BY <1>3 DEF NQueue
<1>h. h = Head(queue[k])
    OBVIOUS
<1> HIDE DEF m, h
<1>7. 1 \in 1..m /\ \A i \in 1..(m - 1) : i + 1 \in 1..m /\ 1 < i + 1
    BY <1>4
<1>8. \A i \in 1..m : i = 1 \/ (i \in 2..m /\ i - 1 \in 1..(m - 1))
    BY <1>4
<1>9. h \in Events(k)
    BY <1>4, <1>5, <1>7 DEF KInv, KType
<1>10. \A i \in DOMAIN queue'[k] : queue'[k][i] \in Events(k)
    BY <1>4, <1>5, <1>7 DEF KInv, KType
<1>11. ASSUME NEW e, Queued(k, e) PROVE e = h \/ Queued(k, e)'
  <2>1. PICK i \in 1..m : queue[k][i] = e
      BY <1>11, <1>4 DEF Queued
  <2>2. CASE i = 1
      BY <2>1, <2>2, <1>5
  <2>3. CASE i \in 2..m /\ i - 1 \in 1..(m - 1)
      BY <2>1, <2>3, <1>4, <1>5 DEF Queued
  <2> QED BY <2>2, <2>3, <1>8
<1>12. ASSUME NEW e \in Events(k)
       PROVE  \/ Posted(k, e) \/ e = h \/ Queued(k, e)'
              \/ \E i \in rest : posts[k][i].event = e
              \/ e \in lost'[k] \cup overtaken'[k]
  <2>1. /\ timers[k] > 0 => h = last[k] \/ last[k] \in overtaken'[k]
        /\ lost[k] \subseteq lost'[k] /\ overtaken[k] \subseteq overtaken'[k]
      BY <1>h DEF Takes, Remains
  <2>2. Kept(k, e) => e = h \/ Queued(k, e)' \/ e \in overtaken'[k]
      BY <2>1, <1>11 DEF Kept
  <2>3. InFlight(k, e) => (\E i \in rest : posts[k][i].event = e) \/ Kept(k, e) \/ e \in lost'[k]
      BY <1>r, RemainsFacts
  <2> QED BY <2>1, <2>2, <2>3 DEF KInv, KConserve
<1>13. ASSUME ~putback[k]
       PROVE  /\ \A i \in DOMAIN posts[k] : posts[k][i].event < h
              /\ \A i \in DOMAIN posts[k], j \in DOMAIN queue'[k] :
                        posts[k][i].event < queue'[k][j]
              /\ \A j \in DOMAIN queue'[k] : h < queue'[k][j]
              /\ \A i, j \in DOMAIN queue'[k] : i < j => queue'[k][i] < queue'[k][j]
  <2>1. /\ \A i, j \in 1..m : i < j => queue[k][i] < queue[k][j]
        /\ \A i \in DOMAIN posts[k], j \in 1..m : posts[k][i].event < queue[k][j]
      BY <1>13, <1>4 DEF KInv, KOrder
  <2>2. (\A i \in DOMAIN posts[k] : posts[k][i].event < h)
      BY <2>1, <1>5, <1>7
  <2>3. \A i \in DOMAIN posts[k], j \in DOMAIN queue'[k] : posts[k][i].event < queue'[k][j]
      BY <2>1, <1>4, <1>5, <1>7
  <2>4. \A j \in DOMAIN queue'[k] : h < queue'[k][j]
      BY <2>1, <1>4, <1>5, <1>7
  <2>5. \A i, j \in DOMAIN queue'[k] : i < j => queue'[k][i] < queue'[k][j]
    <3>1. \A i, j \in 1..(m - 1) : i < j => i + 1 < j + 1
        BY <1>4
    <3>2. \A i, j \in 1..(m - 1) : i < j => queue'[k][i] < queue'[k][j]
        BY <3>1, <2>1, <1>5, <1>7, Zenon
    <3> QED BY <3>2, <1>4
  <2> QED BY <2>2, <2>3, <2>4, <2>5
<1>14. \A e \in Events(k) : \/ Posted(k, e)
                            \/ e = Head(queue[k]) \/ Queued(k, e)'
                            \/ \E i \in rest : posts[k][i].event = e
                            \/ e \in lost'[k] \cup overtaken'[k]
    BY <1>12 DEF h
<1>15. ~putback[k] =>
        /\ \A i \in DOMAIN posts[k] : posts[k][i].event < Head(queue[k])
        /\ \A i \in DOMAIN posts[k], j \in DOMAIN queue'[k] : posts[k][i].event < queue'[k][j]
        /\ \A j \in DOMAIN queue'[k] : Head(queue[k]) < queue'[k][j]
        /\ \A i, j \in DOMAIN queue'[k] : i < j => queue'[k][i] < queue'[k][j]
    BY <1>13 DEF h
<1>16. Head(queue[k]) \in Events(k)
    BY <1>9 DEF h
<1> QED BY ONLY <1>1, <1>6, <1>10, <1>14, <1>15, <1>16

(* The loop posts the event that it took. *)
LEMMA SendsKeeps ==
    ASSUME Types, Flags, NEW k \in Kinds, KInv(k), NEW rest, Sends(k, rest),
           enabled' = enabled, ever' = ever
    PROVE  KInv(k)'
<1> DEFINE h == Head(queue[k])
           n == NPosts(k)
           new == [event |-> h, way |-> Way, served |-> FALSE]
<1>0. /\ made[k] \in Nat /\ timers[k] \in Nat /\ failures[k] \in Nat /\ closes \in Nat
      /\ NPosts(k) \in Nat /\ NQueue(k) \in Nat
    BY KTypes
<1>t. Takes(k, rest) /\ Remains(k, rest) /\ is_running'[k] = TRUE
    BY DEF Sends, Takes
<1>1. /\ h \in Events(k) /\ last'[k] = h /\ SameCounts(k) /\ timers'[k] = timers[k]
      /\ putback'[k] = putback[k] /\ NQueue(k)' = NQueue(k) - 1
      /\ \A i \in DOMAIN queue'[k] : queue'[k][i] \in Events(k)
    BY <1>t, TakesFacts
<1>2. h \in Nat
    BY <1>0, <1>1 DEF Events
<1>w. Way \in Ways /\ (Way = "http" <=> ~enabled)
    BY WayFacts
<1>3. new \in Post
    BY <1>2, <1>w DEF Post
<1>4. posts[k] \in Seq(Post) /\ n = Len(posts[k])
    BY KTypes DEF NPosts
<1>5. posts'[k] = Append(posts[k], new)
    BY DEF Sends
<1>6. /\ posts'[k] \in Seq(Post) /\ Len(posts'[k]) = n + 1
      /\ \A i \in 1..n : posts'[k][i] = posts[k][i]
      /\ posts'[k][n + 1] = new
  <2> HIDE DEF new
  <2> QED BY <1>3, <1>4, <1>5, AppendFacts
<1>7. NPosts(k)' = n + 1
    BY <1>6 DEF NPosts
<1>8. n \in Nat /\ DOMAIN posts'[k] = 1..(n + 1) /\ DOMAIN posts[k] = 1..n
    BY <1>0, <1>4, <1>6, SeqFacts
<1>9. /\ \A i \in 1..n : posts'[k][i] = posts[k][i]
      /\ posts'[k][n + 1].event = h /\ posts'[k][n + 1].way = Way
    BY <1>6
<1>10. /\ \A e \in Events(k) : \/ Posted(k, e)
                               \/ e = h \/ Queued(k, e)'
                               \/ \E i \in rest : posts[k][i].event = e
                               \/ e \in lost'[k] \cup overtaken'[k]
       /\ ~putback[k] =>
            /\ \A i \in DOMAIN posts[k] : posts[k][i].event < h
            /\ \A i \in DOMAIN posts[k], j \in DOMAIN queue'[k] :
                    posts[k][i].event < queue'[k][j]
            /\ \A j \in DOMAIN queue'[k] : h < queue'[k][j]
            /\ \A i, j \in DOMAIN queue'[k] : i < j => queue'[k][i] < queue'[k][j]
    BY <1>t, TakesFacts
<1>f. /\ flight'[k] = rest \cup {n + 1}
      /\ IF enabled THEN handle'[k] \in {0, handle[k]} ELSE handle'[k] = n + 1
    BY DEF Sends, NPosts
<1>r. /\ rest \subseteq strays'[k] /\ strays'[k] \subseteq 1..n
      /\ ~ever => rest = {} /\ strays'[k] = {}
      /\ k = "event" => \A i \in strays'[k] : posts[k][i].way # "http"
      /\ \A i \in rest : posts[k][i].way # "http" => enabled
      /\ handle[k] # 0 => posts[k][handle[k]].way = "http" /\ handle[k] \notin strays'[k]
    BY <1>t, <1>8, RemainsFacts
<1>g. handle[k] # 0 => handle[k] \in 1..n
    BY <1>8 DEF KInv, KType
<1> HIDE DEF h, n, new
<1>11. \A i \in 1..(n + 1) : (i \in 1..n /\ i < n + 1) \/ i = n + 1
    BY <1>8
<1>12. \A i, j \in 1..(n + 1) : i < j => i \in 1..n
    BY <1>8
<1>13. (\A i \in 1..n : i \in 1..(n + 1)) /\ n + 1 \in 1..(n + 1) /\ n + 1 \notin 1..n /\ n + 1 # 0
    BY <1>8
<1>k. KType(k)'
  <2>1. \A i \in DOMAIN posts'[k] : posts'[k][i].event \in Events(k)
      BY <1>1, <1>8, <1>9, <1>11 DEF KInv, KType
  <2>2. flight'[k] \subseteq DOMAIN posts'[k] /\ strays'[k] \subseteq DOMAIN posts'[k]
      BY <1>8, <1>13, <1>f, <1>r
  <2>3. handle'[k] # 0 => handle'[k] \in DOMAIN posts'[k]
      BY <1>8, <1>13, <1>f, <1>g
  <2> QED BY <2>1, <2>2, <2>3, <1>1 DEF KType, Events, SameCounts
<1>a. KFlight(k)'
  <2>1. \A i \in flight'[k] \ strays'[k] : i = n + 1
      BY <1>f, <1>r
  <2>2. /\ n + 1 = Len(posts'[k]) /\ posts'[k][n + 1].event = last'[k] /\ is_running'[k]
        /\ posts'[k][n + 1].way = "http" => handle'[k] = n + 1
      BY <1>1, <1>6, <1>9, <1>f, <1>w, <1>t
  <2>3. ~ever' => strays'[k] = {} /\ (is_running'[k] => flight'[k] # {})
      BY <1>f, <1>r
  <2>4. \A i \in rest : i \in 1..n /\ posts'[k][i] = posts[k][i]
      BY <1>9, <1>r
  <2>5. \A i \in flight'[k] : posts'[k][i].way # "http" => enabled'
    <3>1. \A i \in rest : posts'[k][i].way # "http" => enabled
        BY <2>4, <1>r
    <3>2. posts'[k][n + 1].way # "http" => enabled
        BY <1>9, <1>w
    <3> QED BY <3>1, <3>2, <1>f
  <2>6. handle'[k] # 0 => posts'[k][handle'[k]].way = "http" /\ handle'[k] \notin strays'[k]
    <3>1. CASE enabled
        BY <3>1, <1>9, <1>f, <1>g, <1>r
    <3>2. CASE ~enabled
        BY <3>2, <1>9, <1>13, <1>f, <1>r, <1>w
    <3> QED BY <3>1, <3>2
  <2>7. k = "event" => \A i \in strays'[k] : posts'[k][i].way # "http"
      BY <1>9, <1>r
  <2>8. k = "event" /\ flight'[k] \cap strays'[k] # {} =>
            \A i \in flight'[k] : posts'[k][i].way # "http"
    <3> SUFFICES ASSUME k = "event", flight'[k] \cap strays'[k] # {}
                 PROVE  \A i \in flight'[k] : posts'[k][i].way # "http"
        OBVIOUS
    <3>1. PICK j \in rest : j \in strays'[k]
        BY <1>13, <1>f, <1>r
    <3>2. enabled
        BY <3>1, <1>r
    <3>3. posts'[k][n + 1].way # "http"
        BY <3>2, <1>9, <1>w
    <3>4. \A i \in rest : posts'[k][i].way # "http"
        BY <2>7, <1>r
    <3> QED BY <3>3, <3>4, <1>f
  <2> QED BY <2>1, <2>2, <2>3, <2>5, <2>6, <2>7, <2>8 DEF KFlight
<1>c. KCount(k)'
  <2>1. NPosts(k)' = NPosts(k) + 1
      BY <1>7 DEF n
  <2> QED BY <2>1, <1>0, <1>1 DEF KInv, KCount, SameCounts
<1>o. KOrder(k)'
  <2> SUFFICES ASSUME ~putback[k]
               PROVE  /\ \A i, j \in DOMAIN posts'[k] :
                            i < j => posts'[k][i].event < posts'[k][j].event
                      /\ \A i, j \in DOMAIN queue'[k] : i < j => queue'[k][i] < queue'[k][j]
                      /\ \A i \in DOMAIN posts'[k], j \in DOMAIN queue'[k] :
                            posts'[k][i].event < queue'[k][j]
      BY <1>1 DEF KOrder
  <2>1. \A i, j \in 1..n : i < j => posts[k][i].event < posts[k][j].event
      BY <1>8 DEF KInv, KOrder
  <2>2. \A i, j \in DOMAIN posts'[k] : i < j => posts'[k][i].event < posts'[k][j].event
      BY <2>1, <1>8, <1>9, <1>10, <1>11, <1>12
  <2>3. \A i \in DOMAIN posts'[k], j \in DOMAIN queue'[k] : posts'[k][i].event < queue'[k][j]
      BY <1>8, <1>9, <1>10, <1>11
  <2> QED BY <2>2, <2>3, <1>10
<1>v. KConserve(k)'
  <2> SUFFICES ASSUME NEW e \in Events(k) PROVE
            Posted(k, e)' \/ Kept(k, e)' \/ InFlight(k, e)' \/ (e \in lost[k] \cup overtaken[k])'
      BY <1>1 DEF KConserve, Events, SameCounts
  <2>1. Posted(k, e) => Posted(k, e)'
      BY <1>8, <1>9, <1>13 DEF Posted
  <2>2. e = h => InFlight(k, e)'
      BY <1>9, <1>f DEF InFlight
  <2>3. (\E i \in rest : posts[k][i].event = e) => InFlight(k, e)'
      BY <1>9, <1>f, <1>r DEF InFlight
  <2>4. Queued(k, e)' => Kept(k, e)'
      BY DEF Kept
  <2> QED BY <2>1, <2>2, <2>3, <2>4, <1>10
<1> QED BY <1>k, <1>a, <1>c, <1>o, <1>v DEF KInv

(* The event that the loop took did not pass the validation. *)
LEMMA DropsKeeps ==
    ASSUME Types, Flags, NEW k \in Kinds, KInv(k), NEW rest, Drops(k, rest),
           enabled' = enabled, ever' = ever
    PROVE  KInv(k)'
<1>0. /\ made[k] \in Nat /\ timers[k] \in Nat /\ failures[k] \in Nat /\ closes \in Nat
      /\ NPosts(k) \in Nat /\ NQueue(k) \in Nat
    BY KTypes
<1>1. /\ Takes(k, rest) /\ Remains(k, rest) /\ is_running'[k] = FALSE /\ posts'[k] = posts[k]
      /\ flight'[k] = rest /\ handle'[k] \in {0, handle[k]}
      /\ Head(queue[k]) \in lost'[k] /\ NPosts(k)' = NPosts(k)
    BY DEF Drops, Takes, NPosts
<1>2. /\ Head(queue[k]) \in Events(k) /\ last'[k] = Head(queue[k]) /\ SameCounts(k)
      /\ timers'[k] = timers[k] /\ putback'[k] = putback[k]
      /\ NQueue(k)' = NQueue(k) - 1
      /\ \A i \in DOMAIN queue'[k] : queue'[k][i] \in Events(k)
    BY <1>1, TakesFacts
<1>3. /\ KFlight(k)'
      /\ flight'[k] \subseteq DOMAIN posts'[k] /\ strays'[k] \subseteq DOMAIN posts'[k]
      /\ handle'[k] # 0 => handle'[k] \in DOMAIN posts'[k]
    BY <1>1, RestFlight
<1>4. KType(k)'
    BY <1>1, <1>2, <1>3 DEF KInv, KType, Events, SameCounts
<1>5. KCount(k)'
    BY <1>0, <1>1, <1>2 DEF KInv, KCount, SameCounts
<1>6. KOrder(k)'
    BY <1>1, <1>2, TakesFacts DEF KInv, KOrder
<1>7. KConserve(k)'
  <2> SUFFICES ASSUME NEW e \in Events(k) PROVE
            Posted(k, e)' \/ Kept(k, e)' \/ InFlight(k, e)' \/ (e \in lost[k] \cup overtaken[k])'
      BY <1>2 DEF KConserve, Events, SameCounts
  <2>1. Posted(k, e) => Posted(k, e)'
      BY <1>1 DEF Posted
  <2>2. (\E i \in rest : posts[k][i].event = e) => InFlight(k, e)'
      BY <1>1 DEF InFlight
  <2>3. Queued(k, e)' => Kept(k, e)'
      BY DEF Kept
  <2>4. \/ Posted(k, e) \/ e = Head(queue[k]) \/ Queued(k, e)'
        \/ \E i \in rest : posts[k][i].event = e
        \/ e \in lost'[k] \cup overtaken'[k]
      BY <1>1, TakesFacts
  <2> QED BY <2>1, <2>2, <2>3, <2>4, <1>1
<1> QED BY <1>3, <1>4, <1>5, <1>6, <1>7 DEF KInv

(* One turn of the loop does one of four things to each kind. *)
LEMMA LoopCases ==
    ASSUME Types, Flags, NEW k \in Kinds, NEW late \in SUBSET Kinds, NEW valid \in BOOLEAN,
           event_loop(late, valid)
    PROVE  \/ Same(k)
           \/ \E rest : GivesUp(k, rest) \/ Sends(k, rest) \/ Drops(k, rest)
<1> DEFINE fires == Fires(late)
           sends == IF valid THEN fires ELSE fires \ {"event"}
           rest == IF k \in late THEN flight[k] \ {handle[k]} ELSE flight[k]
<1>f. sends \subseteq fires
    OBVIOUS
<1>l. k \in late => is_running[k] /\ handle[k] # 0
    BY DEF event_loop, MayBeLate
<1>e. k \in fires <=> (k \in late \/ ~is_running[k]) /\ queue[k] # << >>
    BY DEF Fires
<1>1. SameCounts(k) /\ timers'[k] = timers[k] /\ putback'[k] = putback[k]
    BY DEF event_loop, SameCounts
<1>2. /\ queue'[k] = IF k \in fires THEN Tail(queue[k]) ELSE queue[k]
      /\ last'[k] = IF k \in fires THEN Head(queue[k]) ELSE last[k]
      /\ posts'[k] = IF k \in sends
                     THEN Append(posts[k], [event |-> Head(queue[k]), way |-> Way, served |-> FALSE])
                     ELSE posts[k]
    BY DEF event_loop
<1>h. handle'[k] = CASE k \in sends /\ ~enabled -> Len(posts[k]) + 1
                     [] k \in late /\ ~(k \in sends /\ ~enabled) -> 0
                     [] OTHER -> handle[k]
    BY DEF event_loop
<1>g. /\ flight'[k] = IF k \in sends THEN rest \cup {Len(posts[k]) + 1} ELSE rest
      /\ strays'[k] = IF k \in late THEN strays[k] \cup rest ELSE strays[k]
    BY DEF event_loop
<1>3. is_running'[k] = (k \in sends \/ (is_running[k] /\ k \notin late))
    BY DEF event_loop
<1>4. /\ lost'[k] = lost[k] \cup (IF k \in late /\ ~Kept(k, last[k]) THEN {last[k]} ELSE {})
                     \cup (IF k \in fires \ sends THEN {Head(queue[k])} ELSE {})
      /\ overtaken'[k] = IF k \in fires /\ timers[k] > 0 /\ Head(queue[k]) # last[k]
                         THEN overtaken[k] \cup {last[k]} ELSE overtaken[k]
    BY DEF event_loop
<1>b. is_running[k] \in BOOLEAN /\ enabled \in BOOLEAN
    BY DEF Flags
<1> HIDE DEF fires, sends
<1>5. ASSUME k \in late \/ ~is_running[k] PROVE Remains(k, rest)
  <2>1. lost[k] \subseteq lost'[k] /\ overtaken[k] \subseteq overtaken'[k]
      BY <1>4
  <2>2. CASE k \in late
    <3>1. Kept(k, last[k]) \/ last[k] \in lost'[k]
        BY <2>2, <1>4
    <3>2. rest = flight[k] \ {handle[k]} /\ strays'[k] = strays[k] \cup rest
        BY <2>2, <1>g
    <3> HIDE DEF rest
    <3> QED BY <2>1, <2>2, <3>1, <3>2, <1>1, <1>l DEF Remains
  <2>3. CASE k \notin late
    <3>1. rest = flight[k] /\ strays'[k] = strays[k] /\ ~is_running[k]
        BY <2>3, <1>5, <1>g
    <3> HIDE DEF rest
    <3> QED BY <2>1, <3>1, <1>1 DEF Remains
  <2> QED BY <2>2, <2>3
<1>6. CASE k \in fires
  <2>1. Takes(k, rest)
    <3>1. queue[k] # << >> /\ queue'[k] = Tail(queue[k]) /\ last'[k] = Head(queue[k])
        BY <1>6, <1>e, <1>2
    <3>2. timers[k] > 0 => Head(queue[k]) = last[k] \/ last[k] \in overtaken'[k]
        BY <1>6, <1>4
    <3>3. Remains(k, rest)
        BY <1>5, <1>6, <1>e
    <3> HIDE DEF rest
    <3> QED BY <3>1, <3>2, <3>3 DEF Takes
  <2>2. CASE k \in sends
    <3>1. is_running'[k] = TRUE
        BY <2>2, <1>3
    <3>2. /\ posts'[k] = Append(posts[k], [event |-> Head(queue[k]), way |-> Way, served |-> FALSE])
          /\ flight'[k] = rest \cup {Len(posts[k]) + 1}
        BY <2>2, <1>2, <1>g
    <3>3. IF enabled THEN handle'[k] \in {0, handle[k]} ELSE handle'[k] = Len(posts[k]) + 1
      <4>1. CASE enabled /\ k \in late
          BY <4>1, <1>h
      <4>2. CASE enabled /\ k \notin late
          BY <4>2, <1>h
      <4>3. CASE ~enabled
          BY <4>3, <2>2, <1>h
      <4> QED BY <4>1, <4>2, <4>3, <1>b
    <3> HIDE DEF rest
    <3>4. Sends(k, rest)
        BY <2>1, <3>1, <3>2, <3>3 DEF Sends
    <3> QED BY <3>4
  <2>3. CASE k \notin sends
    <3>1. is_running'[k] = FALSE
        BY <2>3, <1>3, <1>6, <1>e, <1>b
    <3>2. flight'[k] = rest /\ posts'[k] = posts[k]
        BY <2>3, <1>2, <1>g
    <3>3. Head(queue[k]) \in lost'[k]
        BY <2>3, <1>6, <1>4
    <3>4. handle'[k] \in {0, handle[k]}
      <4>1. CASE k \in late
          BY <4>1, <2>3, <1>h
      <4>2. CASE k \notin late
          BY <4>2, <2>3, <1>h
      <4> QED BY <4>1, <4>2
    <3> HIDE DEF rest
    <3>5. Drops(k, rest)
        BY <2>1, <3>1, <3>2, <3>3, <3>4 DEF Drops
    <3> QED BY <3>5
  <2> QED BY <2>2, <2>3
<1>7. CASE k \notin fires
  <2>1. k \notin sends
      BY <1>7, <1>f DEF fires, sends
  <2>2. queue'[k] = queue[k] /\ last'[k] = last[k] /\ posts'[k] = posts[k]
        /\ overtaken'[k] = overtaken[k] /\ flight'[k] = rest
      BY <1>7, <2>1, <1>2, <1>4, <1>g
  <2>3. CASE k \in late
    <3>1. is_running'[k] = FALSE
        BY <2>1, <2>3, <1>3
    <3>2. handle'[k] = 0
        BY <2>1, <2>3, <1>h
    <3>3. Remains(k, rest)
        BY <2>3, <1>5
    <3> HIDE DEF rest
    <3>4. GivesUp(k, rest)
        BY <3>1, <3>2, <3>3, <2>2 DEF GivesUp
    <3> QED BY <3>4
  <2>4. CASE k \notin late
    <3>1. is_running'[k] = is_running[k]
        BY <2>1, <2>4, <1>3, <1>b
    <3>2. handle'[k] = handle[k]
        BY <2>1, <2>4, <1>h
    <3>3. lost'[k] = lost[k] /\ flight'[k] = flight[k] /\ strays'[k] = strays[k]
        BY <1>7, <2>1, <2>4, <1>4, <1>g
    <3> QED BY <3>1, <3>2, <3>3, <2>2, <1>1 DEF Same, SameRun, SameFate
  <2> QED BY <2>3, <2>4
<1> QED BY <1>6, <1>7

LEMMA InitIInv == Init => IInv
<1> SUFFICES ASSUME Init PROVE IInv
    OBVIOUS
<1>1. Types
    BY DEF Init, Types
<1>2. Flags
    BY DEF Init, Flags
<1>3. ASSUME NEW k \in Kinds PROVE KInv(k)
  <2>1. /\ queue[k] = << >> /\ posts[k] = << >> /\ timers[k] = 0 /\ made[k] = 0
        /\ failures[k] = 0 /\ closes = 0 /\ is_running[k] = FALSE /\ handle[k] = 0
        /\ flight[k] = {} /\ strays[k] = {}
      BY <1>3 DEF Init
  <2>2. KType(k) /\ KOrder(k) /\ KConserve(k)
      BY <2>1 DEF KType, KOrder, KConserve, Events
  <2>3. KCount(k)
      BY <2>1 DEF KCount, NPosts, NQueue
  <2>4. KFlight(k)
      BY <2>1 DEF KFlight
  <2> QED BY <2>2, <2>3, <2>4 DEF KInv
<1> QED BY <1>1, <1>2, <1>3 DEF IInv

(* The types, for a turn of the loop. *)
LEMMA LoopTypes ==
    ASSUME Types, Flags, NEW late \in SUBSET Kinds, NEW valid \in BOOLEAN, event_loop(late, valid)
    PROVE  Types' /\ Flags'
<1> DEFINE fires == Fires(late)
           sends == IF valid THEN fires ELSE fires \ {"event"}
           rest(k) == IF k \in late THEN flight[k] \ {handle[k]} ELSE flight[k]
           new(k) == [event |-> Head(queue[k]), way |-> Way, served |-> FALSE]
<1>1. fires \subseteq Kinds /\ sends \subseteq fires /\ \A k \in fires : queue[k] # << >>
    BY DEF Fires
<1>2. ASSUME NEW k \in Kinds, queue[k] # << >>
      PROVE  /\ Tail(queue[k]) \in Seq(Nat) /\ Head(queue[k]) \in Nat
             /\ Append(posts[k], new(k)) \in Seq(Post)
  <2>1. queue[k] \in Seq(Nat) /\ posts[k] \in Seq(Post)
      BY KTypes
  <2>2. Tail(queue[k]) \in Seq(Nat) /\ Head(queue[k]) \in Nat
      BY <1>2, <2>1, TailFacts
  <2>3. new(k) \in Post
      BY <2>2, WayFacts DEF Post
  <2> HIDE DEF new
  <2> QED BY <2>1, <2>2, <2>3, AppendFacts
<1>3. \A k \in Kinds : Len(posts[k]) + 1 \in Nat
  <2>1. ASSUME NEW k \in Kinds PROVE NPosts(k) + 1 \in Nat
      BY <2>1, KTypes
  <2> QED BY <2>1 DEF NPosts
<1>4. /\ queue' = [k \in Kinds |-> IF k \in fires THEN Tail(queue[k]) ELSE queue[k]]
      /\ last' = [k \in Kinds |-> IF k \in fires THEN Head(queue[k]) ELSE last[k]]
      /\ posts' = [k \in Kinds |-> IF k \in sends THEN Append(posts[k], new(k)) ELSE posts[k]]
    BY DEF event_loop
<1>h. handle' = [k \in Kinds |-> CASE k \in sends /\ ~enabled -> Len(posts[k]) + 1
                                   [] k \in late /\ ~(k \in sends /\ ~enabled) -> 0
                                   [] OTHER -> handle[k]]
    BY DEF event_loop
<1>g. /\ flight' = [k \in Kinds |->
                      IF k \in sends THEN rest(k) \cup {Len(posts[k]) + 1} ELSE rest(k)]
      /\ strays' = [k \in Kinds |-> IF k \in late THEN strays[k] \cup rest(k) ELSE strays[k]]
    BY DEF event_loop
<1>l. /\ lost' = [k \in Kinds |-> lost[k]
                      \cup (IF k \in late /\ ~Kept(k, last[k]) THEN {last[k]} ELSE {})
                      \cup (IF k \in fires \ sends THEN {Head(queue[k])} ELSE {})]
      /\ overtaken' = [k \in Kinds |->
                          IF k \in fires /\ timers[k] > 0 /\ Head(queue[k]) # last[k]
                          THEN overtaken[k] \cup {last[k]} ELSE overtaken[k]]
    BY DEF event_loop
<1>5. /\ is_running' = [k \in Kinds |-> k \in sends \/ (is_running[k] /\ k \notin late)]
      /\ looping' = ~LoopStops(queue') /\ going_away' = going_away
      /\ enabled' = enabled /\ ever' = ever /\ putback' = putback
    BY DEF event_loop, socket
<1>6. /\ made' = made /\ failures' = failures /\ timers' = timers /\ closes' = closes
      /\ websocket' = websocket
    BY DEF event_loop, socket
<1>r. \A k \in Kinds : rest(k) \subseteq Nat
    BY DEF Types
<1> HIDE DEF fires, sends, rest, new
<1>7. queue' \in [Kinds -> Seq(Nat)]
    BY <1>1, <1>2, <1>4, KTypes
<1>8. last' \in [Kinds -> Nat]
    BY <1>1, <1>2, <1>4 DEF Types
<1>9. handle' \in [Kinds -> Nat]
    BY <1>3, <1>h DEF Types
<1>10. posts' \in [Kinds -> Seq(Post)]
    BY <1>1, <1>2, <1>4, KTypes
<1>11. lost' \in [Kinds -> SUBSET Nat]
    BY <1>1, <1>2, <1>l DEF Types
<1>12. overtaken' \in [Kinds -> SUBSET Nat]
    BY <1>l DEF Types
<1>s. flight' \in [Kinds -> SUBSET Nat] /\ strays' \in [Kinds -> SUBSET Nat]
    BY <1>3, <1>g, <1>r DEF Types
<1>13. Types'
    BY <1>6, <1>7, <1>8, <1>9, <1>10, <1>11, <1>12, <1>s DEF Types
<1>14. Flags'
  <2>1. is_running' \in [Kinds -> BOOLEAN]
      BY <1>5, Zenon
  <2>2. looping' \in BOOLEAN
      BY <1>5, Zenon
  <2> QED BY <2>1, <2>2, <1>5 DEF Flags
<1> QED BY <1>13, <1>14

(* Putting an event back keeps the type of its queue. *)
LEMMA PrependTypes ==
    ASSUME Types, NEW k \in Kinds, NEW n \in {1, 2}
    PROVE  Copies(last[k], n) \o queue[k] \in Seq(Nat)
<1>1. queue[k] \in Seq(Nat) /\ last[k] \in Nat
    BY KTypes
<1>2. <<last[k]>> \o queue[k] \in Seq(Nat) /\ <<last[k], last[k]>> \o queue[k] \in Seq(Nat)
    BY <1>1, ConsFacts, Cons2Facts
<1> QED BY <1>2 DEF Copies

(* Clearing a flag. *)
LEMMA ClearFacts ==
    ASSUME Types, Flags, NEW k \in Kinds, NEW i, Clear(k, i)
    PROVE  /\ is_running' \in [Kinds -> BOOLEAN] /\ handle' \in [Kinds -> Nat]
           /\ flight' \in [Kinds -> SUBSET Nat] /\ strays' \in [Kinds -> SUBSET Nat]
           /\ is_running'[k] = FALSE
           /\ flight'[k] = flight[k] \ {i} /\ strays'[k] = strays[k] \cup (flight[k] \ {i})
           /\ k = "system" => handle'[k] = 0
           /\ k # "system" => handle'[k] = handle[k]
           /\ \A q \in Kinds \ {k} :
                /\ is_running'[q] = is_running[q] /\ handle'[q] = handle[q]
                /\ flight'[q] = flight[q] /\ strays'[q] = strays[q]
<1>1. /\ is_running' = [is_running EXCEPT ![k] = FALSE]
      /\ handle' = IF k = "system" THEN [handle EXCEPT ![k] = 0] ELSE handle
      /\ flight' = [flight EXCEPT ![k] = @ \ {i}]
      /\ strays' = [strays EXCEPT ![k] = @ \cup (flight[k] \ {i})]
    BY DEF Clear
<1>2. /\ handle \in [Kinds -> Nat] /\ flight \in [Kinds -> SUBSET Nat]
      /\ strays \in [Kinds -> SUBSET Nat] /\ is_running \in [Kinds -> BOOLEAN]
    BY DEF Types, Flags
<1>3. is_running' \in [Kinds -> BOOLEAN] /\ is_running'[k] = FALSE
      /\ \A q \in Kinds \ {k} : is_running'[q] = is_running[q]
    BY ONLY <1>1, <1>2, k \in Kinds
<1>4. /\ handle' \in [Kinds -> Nat]
      /\ k = "system" => handle'[k] = 0
      /\ k # "system" => handle'[k] = handle[k]
      /\ \A q \in Kinds \ {k} : handle'[q] = handle[q]
    BY ONLY <1>1, <1>2, k \in Kinds
<1>5. /\ flight' \in [Kinds -> SUBSET Nat] /\ flight'[k] = flight[k] \ {i}
      /\ \A q \in Kinds \ {k} : flight'[q] = flight[q]
    BY ONLY <1>1, <1>2, k \in Kinds
<1>6. /\ strays' \in [Kinds -> SUBSET Nat] /\ strays'[k] = strays[k] \cup (flight[k] \ {i})
      /\ \A q \in Kinds \ {k} : strays'[q] = strays[q]
    BY ONLY <1>1, <1>2, k \in Kinds
<1> QED BY <1>3, <1>4, <1>5, <1>6

(* The inductive step. *)
LEMMA NextIInv == IInv /\ [Next]_vars => IInv'
<1> SUFFICES ASSUME IInv, [Next]_vars PROVE IInv'
    OBVIOUS
<1>0. Types /\ Flags /\ \A k \in Kinds : KInv(k)
    BY DEF IInv
<1>k. Kinds = {"event", "system"}
    BY DEF Kinds
<1>1. ASSUME NEW k \in Kinds, queue_event(k) PROVE IInv'
  <2> USE DEF run, page, socket, fate
  <2>1. Types'
    <3>1. Append(queue[k], made[k] + 1) \in Seq(Nat) /\ made[k] + 1 \in Nat
      <4>1. queue[k] \in Seq(Nat) /\ made[k] + 1 \in Nat
          BY <1>0, KTypes
      <4> QED BY <4>1, AppendFacts
    <3> QED BY <1>0, <1>1, <3>1 DEF Types, queue_event
  <2>2. Flags'
      BY <1>0, <1>1 DEF Flags, queue_event
  <2>3. ASSUME NEW q \in Kinds PROVE KInv(q)'
    <3>0. Socket
        BY <1>1 DEF queue_event, Socket
    <3>1. CASE q = k
      <4>1. Queues(k)
          BY <1>0, <1>1 DEF queue_event, Queues, SameRun, SameFate, Types
      <4> QED BY <1>0, <3>0, <3>1, <4>1, QueuesKeeps
    <3>2. CASE q # k
      <4>1. Same(q)
          BY <1>0, <1>1, <2>3, <3>2
          DEF queue_event, Same, SameRun, SameFate, SameCounts, Types
      <4> QED BY <1>0, <3>0, <2>3, <4>1, SameKeeps
    <3> QED BY <3>1, <3>2
  <2> QED BY <2>1, <2>2, <2>3 DEF IInv
<1>2. ASSUME NEW k \in Kinds, NEW i \in DOMAIN posts[k], Serve(k, i) PROVE IInv'
  <2> USE DEF run, page, socket, fate
  <2>1. Types'
    <3>1. [posts[k] EXCEPT ![i].served = TRUE] \in Seq(Post)
      <4>1. posts[k] \in Seq(Post)
          BY <1>0, KTypes
      <4>2. posts[k][i] \in Post
          BY <1>2, <4>1, SeqFacts
      <4>3. [posts[k][i] EXCEPT !.served = TRUE] \in Post
          BY <4>2 DEF Post
      <4> QED BY <1>2, <4>1, <4>3, ExceptFacts
    <3> QED BY <1>0, <1>2, <3>1 DEF Types, Serve
  <2>2. Flags'
      BY <1>0, <1>2 DEF Flags, Serve
  <2>3. ASSUME NEW q \in Kinds PROVE KInv(q)'
    <3>0. Socket
        BY <1>2 DEF Serve, Socket
    <3>1. CASE q = k
      <4>1. Serves(k, i)
          BY <1>0, <1>2 DEF Serve, Serves, SameRun, SameFate, SameCounts, Types
      <4> QED BY <1>0, <3>0, <3>1, <4>1, ServesKeeps
    <3>2. CASE q # k
      <4>1. Same(q)
          BY <1>0, <1>2, <2>3, <3>2 DEF Serve, Same, SameRun, SameFate, SameCounts, Types
      <4> QED BY <1>0, <3>0, <2>3, <4>1, SameKeeps
    <3> QED BY <3>1, <3>2
  <2> QED BY <2>1, <2>2, <2>3 DEF IInv
<1>3. ASSUME NEW k \in Kinds, NEW i \in DOMAIN posts[k], event_success(k, i) PROVE IInv'
  <2>0. /\ Clear(k, i) /\ i \in flight[k] /\ posts[k][i].served
        /\ UNCHANGED <<queue, last, timers, going_away, looping, websocket, enabled, ever, posts,
                       made, failures, closes, putback, lost, overtaken>>
      BY <1>3 DEF event_success, socket
  <2>1. Types'
      BY <1>0, <2>0, ClearFacts DEF Types
  <2>2. Flags'
      BY <1>0, <2>0, ClearFacts DEF Flags
  <2>3. ASSUME NEW q \in Kinds PROVE KInv(q)'
    <3>0. Socket
        BY <2>0 DEF Socket
    <3>1. CASE q = k
      <4>1. Cleared(k, i)
          BY <1>0, <1>k, <2>0, ClearFacts DEF Cleared
      <4>2. Succeeds(k, i)
          BY <2>0, <4>1 DEF Succeeds, SameFate, SameCounts
      <4> QED BY <1>0, <3>0, <3>1, <4>2, SucceedsKeeps
    <3>2. CASE q # k
      <4>0. /\ handle'[q] = handle[q] /\ flight'[q] = flight[q] /\ strays'[q] = strays[q]
            /\ is_running'[q] = is_running[q]
        <5>1. Clear(k, i)
            BY <2>0
        <5> QED BY <1>0, <2>3, <3>2, <5>1, ClearFacts
      <4>1. Same(q)
          BY <2>0, <4>0 DEF Same, SameRun, SameFate, SameCounts
      <4> QED BY <1>0, <3>0, <2>3, <4>1, SameKeeps
    <3> QED BY <3>1, <3>2
  <2> QED BY <2>1, <2>2, <2>3 DEF IInv
<1>4. ASSUME NEW k \in Kinds, NEW i \in DOMAIN posts[k], event_error(k, i) PROVE IInv'
  <2>0. /\ Clear(k, i) /\ i \in flight[k]
        /\ failures' = [failures EXCEPT ![k] = @ + 1]
        /\ timers' = [timers EXCEPT ![k] = @ + 1]
        /\ overtaken' = IF posts[k][i].event = last[k] THEN overtaken
                        ELSE [overtaken EXCEPT ![k] = @ \cup {posts[k][i].event}]
        /\ UNCHANGED <<queue, last, going_away, looping, websocket, enabled, ever, posts,
                       made, closes, putback, lost>>
      BY <1>4 DEF event_error, socket
  <2>e. posts[k][i].event \in Nat
    <3>1. posts[k] \in Seq(Post)
        BY <1>0, KTypes
    <3>2. posts[k][i] \in Post
        BY <3>1, <1>4, SeqFacts
    <3> QED BY <3>2 DEF Post
  <2>o. overtaken' \in [Kinds -> SUBSET Nat] /\ \A q \in Kinds \ {k} : overtaken'[q] = overtaken[q]
        /\ overtaken[k] \subseteq overtaken'[k]
        /\ (posts[k][i].event = last[k] \/ posts[k][i].event \in overtaken'[k])
    <3>1. overtaken \in [Kinds -> SUBSET Nat]
        BY <1>0 DEF Types
    <3> QED BY <2>0, <2>e, <3>1
  <2>1. Types'
    <3>1. failures' \in [Kinds -> Nat] /\ timers' \in [Kinds -> Nat]
        BY <1>0, <2>0 DEF Types
    <3>2. /\ handle' \in [Kinds -> Nat]
          /\ flight' \in [Kinds -> SUBSET Nat] /\ strays' \in [Kinds -> SUBSET Nat]
        BY <1>0, <2>0, ClearFacts
    <3> QED BY <1>0, <2>0, <2>o, <3>1, <3>2 DEF Types
  <2>2. Flags'
      BY <1>0, <2>0, ClearFacts DEF Flags
  <2>3. ASSUME NEW q \in Kinds PROVE KInv(q)'
    <3>0. Socket
        BY <2>0 DEF Socket
    <3>t. timers \in [Kinds -> Nat] /\ failures \in [Kinds -> Nat]
        BY <1>0 DEF Types
    <3>1. CASE q = k
      <4>1. Cleared(k, i)
          BY <1>0, <1>k, <2>0, ClearFacts DEF Cleared
      <4>2. Fails(k, i)
          BY <2>0, <2>o, <3>t, <4>1 DEF Fails
      <4> QED BY <1>0, <3>0, <3>1, <4>2, FailsKeeps
    <3>2. CASE q # k
      <4>0. /\ handle'[q] = handle[q] /\ flight'[q] = flight[q] /\ strays'[q] = strays[q]
            /\ is_running'[q] = is_running[q]
        <5>1. Clear(k, i)
            BY <2>0
        <5> QED BY <1>0, <2>3, <3>2, <5>1, ClearFacts
      <4>2. overtaken'[q] = overtaken[q] /\ timers'[q] = timers[q] /\ failures'[q] = failures[q]
          BY <2>0, <2>3, <2>o, <3>2, <3>t
      <4>1. Same(q)
          BY <2>0, <4>0, <4>2 DEF Same, SameRun, SameFate, SameCounts
      <4> QED BY <1>0, <3>0, <2>3, <4>1, SameKeeps
    <3> QED BY <3>1, <3>2
  <2> QED BY <2>1, <2>2, <2>3 DEF IInv
<1>5. ASSUME NEW k \in Kinds, requeue_last_event(k) PROVE IInv'
  <2> USE DEF run, page, socket, fate
  <2>1. Types'
    <3>1. <<last[k]>> \o queue[k] \in Seq(Nat)
        BY <1>0, PrependTypes DEF Copies
    <3>2. timers[k] - 1 \in Nat
      <4>1. timers[k] > 0 /\ timers[k] \in Nat
          BY <1>0, <1>5, KTypes DEF requeue_last_event
      <4> QED BY <4>1
    <3>3. queue' \in [Kinds -> Seq(Nat)]
        BY <1>0, <1>5, <3>1 DEF Types, requeue_last_event
    <3>4. timers' \in [Kinds -> Nat]
        BY <1>0, <1>5, <3>2 DEF Types, requeue_last_event
    <3> QED BY <1>0, <1>5, <3>3, <3>4 DEF Types, requeue_last_event
  <2>2. Flags'
      BY <1>0, <1>5 DEF Flags, requeue_last_event
  <2>3. ASSUME NEW q \in Kinds PROVE KInv(q)'
    <3>0. Socket
        BY <1>5 DEF requeue_last_event, Socket
    <3>p. putback'[k] = TRUE /\ \A m \in Kinds \ {k} : putback'[m] = putback[m]
        BY <1>0, <1>5 DEF requeue_last_event, Flags
    <3>1. CASE q = k
      <4>1. PutsBack(k)
          BY <1>0, <1>5, <3>p DEF requeue_last_event, PutsBack, SameRun, SameFate, SameCounts, Types
      <4> QED BY <1>0, <3>0, <3>1, <4>1, PutsBackKeeps
    <3>2. CASE q # k
      <4>1. Same(q)
          BY <1>0, <1>5, <2>3, <3>2, <3>p
          DEF requeue_last_event, Same, SameRun, SameFate, SameCounts, Types
      <4> QED BY <1>0, <3>0, <2>3, <4>1, SameKeeps
    <3> QED BY <3>1, <3>2
  <2> QED BY <2>1, <2>2, <2>3 DEF IInv
<1>6. ASSUME NEW late \in SUBSET MayBeLate, NEW valid \in BOOLEAN, event_loop(late, valid) PROVE IInv'
  <2>0. late \in SUBSET Kinds
      BY DEF MayBeLate
  <2>1. Types' /\ Flags'
      BY <1>0, <1>6, <2>0, LoopTypes
  <2>2. ASSUME NEW q \in Kinds PROVE KInv(q)'
    <3>0. enabled' = enabled /\ ever' = ever /\ closes' = closes
        BY <1>6 DEF event_loop, socket
    <3>s. Socket
        BY <3>0 DEF Socket
    <3>1. Same(q) \/ \E rest : GivesUp(q, rest) \/ Sends(q, rest) \/ Drops(q, rest)
        BY <1>0, <1>6, <2>0, <2>2, LoopCases
    <3>2. CASE Same(q)
        BY <1>0, <2>2, <3>s, <3>2, SameKeeps
    <3>3. ASSUME NEW rest, GivesUp(q, rest) \/ Sends(q, rest) \/ Drops(q, rest) PROVE KInv(q)'
        BY <1>0, <2>2, <3>0, <3>3, GivesUpKeeps, SendsKeeps, DropsKeeps
    <3> QED BY <3>1, <3>2, <3>3
  <2> QED BY <2>1, <2>2 DEF IInv
<1>7. CASE ws_init \/ ws_open \/ UNCHANGED vars
  <2> USE DEF run, page, fate
  <2>0. /\ websocket' \in {"connecting", "open", "closing", "waiting", "closed"}
        /\ UNCHANGED <<queue, run, timers, page, enabled, ever, posts, flight,
                       made, failures, closes, putback, fate>>
    <3>1. CASE ws_init
        BY <3>1 DEF ws_init
    <3>2. CASE ws_open
        BY <3>2 DEF ws_open
    <3>3. CASE UNCHANGED vars
        BY <1>0, <3>3 DEF vars, socket, Types
    <3> QED BY <1>7, <3>1, <3>2, <3>3
  <2>1. Types'
      BY <1>0, <2>0 DEF Types
  <2>2. Flags'
      BY <1>0, <2>0 DEF Flags
  <2>3. ASSUME NEW q \in Kinds PROVE KInv(q)'
    <3>1. Same(q) /\ Socket
        BY <2>0 DEF Same, SameRun, SameFate, SameCounts, Socket
    <3> QED BY <1>0, <2>3, <3>1, SameKeeps
  <2> QED BY <2>1, <2>2, <2>3 DEF IInv
<1>8. CASE ws_push
  <2>0. /\ Clear("system", 0) /\ "system" \in Kinds
        /\ UNCHANGED <<queue, last, timers, going_away, looping, websocket, posts,
                       made, failures, closes, putback, lost, overtaken>>
      BY <1>8, <1>k DEF ws_push
  <2>b. enabled' = TRUE /\ ever' = TRUE
      BY <1>8 DEF ws_push
  <2>1. Types'
      BY <1>0, <2>0, ClearFacts DEF Types
  <2>2. Flags'
      BY <1>0, <2>0, <2>b, ClearFacts DEF Flags
  <2>3. ASSUME NEW q \in Kinds PROVE KInv(q)'
    <3>0. Socket
        BY <2>0, <2>b DEF Socket
    <3>1. CASE q = "system"
      <4>1. Cleared("system", 0)
          BY <1>0, <2>0, <2>b, ClearFacts DEF Cleared
      <4>2. 0 \notin flight["system"]
        <5>1. flight["system"] \subseteq DOMAIN posts["system"]
            BY <1>0, <2>0 DEF KInv, KType
        <5>2. DOMAIN posts["system"] = 1..NPosts("system") /\ NPosts("system") \in Nat
            BY <1>0, <2>0, KTypes
        <5> QED BY <5>1, <5>2
      <4>3. Succeeds("system", 0)
          BY <2>0, <4>1, <4>2 DEF Succeeds, SameFate, SameCounts
      <4> QED BY <1>0, <2>0, <3>0, <3>1, <4>3, SucceedsKeeps
    <3>2. CASE q # "system"
      <4>1. Same(q)
          BY <1>0, <2>0, <2>3, <3>2, ClearFacts DEF Same, SameRun, SameFate, SameCounts
      <4> QED BY <1>0, <3>0, <2>3, <4>1, SameKeeps
    <3> QED BY <3>1, <3>2
  <2> QED BY <2>1, <2>2, <2>3 DEF IInv
<1>9. ASSUME NEW calls \in {1, 2}, ws_close(calls) PROVE IInv'
  <2>0. /\ queue' = [k \in Kinds |->
                        IF is_running[k] THEN Copies(last[k], calls) \o queue[k] ELSE queue[k]]
        /\ flight' = [k \in Kinds |-> flight[k] \ OnSocket(k)]
        /\ lost' = [k \in Kinds |-> lost[k] \cup
                        {e \in {posts[k][i].event : i \in OnSocket(k)} :
                            ~Kept(k, e) /\ ~(is_running[k] /\ last[k] = e)}]
        /\ UNCHANGED <<run, timers, going_away, looping, ever, posts, made, failures,
                       strays, overtaken>>
        /\ closes' = closes + calls
        /\ websocket' \in {"waiting", "closed"}
      BY <1>9 DEF ws_close
  <2>b. enabled' = FALSE /\ putback' = [k \in Kinds |-> putback[k] \/ is_running[k]]
      BY <1>9 DEF ws_close
  <2>1. Types'
    <3>1. \A k \in Kinds : Copies(last[k], calls) \o queue[k] \in Seq(Nat) /\ queue[k] \in Seq(Nat)
        BY <1>0, PrependTypes, KTypes
    <3>2. queue' \in [Kinds -> Seq(Nat)]
        BY <2>0, <3>1
    <3>3. flight' \in [Kinds -> SUBSET Nat]
        BY <1>0, <2>0 DEF Types
    <3>4. lost' \in [Kinds -> SUBSET Nat]
      <4>1. ASSUME NEW k \in Kinds PROVE \A i \in OnSocket(k) : posts[k][i].event \in Nat
        <5>1. posts[k] \in Seq(Post) /\ OnSocket(k) \subseteq DOMAIN posts[k]
            BY <1>0, <4>1, KTypes DEF KInv, KType, OnSocket
        <5>2. \A i \in DOMAIN posts[k] : posts[k][i] \in Post
            BY <5>1, SeqFacts
        <5> QED BY <5>1, <5>2 DEF Post
      <4>2. lost \in [Kinds -> SUBSET Nat]
          BY <1>0 DEF Types
      <4>3. ASSUME NEW k \in Kinds
            PROVE  {posts[k][i].event : i \in OnSocket(k)} \subseteq Nat
          BY <4>1, <4>3
      <4>4. \A k \in Kinds : lost'[k] \subseteq Nat
        <5>1. ASSUME NEW k \in Kinds PROVE lost'[k] \subseteq Nat
          <6>1. lost'[k] \subseteq lost[k] \cup {posts[k][i].event : i \in OnSocket(k)}
              BY <2>0, <5>1
          <6>2. {posts[k][i].event : i \in OnSocket(k)} \subseteq Nat /\ lost[k] \subseteq Nat
              BY <4>2, <4>3, <5>1
          <6> QED BY ONLY <6>1, <6>2
        <5> QED BY <5>1
      <4>5. lost' = [k \in Kinds |-> lost'[k]]
          BY <2>0
      <4> QED BY ONLY <4>4, <4>5
    <3>5. closes' \in Nat
        BY <1>0, <2>0 DEF Types
    <3> QED BY <1>0, <2>0, <3>2, <3>3, <3>4, <3>5 DEF Types, run
  <2>2. Flags'
    <3>1. putback' \in [Kinds -> BOOLEAN]
        BY <2>b, Zenon
    <3> QED BY <1>0, <2>0, <2>b, <3>1 DEF Flags, run
  <2>3. ASSUME NEW q \in Kinds PROVE KInv(q)'
    <3>1. Closing(q, calls)
      <4>1. putback'[q] = (putback[q] \/ is_running[q])
          BY <2>b, <2>3
      <4>2. /\ lost[q] \subseteq lost'[q]
            /\ \A i \in OnSocket(q) :
                \/ Kept(q, posts[q][i].event)
                \/ is_running[q] /\ last[q] = posts[q][i].event
                \/ posts[q][i].event \in lost'[q]
          BY <2>0, <2>3
      <4> QED BY <2>0, <2>3, <4>1, <4>2 DEF Closing, run
    <3> QED BY <1>0, <2>0, <2>b, <2>3, <3>1, ClosingKeeps
  <2> QED BY <2>1, <2>2, <2>3 DEF IInv
<1>10. CASE destroy
  <2>0. /\ Clear("system", handle["system"]) /\ "system" \in Kinds
        /\ queue' = [queue EXCEPT !["system"] = << >>]
        /\ lost' = [lost EXCEPT !["system"] = @
                        \cup {queue["system"][i] : i \in DOMAIN queue["system"]}
                        \cup {posts["system"][i].event : i \in flight["system"]}]
        /\ UNCHANGED <<last, timers, looping, enabled, ever, posts,
                       made, failures, closes, putback, overtaken>>
        /\ going_away' = TRUE
        /\ websocket' = "closing" \/ websocket' = websocket
      BY <1>10, <1>k DEF destroy
  <2>l. /\ lost' \in [Kinds -> SUBSET Nat] /\ lost["system"] \subseteq lost'["system"]
        /\ \A j \in DOMAIN queue["system"] : queue["system"][j] \in lost'["system"]
        /\ \A j \in flight["system"] : posts["system"][j].event \in lost'["system"]
        /\ \A q \in Kinds \ {"system"} : lost'[q] = lost[q]
    <3>1. {queue["system"][i] : i \in DOMAIN queue["system"]} \subseteq Nat
      <4>1. queue["system"] \in Seq(Nat)
          BY <1>0, <2>0, KTypes
      <4> QED BY <4>1
    <3>2. {posts["system"][i].event : i \in flight["system"]} \subseteq Nat
      <4>1. posts["system"] \in Seq(Post) /\ flight["system"] \subseteq DOMAIN posts["system"]
          BY <1>0, <2>0, KTypes DEF KInv, KType
      <4>2. \A i \in DOMAIN posts["system"] : posts["system"][i] \in Post
          BY <4>1, SeqFacts
      <4> QED BY <4>1, <4>2 DEF Post
    <3>3. lost \in [Kinds -> SUBSET Nat]
        BY <1>0 DEF Types
    <3> QED BY <2>0, <3>1, <3>2, <3>3
  <2>1. Types'
    <3>1. << >> \in Seq(Nat)
        OBVIOUS
    <3>2. queue' \in [Kinds -> Seq(Nat)]
        BY <1>0, <2>0, <3>1 DEF Types
    <3> QED BY <1>0, <2>0, <2>l, <3>2, ClearFacts DEF Types
  <2>2. Flags'
      BY <1>0, <2>0, ClearFacts DEF Flags
  <2>3. ASSUME NEW q \in Kinds PROVE KInv(q)'
    <3>0. Socket
        BY <2>0 DEF Socket
    <3>q. queue \in [Kinds -> Seq(Nat)]
        BY <1>0 DEF Types
    <3>1. CASE q = "system"
      <4>1. Cleared("system", handle["system"])
          BY <1>0, <2>0, ClearFacts DEF Cleared
      <4>2. Destroys("system", handle["system"])
          BY <2>0, <2>l, <3>q, <4>1 DEF Destroys, SameCounts
      <4> QED BY <1>0, <2>0, <3>0, <3>1, <4>2, DestroysKeeps
    <3>2. CASE q # "system"
      <4>0. /\ handle'[q] = handle[q] /\ flight'[q] = flight[q] /\ strays'[q] = strays[q]
            /\ is_running'[q] = is_running[q]
        <5>1. Clear("system", handle["system"])
            BY <2>0
        <5> QED BY <1>0, <1>k, <2>0, <2>3, <3>2, <5>1, ClearFacts
      <4>2. queue'[q] = queue[q] /\ lost'[q] = lost[q]
          BY <2>0, <2>3, <2>l, <3>2, <3>q
      <4>1. Same(q)
          BY <2>0, <4>0, <4>2 DEF Same, SameRun, SameFate, SameCounts
      <4> QED BY <1>0, <3>0, <2>3, <4>1, SameKeeps
    <3> QED BY <3>1, <3>2
  <2> QED BY <2>1, <2>2, <2>3 DEF IInv
<1> QED BY <1>1, <1>2, <1>3, <1>4, <1>5, <1>6, <1>7, <1>8, <1>9, <1>10 DEF Next

(* The strengthening of all the invariants holds in every reachable state. *)
THEOREM Inductive == Spec => []IInv
BY InitIInv, NextIInv, PTL DEF Spec
----------------------------------------------------------------------------
(* Only events of the page are queued and posted: a null is never put back. *)
THEOREM TypeCorrect == Spec => []TypeOK
<1>1. IInv => TypeOK
    BY DEF IInv, Types, Flags, KInv, KType, TypeOK, Post
<1> QED BY <1>1, Inductive, PTL

(* However posts are given up, fail and are repeated over http or a web    *)
(* socket, of the posts in flight at most one of each kind is not given    *)
(* up, and it carries the event whose callbacks are stored; before the     *)
(* first message over a web socket, and for user events over http always,  *)
(* nothing given up can be answered.                                       *)
THEOREM AnswersMeet == Spec => []AnswerMeetsItsEvent
<1>1. ASSUME IInv PROVE AnswerMeetsItsEvent
  <2>1. ASSUME NEW k \in Kinds
        PROVE  /\ \A i \in flight[k] \ strays[k] :
                    i = Len(posts[k]) /\ posts[k][i].event = last[k] /\ is_running[k]
               /\ ~ever => strays[k] = {} /\ (is_running[k] => flight[k] # {})
      BY <1>1, <2>1 DEF IInv, KInv, KFlight
  <2>2. \A i \in strays["event"] : posts["event"][i].way # "http"
    <3>1. KFlight("event")
        BY <1>1 DEF IInv, KInv, Kinds
    <3> QED BY <3>1 DEF KFlight
  <2> QED BY <2>1, <2>2 DEF AnswerMeetsItsEvent
<1> QED BY <1>1, Inductive, PTL

(* An event is repeated at most once for each failure of a post and for    *)
(* each call of $ws_close.                                                 *)
THEOREM Repeats == Spec => []RepeatBound
<1>1. ASSUME IInv, NEW k \in Kinds
      PROVE  NPosts(k) <= made[k] + failures[k] + closes
  <2>1. /\ made[k] \in Nat /\ timers[k] \in Nat /\ failures[k] \in Nat
        /\ NPosts(k) \in Nat /\ NQueue(k) \in Nat /\ closes \in Nat
      BY <1>1, KTypes DEF IInv
  <2> QED BY <1>1, <2>1 DEF IInv, KInv, KCount
<1>2. IInv => RepeatBound
    BY <1>1 DEF RepeatBound, NPosts
<1> QED BY <1>2, Inductive, PTL

(* The posts come in the order of the events until one is put back. *)
THEOREM InOrder == Spec => []PostedInOrder
<1>1. IInv => PostedInOrder
    BY DEF IInv, KInv, KOrder, PostedInOrder
<1> QED BY <1>1, Inductive, PTL

(* An event that is not given up on purpose is lost only when another one  *)
(* is posted while it waits to be put back.                                *)
THEOREM NothingElseLost == Spec => []Conservation
<1>1. IInv => Conservation
    BY DEF IInv, KInv, KConserve, Conservation
<1> QED BY <1>1, Inductive, PTL
=============================================================================
