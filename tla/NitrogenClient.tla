--------------------------- MODULE NitrogenClient ---------------------------
(***************************************************************************)
(* The event client in the browser: the NitrogenClass object of            *)
(* nitrogen.js during the life of one page.                                *)
(*                                                                         *)
(* A script has two queues, one for the events of the user and one for     *)
(* system events (comet).  The event loop, a timer that sets itself again, *)
(* takes one event at a time from each queue, posts it to the server and   *)
(* waits for the answer.  When the post fails or takes longer than 18 s    *)
(* the event is put back after a pause; when the loop finds a post older   *)
(* than 20 s (the machine slept) it aborts it.  The page also opens a web  *)
(* socket.  If the server speaks to it over the socket, events go over the *)
(* socket from then on, where nothing but the 20 s of the loop limits how  *)
(* long the script waits; when the socket is lost it is opened again.      *)
(*                                                                         *)
(* JavaScript is single-threaded: a callback is one step.  Events are      *)
(* numbered in the order in which they were queued, and so are posts.      *)
(***************************************************************************)
EXTENDS Naturals, Sequences

CONSTANTS
    MaxEvents,    \* bound: events that the page queues
    MaxFailures,  \* bound: posts that fail
    MaxCloses     \* bound: calls of $ws_close, and no new web socket after as many

Kinds == {"event", "system"}

ASSUME BoundAssumption == MaxEvents \in Nat /\ MaxFailures \in Nat /\ MaxCloses \in Nat

VARIABLES
    queue,         \* $event_queue and $system_event_queue
    is_running,    \* $event_is_running and $system_event_is_running
    last,          \* $last_event and $last_system_event, 0 for null
    handle,        \* $event_obj and $system_event_obj: a post, 0 for null
    timers,        \* the pauses after which the last event is put back
    going_away,    \* $going_away: $destroy was called
    looping,       \* the event loop has set its timer
    websocket,     \* $websocket, or "waiting" for $websocket_reconnect_timer
    enabled,       \* $websockets_enabled
    ever,          \* $websockets_ever_succeeded
    posts,         \* every post so far: its event, its way, whether the server has served it
    flight,        \* the posts whose callback or message the browser may still deliver
    made,          \* the number of events that were queued
    failures,      \* the number of posts that failed
    closes,        \* how often $ws_close was called
    putback,       \* whether an event was ever put back into the queue
    strays,        \* posts that were in flight when the flag was cleared
    lost,          \* events that failed validation, were given up or cleared
    overtaken      \* events that waited to be put back when another was posted

run == <<is_running, last, handle>>
page == <<going_away, looping>>
socket == <<websocket, enabled, ever>>
fate == <<strays, lost, overtaken>>
vars == <<queue, run, timers, page, socket, posts, flight, made, failures, closes, putback, fate>>
----------------------------------------------------------------------------
Queued(k, e) == \E i \in DOMAIN queue[k] : queue[k][i] = e

(* The event will be posted again. *)
Kept(k, e) == Queued(k, e) \/ (timers[k] > 0 /\ last[k] = e)

(* The posts in flight that went over the web socket. *)
OnSocket(k) == {i \in flight[k] : posts[k][i].way # "http"}

Init ==
    /\ queue = [k \in Kinds |-> << >>]
    /\ is_running = [k \in Kinds |-> FALSE]
    /\ last = [k \in Kinds |-> 0]
    /\ handle = [k \in Kinds |-> 0]
    /\ timers = [k \in Kinds |-> 0]
    /\ going_away = FALSE
    /\ looping = TRUE
    /\ websocket = "connecting"
    /\ enabled = FALSE
    /\ ever = FALSE
    /\ posts = [k \in Kinds |-> << >>]
    /\ flight = [k \in Kinds |-> {}]
    /\ made = [k \in Kinds |-> 0]
    /\ failures = [k \in Kinds |-> 0]
    /\ closes = 0
    /\ putback = [k \in Kinds |-> FALSE]
    /\ strays = [k \in Kinds |-> {}]
    /\ lost = [k \in Kinds |-> {}]
    /\ overtaken = [k \in Kinds |-> {}]

(* Mutant of queue_event: the newest event goes first. *)
QueueEventFirst(k) ==
    /\ made["event"] + made["system"] < MaxEvents
    /\ made' = [made EXCEPT ![k] = @ + 1]
    /\ queue' = [queue EXCEPT ![k] = <<made[k] + 1>> \o @]
    /\ UNCHANGED <<run, timers, page, socket, posts, flight, failures, closes, putback, fate>>

(* $queue_event and $queue_system_event. *)
queue_event(k) ==
    /\ made["event"] + made["system"] < MaxEvents
    /\ made' = [made EXCEPT ![k] = @ + 1]
    /\ queue' = [queue EXCEPT ![k] = Append(@, made[k] + 1)]
    /\ UNCHANGED <<run, timers, page, socket, posts, flight, failures, closes, putback, fate>>

(* What the loop may find running for more than 20 s. *)
MayBeLate == {k \in Kinds : is_running[k] /\ handle[k] # 0}

(* Mutant of Fires: the flag is not looked at. *)
FiresImpatient(late) == {k \in Kinds : queue[k] # << >>}

(* The queues from which the loop takes an event in a turn in which it     *)
(* gives up the posts of late.                                             *)
Fires(late) == {k \in Kinds : (k \in late \/ ~is_running[k]) /\ queue[k] # << >>}

(* Mutant of LoopStops: the loop also stops when there is nothing to do.   *)
LoopStopsWhenIdle(queues) == \A k \in Kinds : queues[k] = << >>

(* The loop does not set its timer again after $destroy when it has        *)
(* emptied a queue, or found it empty.                                     *)
LoopStops(queues) == going_away /\ \E k \in Kinds : queues[k] = << >>

(* The way of a post; what is sent over a closing web socket goes nowhere. *)
Way ==
    CASE ~enabled -> "http"
      [] enabled /\ websocket = "open" -> "socket"
      [] OTHER -> "nowhere"

(* One turn of $event_loop.  What it finds running for more than 20 s it   *)
(* gives up ($cancel_event, $cancel_system_event): it aborts the post of   *)
(* the handle, if that is still in flight, and the error callback of an    *)
(* aborted post does not put the event back.  Where nothing is running it  *)
(* posts the next event ($do_event, $do_system_event); only a post over    *)
(* http has a handle, and the old one stays.  A user event whose form does *)
(* not pass the validation now is dropped.                                 *)
event_loop(late, valid) ==
    LET fires == Fires(late)
        sends == IF valid THEN fires ELSE fires \ {"event"}
        remain(k) == IF k \in late THEN flight[k] \ {handle[k]} ELSE flight[k]
    IN
    /\ looping
    /\ late \subseteq MayBeLate
    /\ valid \/ "event" \in fires
    /\ queue' = [k \in Kinds |-> IF k \in fires THEN Tail(queue[k]) ELSE queue[k]]
    /\ last' = [k \in Kinds |-> IF k \in fires THEN Head(queue[k]) ELSE last[k]]
    /\ is_running' = [k \in Kinds |-> k \in sends \/ (is_running[k] /\ k \notin late)]
    /\ handle' = [k \in Kinds |-> CASE k \in sends /\ ~enabled -> Len(posts[k]) + 1
                                    [] k \in late /\ ~(k \in sends /\ ~enabled) -> 0
                                    [] OTHER -> handle[k]]
    /\ posts' = [k \in Kinds |->
                    IF k \in sends
                    THEN Append(posts[k], [event |-> Head(queue[k]), way |-> Way, served |-> FALSE])
                    ELSE posts[k]]
    /\ flight' = [k \in Kinds |->
                    IF k \in sends THEN remain(k) \cup {Len(posts[k]) + 1} ELSE remain(k)]
    /\ looping' = ~LoopStops(queue')
    /\ strays' = [k \in Kinds |-> IF k \in late THEN strays[k] \cup remain(k) ELSE strays[k]]
    /\ lost' = [k \in Kinds |-> lost[k]
                    \cup (IF k \in late /\ ~Kept(k, last[k]) THEN {last[k]} ELSE {})
                    \cup (IF k \in fires \ sends THEN {Head(queue[k])} ELSE {})]
    /\ overtaken' = [k \in Kinds |->
                        IF k \in fires /\ timers[k] > 0 /\ Head(queue[k]) # last[k]
                        THEN overtaken[k] \cup {last[k]} ELSE overtaken[k]]
    /\ UNCHANGED <<timers, going_away, socket, made, failures, closes, putback>>

(* The server serves a post, which the browser may have given up by then.  *)
Serve(k, i) ==
    /\ i \in DOMAIN posts[k] /\ ~posts[k][i].served /\ posts[k][i].way # "nowhere"
    /\ posts' = [posts EXCEPT ![k][i].served = TRUE]
    /\ UNCHANGED <<queue, run, timers, page, socket, flight, made, failures, closes, putback, fate>>

(* The flag of a kind is cleared, by the answer to post i or by what the   *)
(* server says unasked (i = 0).  Only $system_event_obj is cleared too.    *)
Clear(k, i) ==
    /\ is_running' = [is_running EXCEPT ![k] = FALSE]
    /\ handle' = IF k = "system" THEN [handle EXCEPT ![k] = 0] ELSE handle
    /\ flight' = [flight EXCEPT ![k] = @ \ {i}]
    /\ strays' = [strays EXCEPT ![k] = @ \cup (flight[k] \ {i})]

(* $event_success and $system_event_success, with $reconnect_system: the   *)
(* callback of a post, or $ws_message, which takes any answer for the one  *)
(* the script waits for.  A web socket keeps the order.                    *)
event_success(k, i) ==
    /\ i \in flight[k] /\ posts[k][i].served
    /\ i \in OnSocket(k) => websocket = "open" /\ \A j \in OnSocket(k) : i <= j
    /\ Clear(k, i)
    /\ UNCHANGED <<queue, last, timers, going_away, looping, socket, posts,
                   made, failures, closes, putback, lost, overtaken>>

(* Mutant of event_error: the event is not put back. *)
EventErrorGivesUp(k, i) ==
    /\ i \in flight[k] \ OnSocket(k) /\ failures["event"] + failures["system"] < MaxFailures
    /\ failures' = [failures EXCEPT ![k] = @ + 1]
    /\ Clear(k, i)
    /\ UNCHANGED <<queue, last, timers, going_away, looping, socket, posts,
                   made, closes, putback, lost, overtaken>>

(* $event_error and $system_event_error for "timeout" and "error": the     *)
(* post or its answer was lost, or neither came in time.  The flag is      *)
(* cleared now; after a pause the event that was posted last, be it        *)
(* another one, is put back.                                               *)
event_error(k, i) ==
    /\ i \in flight[k] \ OnSocket(k) /\ failures["event"] + failures["system"] < MaxFailures
    /\ failures' = [failures EXCEPT ![k] = @ + 1]
    /\ Clear(k, i)
    /\ timers' = [timers EXCEPT ![k] = @ + 1]
    /\ overtaken' = IF posts[k][i].event = last[k] THEN overtaken
                    ELSE [overtaken EXCEPT ![k] = @ \cup {posts[k][i].event}]
    /\ UNCHANGED <<queue, last, going_away, looping, socket, posts,
                   made, closes, putback, lost>>

(* Mutant of requeue_last_event: the pause is repeated. *)
RequeueRepeatedly(k) ==
    /\ timers[k] > 0
    /\ queue' = [queue EXCEPT ![k] = <<last[k]>> \o @]
    /\ putback' = [putback EXCEPT ![k] = TRUE]
    /\ UNCHANGED <<run, timers, page, socket, posts, flight, made, failures, closes, fate>>

(* The pause is over: $requeue_last_event, $requeue_last_system_event.     *)
requeue_last_event(k) ==
    /\ timers[k] > 0
    /\ timers' = [timers EXCEPT ![k] = @ - 1]
    /\ queue' = [queue EXCEPT ![k] = <<last[k]>> \o @]
    /\ putback' = [putback EXCEPT ![k] = TRUE]
    /\ UNCHANGED <<run, page, socket, posts, flight, made, failures, closes, fate>>

(* $ws_init, when the reconnect timer runs out. *)
ws_init ==
    /\ websocket = "waiting" /\ closes < MaxCloses
    /\ websocket' = "connecting"
    /\ UNCHANGED <<queue, run, timers, page, enabled, ever, posts, flight,
                   made, failures, closes, putback, fate>>

(* $ws_open: the page context is sent. *)
ws_open ==
    /\ websocket = "connecting"
    /\ websocket' = "open"
    /\ UNCHANGED <<queue, run, timers, page, enabled, ever, posts, flight,
                   made, failures, closes, putback, fate>>

(* $ws_message with what the server says unasked, which is taken for the   *)
(* answer to a system event: first a call of $enable_websockets, later     *)
(* comet actions.                                                          *)
ws_push ==
    /\ websocket = "open"
    /\ Clear("system", 0)
    /\ enabled' = TRUE
    /\ ever' = TRUE
    /\ UNCHANGED <<queue, last, timers, going_away, looping, websocket, posts,
                   made, failures, closes, putback, lost, overtaken>>

Copies(x, n) == IF n = 1 THEN <<x>> ELSE <<x, x>>

(* Mutant of ws_close: puts back the last event even if nothing runs. *)
WsCloseUnasked(calls) ==
    /\ websocket \in {"connecting", "open", "closing"}
    /\ websocket = "connecting" => calls = 2
    /\ closes + calls <= MaxCloses
    /\ websocket' = IF ever THEN "waiting" ELSE "closed"
    /\ enabled' = FALSE
    /\ closes' = closes + calls
    /\ queue' = [k \in Kinds |-> Copies(last[k], calls) \o queue[k]]
    /\ putback' = [k \in Kinds |-> TRUE]
    /\ flight' = [k \in Kinds |-> flight[k] \ OnSocket(k)]
    /\ UNCHANGED <<run, timers, going_away, looping, ever, posts, made, failures, fate>>

(* The web socket could not be opened, was lost or closed: the browser     *)
(* calls onclose, after a failure onerror before it, and each of them      *)
(* calls $ws_close.  What is running is put back, also if it is running    *)
(* without the web socket, and the flag stays set ($disable_websockets     *)
(* included).                                                              *)
ws_close(calls) ==
    /\ websocket \in {"connecting", "open", "closing"}
    /\ websocket = "connecting" => calls = 2
    /\ closes + calls <= MaxCloses
    /\ websocket' = IF ever THEN "waiting" ELSE "closed"
    /\ enabled' = FALSE
    /\ closes' = closes + calls
    /\ queue' = [k \in Kinds |->
                    IF is_running[k] THEN Copies(last[k], calls) \o queue[k] ELSE queue[k]]
    /\ putback' = [k \in Kinds |-> putback[k] \/ is_running[k]]
    /\ flight' = [k \in Kinds |-> flight[k] \ OnSocket(k)]
    /\ lost' = [k \in Kinds |-> lost[k] \cup
                    {e \in {posts[k][i].event : i \in OnSocket(k)} :
                        ~Kept(k, e) /\ ~(is_running[k] /\ last[k] = e)}]
    /\ UNCHANGED <<run, timers, going_away, looping, ever, posts, made, failures,
                   strays, overtaken>>

(* $destroy: the page of the mobile site is about to be hidden. *)
destroy ==
    /\ ~going_away
    /\ going_away' = TRUE
    /\ queue' = [queue EXCEPT !["system"] = << >>]
    /\ Clear("system", handle["system"])
    /\ websocket' = IF websocket \in {"connecting", "open"} THEN "closing" ELSE websocket
    /\ lost' = [lost EXCEPT !["system"] = @
                    \cup {queue["system"][i] : i \in DOMAIN queue["system"]}
                    \cup {posts["system"][i].event : i \in flight["system"]}]
    /\ UNCHANGED <<last, timers, looping, enabled, ever, posts,
                   made, failures, closes, putback, overtaken>>

Next ==
    \/ \E k \in Kinds :
        \/ queue_event(k)
        \/ \E i \in DOMAIN posts[k] :
            \/ Serve(k, i)
            \/ event_success(k, i)
            \/ event_error(k, i)
        \/ requeue_last_event(k)
    \/ \E late \in SUBSET MayBeLate, valid \in BOOLEAN : event_loop(late, valid)
    \/ ws_init
    \/ ws_open
    \/ ws_push
    \/ \E calls \in {1, 2} : ws_close(calls)
    \/ destroy

Spec == Init /\ [][Next]_vars

(* The timer of the loop runs out as long as there is something for it to  *)
(* do.  So does a pause, a post in flight is answered or fails, and the    *)
(* server serves it: while any of these is due, some of them happens.      *)
(* As the failures and the web sockets are bounded, the connection works   *)
(* in the end.                                                             *)
Fairness ==
    /\ WF_vars(\E late \in SUBSET MayBeLate, valid \in BOOLEAN : event_loop(late, valid))
    /\ WF_vars(\E k \in Kinds :
                \/ requeue_last_event(k)
                \/ \E i \in flight[k] : Serve(k, i) \/ event_success(k, i) \/ event_error(k, i))

FairSpec == Spec /\ Fairness
----------------------------------------------------------------------------
Events(k) == 1..made[k]
Ways == {"http", "socket", "nowhere"}

(* Type invariant: only events of the page are queued and posted, never   *)
(* the null that stands in $last_event before the first post.              *)
TypeOK ==
    /\ made \in [Kinds -> Nat] /\ failures \in [Kinds -> Nat] /\ closes \in Nat
    /\ timers \in [Kinds -> Nat] /\ handle \in [Kinds -> Nat]
    /\ is_running \in [Kinds -> BOOLEAN] /\ putback \in [Kinds -> BOOLEAN]
    /\ going_away \in BOOLEAN /\ looping \in BOOLEAN
    /\ websocket \in {"connecting", "open", "closing", "waiting", "closed"}
    /\ enabled \in BOOLEAN /\ ever \in BOOLEAN
    /\ queue \in [Kinds -> Seq(Nat)] /\ last \in [Kinds -> Nat]
    /\ posts \in [Kinds -> Seq([event : Nat, way : Ways, served : BOOLEAN])]
    /\ flight \in [Kinds -> SUBSET Nat] /\ strays \in [Kinds -> SUBSET Nat]
    /\ lost \in [Kinds -> SUBSET Nat] /\ overtaken \in [Kinds -> SUBSET Nat]
    /\ \A k \in Kinds :
        /\ flight[k] \subseteq DOMAIN posts[k]
        /\ \A i \in DOMAIN queue[k] : queue[k][i] \in Events(k)
        /\ \A i \in DOMAIN posts[k] : posts[k][i].event \in Events(k)

(* The script evaluates an answer as the one to its last event, whichever  *)
(* post it belongs to.  Of the posts in flight that the script has not     *)
(* given up there is at most one of each kind, the last, it carries the    *)
(* last event, and the flag is set.  Before the first message over a web   *)
(* socket nothing given up can be answered and a set flag has its post; a  *)
(* post of a user event over http can never be answered after it was given *)
(* up.                                                                     *)
AnswerMeetsItsEvent ==
    /\ \A k \in Kinds :
        /\ \A i \in flight[k] \ strays[k] :
            i = Len(posts[k]) /\ posts[k][i].event = last[k] /\ is_running[k]
        /\ ~ever => strays[k] = {} /\ (is_running[k] => flight[k] # {})
    /\ \A i \in strays["event"] : posts["event"][i].way # "http"

(* Every failure costs one repetition at most, and so does each call of    *)
(* $ws_close: the posts never outnumber the events by more.                *)
RepeatBound ==
    \A k \in Kinds : Len(posts[k]) <= made[k] + failures[k] + closes

(* As long as nothing was put back every event is posted at most once, and *)
(* in the order in which they were queued.                                 *)
PostedInOrder ==
    \A k \in Kinds : ~putback[k] =>
        \A i, j \in DOMAIN posts[k] : i < j => posts[k][i].event < posts[k][j].event

Posted(k, e) == \E i \in DOMAIN posts[k] : posts[k][i].event = e /\ posts[k][i].served
InFlight(k, e) == \E i \in flight[k] : posts[k][i].event = e

(* Nothing gets lost but in one of two ways: an event is served, in the    *)
(* queue, under way or waiting to be put back, unless it was given up on   *)
(* purpose or another event was posted while it waited to be put back.     *)
Conservation ==
    \A k \in Kinds : \A e \in Events(k) :
        Posted(k, e) \/ Kept(k, e) \/ InFlight(k, e) \/ e \in lost[k] \cup overtaken[k]

(* The flag is set, nothing can clear it and there is no handle that would *)
(* let the loop give up: what $ws_close leaves of an event that was sent   *)
(* over the web socket.                                                    *)
Stuck(k) == is_running[k] /\ flight[k] = {} /\ handle[k] = 0 /\ closes > 0

(* Every event comes to its end: again and again there is a moment at      *)
(* which all events so far were served, however often their posts failed,  *)
(* but for those that Conservation excepts, those of a script that was     *)
(* destroyed and those of a kind that is stuck.                            *)
EventSettles ==
    []<>(\A k \in Kinds : \A e \in Events(k) :
            Posted(k, e) \/ e \in lost[k] \cup overtaken[k] \/ going_away \/ Stuck(k))
=============================================================================
