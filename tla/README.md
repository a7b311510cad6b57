# WebServerl: a TLA+ model of the photographer's site

This directory models the application in `src/site/` (a Nitrogen web site
written in Erlang), the way it uses the OTP libraries that are bundled with it,
and what has been checked with TLC and proved with TLAPS about it.

## 1. The system

The repository is a Nitrogen release: the application's own code is
`src/site/src/*.erl` (about 1500 lines) with its templates; `src/lib`,
`src/erts-9.2` and `src/rebar` are the Erlang/OTP distribution and tools that
are shipped with it. Nitrogen itself (`nitrogen_core`, `simple_bridge`,
`nprocreg`) is not in the repository. The site runs on inets
(`src/etc/simple_bridge.config`: `{backend, inets}`).

### Inventory

| Component | State | Operations | Modelled in |
|---|---|---|---|
| `db_comment` | mnesia table `comment`: id -> name, message, date | `add_comment`, `remove`, `dump_comments`, `start`, `stop` | `Guestbook`, `DbServers` |
| `guestbook` page | the rendered page in a browser tab (comments, Delete buttons) | `body`, `event(save)`, `event({delete,Id})`, `event(logout)`, menu | `Guestbook` |
| `db_message`, `contact` page | table `message`: id -> mail, name, message, date | `add_message`, `remove`, `dump_messages`; `body`, `event(save)`, `event(logout)`, menu | `Contact`, `DbServers` (life cycle) |
| `db_login`, `login`, `login_page`, `create_account` pages | table `login`: user name -> password hash; `wf:user()` per session | `create_account`, `attempt_login`, `remove`; `event(login)`, `event(save)`, `event(logout)` | `Accounts`, `DbServers` (life cycle) |
| `visitors_db`, `visitors_admin` page | table `visitor`: name -> city, date, time; the confirm dialogue | `insert`, `remove`, `all_names`, `get_today_visitors`, `dump_visitors`; events | `Visitors`, `DbServers` (life cycle) |
| `index` page | none: starts the servers and the admin account | `body` | `DbServers`, `Accounts` |
| `nature`, `portrait`, `reportage`, `mobile` pages | none | menu, log out | log out: `Accounts` |
| mnesia (as used) | running or not, which tables exist, their rows | `start`, `stop`, `create_table`, transactions | `MnesiaTable`, `DbServers` |
| inets request handler | one process per connection, linked to the servers it started | accept, request, close, socket error, `'EXIT'` | `DbServers` |
| gen_server / gen / proc_lib (as used) | registered names, mailboxes | `start_link`, `call` with monitor and timeout | `DbServers` |
| `nitrogen_app`, `nitrogen_sup`, `nitrogen_main_handler` | the supervisor of the bridge; no database server is its child | start | initial state of `DbServers` |
| `bin/nitrogen`, `bin/dev`, `nodetool` | none of their own: the processes, the node's name at epmd, `init` | start, console, stop, restart, reboot; ping, attach | `NodeControl` |
| init, net_kernel, erl_epmd (as used) | the reason for which a virtual machine stops, its name | boot, register, shut down, halt or boot again | `NodeControl` |
| `do-plugins.escript` | plugin files copied or linked | run | not modelled (section 7) |
| `static/nitrogen/nitrogen.js` | event queues, running event, last event, timers, web socket | queue, do, cancel, success, error, requeue, open, message, close and reconnect of the web socket, destroy | `NitrogenClient` |

How they interact. A request runs inside the request handler process of its
connection (`httpd_request_handler`). A page calls the servers with
`gen_server:call`, so a request waits for the reply, for the death of the
server or for five seconds. The front page calls `start()` of the four servers
in a row (`index.erl:66-72`), each a `gen_server:start_link` *from the request
handler*: there is no supervisor, the first visitor's connection is the parent
of the servers. Each server's `init` starts mnesia and creates its table; both
results are ignored. The `stop` of any server calls `mnesia:stop()`, and as all
tables are `ram_copies` with a schema in memory, everything is gone.

In the browser a click is an event in the queue of `nitrogen.js`, which posts
one event at a time to the page, over http or over a web socket if the server
offers one, and repeats it when the post fails. On the
machine the site is started and stopped with `bin/nitrogen`, which asks the
node through `nodetool`; nothing but the node's name keeps two starts apart.

What is hard in this code: races of first visitors on the front page; servers
that die with a connection; servers that live on without a table after another
server's stop; transactions whose result is ignored; requests that time out and
are carried out later; ids computed from the number of rows and given again;
pages that go stale in a tab while their buttons carry ids; posts that are
repeated after the server has served them, and repeated under the name of
another event; answers over a web socket that do not say what they answer; scripts that look at the node, and act on it when it is already
another one. PROJECT.json lists these as hazards, each at its line.

What makes each component correct:

* guest book: a comment that was accepted stays until it is deleted, no comment
  is overwritten or doubled, a Delete never hits a different comment that the
  page shows, the poster sees the comment;
* contact: a message that was accepted stays until the operator asks for its
  removal, and none is refused before a row was removed;
* accounts: one creation per name succeeds, a password never changes under its
  owner, nobody is logged in without a matching password;
* servers: nobody waits for an answer that cannot come, a server that is up has
  its table, the site recovers from a fault when it is visited;
* visitors: the first entry of a name wins, today's visitors are those entered
  today;
* event client: which posts may be in flight together, so that an answer comes
  to the event it answers; repetitions are bounded, an event is lost only in
  known ways, and every other one is served;
* node control: one site is served at most, and in the end where a start was
  asked for; a stop that was accepted is final, and the script comes to an end.

## 2. Plan

The order in which the modules were written, the most important first:

1. `MnesiaTable`, `Guestbook`, the abstract `Board`, and `Guestbook_proofs`.
2. `DbServers`, the life cycle of the four servers, and `DbServers_proofs`.
3. `Accounts` (accounts, sessions, the admin of the front page), the abstract
   `Entrance`, and `Accounts_proofs`; `Contact` (messages, a `Board` as well) and
   `Contact_proofs`.
4. `Visitors`, the register of visitors, and `Visitors_proofs`.
5. `NitrogenClient`, the event queue in the browser with its failures and
   repetitions, and `NitrogenClient_proofs`.
6. `NodeControl`, the scripts that start and stop the node, and
   `NodeControl_proofs`.

A module for the menus of the pages was dropped: it would have had no state. One
for the plugin installer was dropped too: with what is in the repository the
installer changes nothing. No module is left on the plan; section 7 says what
stays out and why.

## 3. Modules

| Module | Models | Extends |
|---|---|---|
| `MnesiaTable` | the rows of one mnesia table and the operations the servers use | |
| `Guestbook` | `db_comment` and the `guestbook` page | `MnesiaTable` |
| `Board` | what a message board promises; `Guestbook` and `Contact` implement it | |
| `Accounts` | `db_login`, the pages `login`, `login_page`, `create_account`, the admin account of `index` | `MnesiaTable` |
| `Entrance` | what a login promises; `Accounts` implements it | |
| `Contact` | `db_message` and the `contact` page | `MnesiaTable` |
| `Visitors` | `visitors_db` and the `visitors_admin` page | `MnesiaTable` |
| `DbServers` | start, stop, crash and calls of the four servers, mnesia, connections | |
| `NitrogenClient` | the event client of `nitrogen.js` during the life of a page | |
| `NodeControl` | `bin/nitrogen`, `nodetool`, and the virtual machines they start and stop | |
| `MC*` | the instances TLC checks | the module of that name |
| `*_proofs` | theorems and their proofs | the module of that name |

Definitions that begin with "Mutant of" are not part of any specification: each
is the definition after it with a plausible mistake, and shows that the
property named in PROJECT.json notices that mistake.

**MnesiaTable.** A table is a function from keys to rows. `Read`, `Write`,
`Delete`, `DirtyAllKeys` and `Rows` are what `mnesia:read`, `write`, `delete`,
`dirty_all_keys` and `match_object` do to a `set` table in memory.

**Guestbook.** `comments` is the table, with a comment represented by the
number of the `add_comment` call that brought it; `user` is `wf:user()` of each
session; `view[t]` is the page that a tab shows, a copy of the table of the time
it was rendered, with the ids its Delete buttons carry; `redirected` holds the
browser's pending load after `wf:redirect`. `log` and `removed` are history.
One action per event clause: `event_save` contains the whole of
`handle_call({add_comment,..})`, as the server handles calls one at a time and
the page does nothing in between that others could see. `dump_comments` is a
set of sequences, as a `set` table is dumped in any order, and `SortById` says
what `lists:sort` makes of one. `Pretty` is what `body()` shows. The server's two
transactions are one step here; that mnesia may go away between them is the
subject of `DbServers`.

**Accounts.** `login` is the table of hashes, `page` and `request` are what a
tab shows and what is being handled for it. The events `login` and `save` are
two steps each: the answer of `db_login` (`event_login`, `event_save`) and
`wf:user(Username)` (`set_user`), because other tabs and the operator can act
in between; so is the front page (`index_start`, `index_create_admin`). An
answer of `false`, the failed match on `already_inserted` and the crash without
a server leave the state alone, which is why they are guards. `oks`,
`removals`, `visited` and `basis` are history. `crypto:hash` is taken to be free
of collisions. The field "Confirm Password" is never read by the code and hence
not by the model.

`Entrance` knows no tables, hashes or pages: a name and a password are accepted
at a desk if the account has that password or is opened with it, and a desk that
has accepted them lets its room have the name, possibly much later. `Accounts`
implements it with tabs as desks and sessions as rooms: the table without the
hash is the accounts, the ticket of an event between the answer of `db_login`
and `wf:user()` is what was accepted. Registering and the first front page are
`Open`, logging in is `Present`, `wf:user()` is `Enter`, the operator's remove is
`Close`.

**Contact.** `messages` is the table, keyed by number; a row keeps the sender's
address and the number of its call. `remove(key)` hands what it is given to the
table, as `db_message:remove/1` does: an address, which is what its parameter is
called and which is no key of the table, or a number, which the code does not
keep the operator from giving. `log`, `removes` and `removed` are history. `view`
distinguishes the form (nobody logged in) from the list of messages (anybody
logged in). It is a `Board` that is pruned once a row has been removed; only then
may a message be refused.

**Visitors.** `visitor` is the table, keyed by name; `today` is the date
`calendar:local_time()` gives, which `midnight` moves on; `asking` is the
question of the confirm dialogue that a tab shows. What is saved is what the
form holds when the question is answered (`save_visitor` reads it then), under
the date of that moment: the date and the time in the form are not read. The
queries `all_names`, `get_today_visitors` and `dump_visitors` are operators, as
they change nothing and no page calls them; `calls` is history.

**DbServers.** Per server: `pc` (down, in `init` before and after
`mnesia:start()`, idle, between the transactions of a call, hung), `owner` (the
connection it is linked to) and `mailbox`. Per connection: `open`, `todo` (the
calls the page still makes), `wait` (what its head waits for: the spawned
process to register, `start_link` to answer, a reply) and `exits` (the first
`'EXIT'` not yet looked at: the handler looks at its mailbox only between
requests). `mnesia` and `tables` are shared. The actions follow
`gen:start`/`gen:init_it` (`Start`, `Register`: of two processes spawned for one
name the second one reports `already_started`), `gen:do_call` (`Send`,
`Timeout`, and `'DOWN'` in `Die`), `httpd_request_handler` (`Accept`, `Request`,
`Closed`, `TcpError`, `HandleExit`) and the `init` and `handle_call` clauses of
the servers step by step, one mnesia call each. A transaction without a table
aborts: where the code has no clause for that (`ReadKey`, `Query`,
`CountKeys`) the server dies, where the result is ignored (`WriteRow`,
`RemoveRow`) it answers `ok`. `HandleStop` takes mnesia and all tables away,
may kill servers inside a transaction (they are linked to `mnesia_tm`) and may
leave a server hanging in `create_table`.

**NitrogenClient.** One script object, for the life of one page. What exists
twice in the code, once for the events of the user and once for system events,
is one function over `Kinds` here. `queue`, `is_running`, `last`, `going_away`,
`enabled` and `ever` are the fields of that name; `handle` is `$event_obj` or
`$system_event_obj`, which only a post over http sets and only some paths clear;
`timers` counts the pauses of 500 ms (5 s for system events) after which
`$last_event` is put back. `posts` is everything that was ever posted, with its
event, its way (http, the web socket, or nowhere: what is sent over a closing
socket) and whether the server has served it; `flight` is the set of posts whose
answer the browser may still deliver, so any number of them may be under way,
whatever the flag says. An aborted post leaves `flight`, as jQuery calls its
error callback at once and never again; a post over the web socket cannot be
aborted and stays. JavaScript runs one callback at a time, so a callback is one
action: `event_loop` is a whole turn of the loop with `$do_event` and
`$cancel_event`; `event_success` is the callback of a post or `$ws_message`,
which takes any answer for the one the script waits for. The web socket opens
(`ws_open`), the server speaks to it (`ws_push`, which enables it and is taken for
the answer to a system event), it is lost (`ws_close`: `onclose` alone or after
`onerror`, each of which calls `$ws_close`) and opened again if the server ever
spoke (`ws_init`). Whether a server offers web sockets is not in the repository,
so both is possible. Time is abstracted: any post over http may fail or time out
at any moment, and the loop may find any running post older than 20 s. Events are
numbered as they are queued. `Serve` is the server handling a post, possibly after
the browser has given up. `made`, `failures`, `closes`, `putback`, `strays` (posts
in flight when the flag was cleared), `lost` and `overtaken` are history.

**NodeControl.** `phase[p]` is where the virtual machine with process number
`p` is, from the shell that will `exec` it to its end; `epmd` is who has the
node's name; `reason[p]` is what `init` was asked for. A script is `cmd`, `pc`,
`status` and, for stop, `pids`, the shell variable `PID`. `start` and `run_erl`
are two steps, as are `request` (the `ps` of stop), `nodetool_ping` and
`nodetool_call`: everything may change in between. Name registration, start of
the application and the parts of the shutdown are steps of the virtual machine.
`doomed` is history: which virtual machine stops for good because of, or
already before, a script's request. `kill -0` with several numbers, of which some
do not exist, fails in dash and succeeds in bash; the model has both. That epmd
drops the name of a virtual machine that has died is the daemon's doing (`crash`,
external). Process numbers are not used again.

Abstractions. In `DbServers` rows are abstracted to whether the table exists,
so both outcomes of a lookup are possible; `mnesia:start` and `mnesia:stop` are
single steps. In the other modules the table exists; they say what happens
between a start and the next stop. A call of theirs is answered: that
`gen_server:call` exits after five seconds or without a server, at
`guestbook.erl:159`, `contact.erl:161`, `create_account.erl:24` or `login.erl:53`,
is left out of `Guestbook`, `Contact` and `Accounts`. The event then ends without
its redirect or its `wf:user()`, while the row may still be stored; `DbServers` has
the timeout, the call that stays in the mailbox and the late answer, but not the
rows. Names, texts and dates are left out where nothing depends on them, so are
validators (they only keep the browser from
sending an event), layout and the expiry of sessions.

## 4. What TLC checks

| Run | Instance | Properties |
|---|---|---|
| `guestbook` | two tabs of one browser, a user who is admin and one who is not, 3 posts, any deletes, fair | `TypeOK`, `Conservation`, `StalePageAgrees`, `ShownInPostingOrder`, `RedirectPending`, `DeletesShownOrNewer`, `PosterSeesComment`, `ImplementsBoard` |
| `guestbook_insert` | one tab, 3 posts | `EveryCommentInserted` is violated |
| `accounts` | two tabs of one browser and one of another, two names, two passwords, one removal per name | `TypeOK`, `OneOkPerAccount`, `AdminExists`, `SessionBacked`, `ImplementsEntrance` |
| `contact` | two browsers, two addresses, 3 messages, 2 removes by address or by number | `TypeOK`, `MessagesKept`, `ImplementsBoard` |
| `contact_remove` | the same | `RemoveTakesEffect` is violated |
| `visitors` | two tabs, two names, two cities, 4 calls on 3 days | `TypeOK`, `FirstEntryWins`, `AnswersFollowCalls` |
| `db_front_page` | `visitors_db`, `db_login` and `db_message`, two connections, one fault, no stop, fair | `UpMeansTable`, `OrphansStayUp`, `GoesThrough`, `PagesEnd` |
| `db_recovery` | `db_login` and `db_comment`, two connections, one stop or another fault, fair and visited | `TypeOK`, `WaitsAreServed`, `Recovers` |
| `db_answer` | the same servers, one stop | `AnsweredMeansDone` is violated |
| `browser_events` | two events of either kind, one failure, any aborts, a web socket that opens, speaks, is lost and opened again, `$destroy`, fair | `TypeOK`, `AnswerMeetsItsEvent`, `RepeatBound`, `PostedInOrder`, `Conservation`, `EventSettles` |
| `node_control` | three scripts, three process numbers, one crash, fair | `TypeOK`, `OneSite`, `NoComeback`, `NeverAllGone`, `OneSurvivor`, `Serves`, `StopEnds` |
| `node_stop` | two scripts, two process numbers, no crash | `StopWaitsForNode` is violated |

Why the bounds are enough. An id is given again after two posts and a delete,
so three posts reach every kind of stale page. Two tabs are enough for one to be
stale. In the guest book they are two tabs of one browser: a page keeps the user
it was rendered for and the user of the session may change at any time, so they
reach every combination of pages that two browsers reach, and also the case in
which a user changes between a page and its event. Two names and two
passwords give a wrong password, a name taken by somebody else, and an admin
account registered before the front page does it; one removal per name lets an
account be removed and registered again between an answer and `wf:user`. Four
calls are an entry, a second one, a removal and a new entry, on any of three
days. Two connections race for one name; three servers are the front page with
a start before and after the one call it makes; `db_login` and `db_comment`
have, between them, every kind of call. In the browser two events are enough
for one to be overtaken while the other waits to be put back, or for the answer
to one to be taken for the other's; they may be of one kind or of both. The loop
may give up any post, and two calls of `$ws_close` are a socket that cannot be
opened, or one that is lost, opened again and lost again, so one failure beside
them puts every kind of repetition next to every other; a second socket that
cannot be opened would be a third call, which the theorems have and the run has
not.
Three scripts are two starts that race and a stop or restart in between, or a
start and two requests that meet at `init`; three process numbers let each of
them start a virtual machine, so that a start never lacks one. The safety
properties do not depend on the bounds: the theorems below hold for all values,
so also for a connection that is lost while a stop is under way, which
`db_recovery` is too small to show.

Deadlock is checked except in `browser_events`, `node_control` and `node_stop`: a
page that has sent its events, and scripts that have all been called, may stop.

Connections are interchangeable, so `db_answer` uses symmetry; so do
`accounts` (the two tabs of one browser) and `visitors` (tabs, cities). Runs that
check liveness do not.

Fairness. `FairSpec` of `DbServers` assumes that runnable processes are
scheduled, which the Erlang scheduler does: a page takes its next step, a
server handles its mailbox, a handler that is not busy looks at its `'EXIT'`
message. Nothing is assumed of timeouts, closed connections or socket errors.
`VisitedSpec` adds that people keep visiting the front page: the site has
nothing else that would start a server. This takes strong fairness of
`Request(c, Home)`, as other requests may come in between. `FairSpec` of
`Guestbook` assumes that a browser follows a redirect it was sent. `FairSpec` of
`NitrogenClient` assumes two things: the loop's timer runs out while the loop has
something to do, which includes giving up what it may; and while a pause runs, or
a post is in flight, something of it happens: the pause ends, the server serves
the post, or the post is answered or fails (jQuery's timeout of 18 s). As failures
and closed web sockets are bounded, posts get through in the end; for a
connection that always fails nothing can be promised. `FairSpec` of
`NodeControl` assumes that a script that was called goes on, and that a virtual
machine that boots or shuts down does so too; `init` limits no shutdown, but its
steps end; the loop of stop ends when none of its processes is left, which both
kinds of shell notice. Nobody has to call a script, and nothing has to crash.

What does not hold, and why no property says it does. After a stop, a server
that was inside `create_table` may hang; `start_link` has no timeout, so its
starter waits for good and further visits find the name registered. `PagesEnd`
is therefore checked without stops, `Recovers` excepts a hung server, and for
`WaitsAreServed` a hung server is one that is there. `UpMeansTable` and
`OrphansStayUp` end with the first stop: after it a server may be up without a
table, which `Recovers` and `AnsweredMeansDone` are about.
`GoesThrough` says that a page is not given up and none of its calls left out;
it ends with the first fault, because a timeout of `create_account` does end a
front page before `db_message` and `db_comment` are started.
`Recovers` claims the table of `db_login` only: the other servers are not
called by the front page. `start()` finds them registered and does nothing, so
they stay up without a table and get it back only after a call has crashed
them and the front page has been visited again.

`ShownInPostingOrder` ends with the first delete: an id that is given again puts
a newer comment in an older one's place, and no comment of the code says that it
should not.

An event of the browser may be lost: `Conservation` names the ways. One of them
surprises: while a failed event waits half a second to be put back, the loop may
post the next one; then that one is put back and the failed one is gone
(`overtaken`). And an event may be served more than once, which is how one click
on Save becomes two comments: after a failure whose post had arrived, and when
the loss of the web socket meets a running post, which is then put back once or
twice. `RepeatBound` says how often, `PostedInOrder` that nothing else repeats or
reorders events. After `$destroy` the loop may stop with events in the queue, so
`EventSettles` excepts it.

With a web socket less holds. An answer over it does not say what it answers, so
a late one is evaluated as the answer to the last event, and an unasked message
clears the flag of a system event whose post over http is under way. "Flag to
prevent firing multiple postbacks at the same time" (`nitrogen.js:390`) is then
true only of posts that were not given up: `AnswerMeetsItsEvent` is stated up to
`strays`, and says when there can be none. And an event that was running over the
socket when it was lost is put back with its flag still set: if there is no handle
of an earlier post over http, the loop, which gives up only what has a handle
(`nitrogen.js:175`, `180`), never posts an event of that kind again. `EventSettles`
excepts a kind that is `Stuck` in this way.

`bin/nitrogen stop` may wait for good: when the node was restarting, because
`init` throws the request away (`init.erl:616`), and when the virtual machine
that gets the request is not among the processes found before. `StopEnds`
excepts both: it is about a stop whose processes have all ended or were asked to
end, by whichever script, and says that restarts which come later do not keep it
waiting. It may also return before the node has ended (`node_stop` below).

## 5. Findings

* `guestbook_insert`: after a delete in the middle of the table, the id that
  `add_comment` computes is taken, the comment is refused and nobody is told
  (`db_comment.erl:45`, the comment at line 26 says "insert comment in
  database").
* `contact_remove`: `db_message:remove(Email)` deletes the key `Email` from a
  table keyed by number: it answers `ok` and never removes a message
  (`db_message.erl:58`, the comment at line 29 says "remove message from
  database"). Given a number it does remove that row, after which a new message
  may be refused as in the guest book; `ImplementsBoard` allows that, and
  `MessagesKept` holds with the documented remove as well as with this one.
* `db_answer`: `create_account` answers `ok` when mnesia was stopped between its
  lookup and its write, whose result is ignored (`db_login.erl:53`; the comment at
  line 28 says "insert account in database"); so do the inserts of the other
  servers, and every `remove` without a table.
* `node_stop`: `bin/nitrogen stop` lists processes, asks the node to stop and waits
  for what it had listed. When the shell that was started had not yet become the
  virtual machine, nothing was listed, `kill -0` without a number fails and stop
  returns 0 while the node is still closing (`bin/nitrogen:180`; the comment at
  line 158 says "Wait for the node to completely stop...").

Other differences were met that have no run of their own. `dump_visitors` and
`get_today_visitors` answer `none` where `visitors_db.erl:39` speaks of a list
(`db_message` and `db_comment` turn `none` into an empty list).
No page calls them, and `AnswersFollowCalls` leaves open how a query says that
there is nobody. `nitrogen.js:98` says of
`$destroy` "Let the event loop keep running until the event queue is empty", but
line 201 stops it as soon as either queue is empty, and `$destroy` has just
emptied the system queue: events that wait are dropped. `bin/nitrogen:196` says
that reboot "uses heart to restart it", but `etc/vm.args:7` has heart commented
out, so reboot is a stop.

## 6. What is proved

All theorems hold for every value of the constants under the named assumptions
of the modules: `SessionOf` is a function from tabs to sessions, the value for
"no user" is not a user, bounds are natural numbers; in `Contact`, that an
address is not a number (an Erlang string is a list); in `Accounts`, that the
admin's name and password are a name and a password; in `DbServers`, that the
servers are among the four and the value for "no connection" is not one; in
`NodeControl`, that the value for "none" is neither a process number nor a
command. The bounds on counters in the guards can be as large as one likes.

| Theorem | States | Inductive invariant and argument |
|---|---|---|
| `Guestbook_proofs!TypeCorrect`, `NothingLost`, `DenseIds`, `IdsBounded`, `StalePages` | `TypeOK`, `Conservation`, `DenseUntilDelete`, `IdNeverAhead`, `StalePageAgrees` | the five together with `RowsBound` (no more rows than calls). None is inductive alone: that an id stays behind its call number needs the number of rows to stay behind the number of calls, and that a stale page agrees with the table needs that a row, once written, is never overwritten or doubled. |
| `Guestbook_proofs!PostingOrder` | `ShownInPostingOrder` | `DensePages`: until the first delete a page shows the rows `1..n`, row `i` with comment `i`. The rest is about the sort: the dump of such a page holds each of its `n` rows once (`CountRows`), a sorted order of them exists, so the chosen one is sorted, and as no row comes twice it rises strictly (`SortedRows`). |
| `Guestbook_proofs!RedirectsPend` | `RedirectPending` | inductive together with the invariant above, which is needed to know that a page rendered now shows every comment that is accepted and not deleted |
| `Guestbook_proofs!Deletes` | `DeletesShownOrNewer` | from `StalePageAgrees` in the state before the step |
| `Guestbook_proofs!Refinement` | `ImplementsBoard` | every step is a step of `Board` or a stutter; a refusal is allowed only after a delete, which is `DenseUntilDelete` |
| `Accounts_proofs!TypeCorrect`, `OneOk`, `AdminThere`, `BackedSessions` | `TypeOK`, `OneOkPerAccount`, `AdminExists`, `SessionBacked` | the four with the tickets of events under way (`PendingGood`) as good as those of sessions (`SessionGood`). A ticket is good if it knows no more removals than there were and is backed; creating an account cannot touch a row that exists, removing one makes the ticket older than the last removal. |
| `Accounts_proofs!Refinement` | `ImplementsEntrance` | every step is a step of `Entrance` or a stutter. `Enter` needs that an event under way has a ticket with a name, which is in `TypeOK`; `Open` needs that `create_account` answers `ok` exactly when there is no row (`CreateStep`). |
| `Contact_proofs!TypeCorrect`, `NothingLost`, `DenseIds` | `TypeOK`, `MessagesKept`, `DenseUntilRemove` | the three together. A row is written only under an id that was free, so no row is overwritten and a row's id is that of its call; a remove takes the row with its key, which by the same fact is the message that was asked for. As long as no row was removed the keys are `1..Len(log)`, whose cardinality makes the next id free. |
| `Contact_proofs!Refinement` | `ImplementsBoard` | every step is a step of `Board` or a stutter: a refusal only after a removal, by `DenseUntilRemove`; a remove with a number takes down one post, by `MessagesKept`, and with an address none; and with `FormShowsNothing`, that the page with the form shows no message, so that the tab which leaves it does not look away |
| `Visitors_proofs!TypeCorrect`, `FirstEntry`, `Queries` | `TypeOK`, `FirstEntryWins`, `AnswersFollowCalls` | the first two with `HasFirst`, that a name which has entries has a first one; an insert adds the last entry to its name, a remove takes them all. The answers follow from these in every state. |
| `DbServers_proofs!TypeCorrect`, `Waits` | `TypeOK`, `WaitsAreServed` | `Served`: `WaitsAreServed` counts calls with a cardinality and says too little about single messages to be kept by a step. `Served` says of every message whose wait it belongs to (`Expected`), that it is its sender's only one (`Single`), of every waiting page that its call is there (`Heard`) or that it owns the server in its init (`Owned`), that who waits has a call to make (`Busy`), and that a server in the middle of a call has the call at the head of its mailbox (`Working`). One lemma per kind of step: reply, death, timeout, send, register, end of init. |
| `DbServers_proofs!UpTables`, `Orphans` | `UpMeansTable`, `OrphansStayUp` | in addition, before the first stop, no stop is in a mailbox (`NoStopSent`) and a server about to create its table finds mnesia running (`MnesiaFirst`). Then a server ends only through the link to its connection (lemma `Moves`). |
| `DbServers_proofs!Through` | `GoesThrough` | in addition, before the first fault: no handler is told of a crash and no server hangs (`Calm`), so no server ends; on a page with several calls every call follows the start of its own server (`Chained`), so it finds that server registered (`Begun`), and an answer, never an error, ends it. |
| `NitrogenClient_proofs!TypeCorrect`, `AnswersMeet`, `Repeats`, `InOrder`, `NothingElseLost` | `TypeOK`, `AnswerMeetsItsEvent`, `RepeatBound`, `PostedInOrder`, `Conservation` | the types and four strengthenings, all stated for one kind of events (`KInv`). `AnswerMeetsItsEvent` does not say why a post that is given up over http is never answered: `KFlight` adds that a post over http which is in flight and not a stray is the one of the handle, so that the abort meets it; that a handle stands for a post over http that is no stray; that posts are in flight over the web socket only while it is enabled; and that beside a stray of a user event nothing is in flight over http, so that clearing the flag makes no stray of such a post. `RepeatBound` counts posts, and a queue could hold any number of them: `KCount` bounds posts, queue and pending pauses together. `PostedInOrder` says nothing of what comes next: `KOrder` adds that the queue is in order and comes after the posts. That a pause puts back an event and not null is in `KType`. One lemma per thing a step can do to one kind (queue, post, drop, give up, succeed, fail, put back, close, destroy); `LoopCases` says that a turn of the loop does one of them to each kind |
| `NodeControl_proofs!TypeCorrect`, `SiteIsExclusive` | `TypeOK`, `OneSite` | the types, `Holders` (a virtual machine is in a phase with a name exactly if epmd has it; `OneSite` follows, as the site is open only in such phases) and `Callers` (a script that waits or calls is one of the three requests) |
| `NodeControl_proofs!StopIsFinal`, `SomeoneSurvives` | `NoComeback`, `NeverAllGone` | the above with `Uncalled` (a script that was not called has no argument) and `Reasons` (a virtual machine that is being shut down has a reason, which is a request some script was called with, and no other one has any: so `init` takes the first request and no later one). While nobody asked for an end and nothing crashed, a shutdown ends in a new boot, and a virtual machine halts over its name only if another one has it. |

Only model-checked: the liveness properties, as fairness and ENABLED are out of
the prover's reach. Behind each of them stands a proved safety property, which
says that what is waited for can still happen:

| Liveness, by TLC | Safety core, by proof |
|---|---|
| `PosterSeesComment` | `RedirectPending`: the load that shows the comment is pending until it happens |
| `PagesEnd`, `Recovers` | `WaitsAreServed`: who waits for a reply has a live server with the call in its mailbox; `GoesThrough`: no call of a page is skipped |
| `OneSurvivor`, `Serves` | `OneSite`, `NeverAllGone`: never two sites, and never none while starts race |
| `StopEnds` | `NoComeback`: a virtual machine that was asked to stop is on its way down |
| `EventSettles` | `NitrogenClient!Conservation`: an event not served and not lost is queued, posted or about to be put back |

Every conjunct of the invariants that is a property of its own is also checked
by TLC. Those that are only steps of the argument are not: that
comment `n` has the id `n` until the first delete (`DenseUntilDelete`), that an id
never exceeds the number of calls (`IdNeverAhead`) and that the ids of messages
have no gap until a row is removed (`DenseUntilRemove`) are theorems in the proof
modules, and `ImplementsBoard` and `ShownInPostingOrder` say on the runs what follows from
them.

## 7. What is not modelled

* Nitrogen and simple_bridge, which are not in the repository: they appear as
  `wf:user()`, `wf:redirect()`, the pages in tabs and the server of the event
  client.
* In `nitrogen.js`: the functions that `$reconnect_system` calls and the success
  and error functions of an event, which no page sets; whether the bar
  "disconnected" is shown, spinner, upload and everything else that only changes
  the layout; which fields a validation looks at (an event's form passes it or
  not, at any moment).
* In `bin/nitrogen`: `ping`, `attach`, `remote_console` and the commands of
  `bin/dev`, which ask or connect and change nothing of the node, and `upgrade`,
  whose `bin/install_upgrade.escript` is not in the repository.
* `do-plugins.escript`: no dependency in the repository has a `nitrogen.plugin`
  file, so it ends at line 91 and changes nothing.
* Menus, templates and `toggle_menu`: redirects and layout.
* The bundled Erlang/OTP, rebar and the assets, except for the parts of mnesia,
  `gen`, `gen_server`, `proc_lib`, `httpd_request_handler`, `init`, `erl_epmd`
  and `net_kernel` whose behaviour the site depends on; the map names the lines
  of the bundled source for these. In particular all C code of the repository
  (about 100 000 lines: scanner drivers of megaco, the odbc server,
  erl_interface, headers of the runtime, examples) belongs to the distribution.
  The site's own code is Erlang, JavaScript and shell, and none of it calls into
  those drivers, so a share of the C code is no measure of what is modelled of
  the site: of its own files every server, every page with state, the event
  client and the control scripts are.
