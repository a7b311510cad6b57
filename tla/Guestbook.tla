------------------------------ MODULE Guestbook ------------------------------
(***************************************************************************)
(* The guest book: the db_comment server and the guestbook page.           *)
(*                                                                         *)
(* db_comment is a gen_server, so its calls are handled one at a time and  *)
(* each handle_call clause is one atomic step of the table.  The page is   *)
(* rendered from a dump of the table and then sits in a browser tab while  *)
(* other tabs go on posting and deleting, so that a tab works on a stale   *)
(* copy of the table.  Tabs of the same browser share its session          *)
(* (wf:user()).                                                            *)
(*                                                                         *)
(* A comment is identified by its position in the log of add_comment       *)
(* calls; name, message and date play no part in the control.              *)
(***************************************************************************)
EXTENDS MnesiaTable, Sequences, SequencesExt

CONSTANTS
    Tabs,           \* browser tabs
    Sessions,       \* browser sessions
    SessionOf,      \* the session a tab belongs to
    Undefined,      \* wf:user() of a session nobody logged in
    Admin,          \* the user "admin"
    Users,          \* the accounts one can log in with
    MaxSubmissions  \* bound: number of add_comment calls

ASSUME SessionAssumption == SessionOf \in [Tabs -> Sessions]
ASSUME UserAssumption == Undefined \notin Users
ASSUME BoundAssumption == MaxSubmissions \in Nat

VARIABLES
    comments,   \* the mnesia table: comment id -> number of the call that wrote it
    log,        \* every add_comment call so far: the tab and the server's reply
    removed,    \* the comments that were in the table and have been deleted
    user,       \* session -> wf:user()
    view,       \* tab -> the guestbook page it shows, or NoPage
    redirected  \* tab -> is the browser following a redirect to /guestbook?

vars == <<comments, log, removed, user, view, redirected>>
----------------------------------------------------------------------------
(* db_comment *)

(* Mutant of NextId: the "+ 1" forgotten. *)
NextIdOneLess(tab) == Cardinality(DirtyAllKeys(tab))

(* The id a new comment gets: the number of rows, plus one. *)
NextId(tab) == Cardinality(DirtyAllKeys(tab)) + 1

(* Mutant of add_comment_reply: writes without looking at the id first. *)
ReplyAlwaysOk(tab) == "ok"

(* The answer to add_comment. *)
add_comment_reply(tab) ==
    IF Read(tab, NextId(tab)) = {} THEN "ok" ELSE "already_inserted"

(* The table after add_comment wrote the row. *)
add_comment_write(tab, row) == Write(tab, NextId(tab), row)

(* Mutant of remove: closes the gap by moving later comments down. *)
RemoveAndRenumber(tab, id) ==
    [k \in {IF j > id THEN j - 1 ELSE j : j \in DOMAIN tab \ {id}}
        |-> IF k < id THEN tab[k] ELSE tab[k + 1]]

(* The table after remove. *)
remove(tab, id) == Delete(tab, id)

(* The lists dump_comments may return: all the rows, in any order. *)
dump_comments(tab) ==
    SetToSeqs({[id |-> k, comment |-> tab[k]] : k \in DOMAIN tab})
----------------------------------------------------------------------------
(* The page *)

(* A tab that shows some other page, or nothing. *)
NoPage == [open |-> FALSE]

(* The page body() builds out of a table: the comments, the user it was    *)
(* built for, and the number of add_comment calls handled until then.      *)
Page(tab, u, n) == [open |-> TRUE, rows |-> tab, user |-> u, at |-> n]

(* Mutant of Pretty: shows the dump as it came. *)
PrettyUnsorted(dump) == dump

(* lists:sort with the comparison of body(): the rows of a dump (no two of *)
(* which are equal) in an order in which no id comes after a larger one.   *)
SortById(dump) ==
    CHOOSE sorted \in SetToSeqs(ToSet(dump)) :
        \A i, j \in DOMAIN sorted : i < j => sorted[i].id <= sorted[j].id

(* The order body() shows a dump in: no or one comment as it is, more of   *)
(* them sorted by id.                                                      *)
Pretty(dump) ==
    IF Len(dump) \in 0..1
    THEN dump
    ELSE SortById(dump)

(* A Delete button is rendered beside every comment for any logged in user. *)
DeleteButtons(page) ==
    IF page.open /\ page.user # Undefined THEN DOMAIN page.rows ELSE {}

(* The menu, which header() puts on every page. *)
Menu(page) == page.open

(* The Log out button of admin_place(). *)
LogoutButton(page) == page.open /\ page.user = Admin
----------------------------------------------------------------------------
Init ==
    /\ comments = EmptyTable
    /\ log = << >>
    /\ removed = {}
    /\ user = [s \in Sessions |-> Undefined]
    /\ view = [t \in Tabs |-> NoPage]
    /\ redirected = [t \in Tabs |-> FALSE]

(* Mutant of body: an open page is kept instead of rendered again. *)
BodyFromCache(t) ==
    /\ view' = IF view[t].open THEN view
               ELSE [view EXCEPT ![t] =
                        Page(comments, user[SessionOf[t]], Len(log))]
    /\ redirected' = [redirected EXCEPT ![t] = FALSE]
    /\ UNCHANGED <<comments, log, removed, user>>

(* body(): the tab loads /guestbook, by hand or because it was redirected. *)
body(t) ==
    /\ view' = [view EXCEPT ![t] =
                    Page(comments, user[SessionOf[t]], Len(log))]
    /\ redirected' = [redirected EXCEPT ![t] = FALSE]
    /\ UNCHANGED <<comments, log, removed, user>>

(* event(save): the reply of db_comment is thrown away and the browser is  *)
(* sent back to the page whatever it was.                                  *)
event_save(t) ==
    /\ view[t].open
    /\ Len(log) < MaxSubmissions
    /\ LET reply == add_comment_reply(comments)
       IN  /\ log' = Append(log, [by |-> t, reply |-> reply])
           /\ comments' = IF reply = "ok"
                          THEN add_comment_write(comments, Len(log) + 1)
                          ELSE comments
    /\ redirected' = [redirected EXCEPT ![t] = TRUE]
    /\ UNCHANGED <<removed, user, view>>

(* event({delete, Id}): the id was put into the button when the page was   *)
(* rendered; the user is not looked at again.                              *)
event_delete(t, id) ==
    /\ id \in DeleteButtons(view[t])
    /\ comments' = remove(comments, id)
    /\ removed' = removed \cup Read(comments, id)
    /\ redirected' = [redirected EXCEPT ![t] = TRUE]
    /\ UNCHANGED <<log, user, view>>

(* event(guestbook): the menu entry of the page itself. *)
event_guestbook(t) ==
    /\ Menu(view[t])
    /\ redirected' = [redirected EXCEPT ![t] = TRUE]
    /\ UNCHANGED <<comments, log, removed, user, view>>

(* The other menu entries: the tab goes to another page. *)
event_menu(t) ==
    /\ Menu(view[t])
    /\ view' = [view EXCEPT ![t] = NoPage]
    /\ redirected' = [redirected EXCEPT ![t] = FALSE]
    /\ UNCHANGED <<comments, log, removed, user>>

(* event(logout): the session forgets its user and the tab goes home; the  *)
(* session's other tabs keep the page they show.                           *)
event_logout(t) ==
    /\ LogoutButton(view[t])
    /\ user' = [user EXCEPT ![SessionOf[t]] = Undefined]
    /\ view' = [view EXCEPT ![t] = NoPage]
    /\ redirected' = [redirected EXCEPT ![t] = FALSE]
    /\ UNCHANGED <<comments, log, removed>>

(* A login on the login page, in a tab of this session. *)
login(s, u) ==
    /\ user' = [user EXCEPT ![s] = u]
    /\ UNCHANGED <<comments, log, removed, view, redirected>>

Next ==
    \/ \E t \in Tabs :
        \/ body(t)
        \/ event_save(t)
        \/ \E id \in DeleteButtons(view[t]) : event_delete(t, id)
        \/ event_guestbook(t)
        \/ event_menu(t)
        \/ event_logout(t)
    \/ \E s \in Sessions, u \in Users : login(s, u)

Spec == Init /\ [][Next]_vars

(* A browser that was told to load /guestbook does so. *)
follow_redirect(t) == redirected[t] /\ body(t)

FairSpec == Spec /\ \A t \in Tabs : WF_vars(follow_redirect(t))
----------------------------------------------------------------------------
(* The comments the server accepted, by the number of the call. *)
Accepted == {n \in DOMAIN log : log[n].reply = "ok"}

IsTable(tab) ==
    /\ tab = [k \in DOMAIN tab |-> tab[k]]
    /\ DOMAIN tab \subseteq Nat \ {0}
    /\ \A k \in DOMAIN tab : tab[k] \in Nat \ {0}

IsPage(p) ==
    \/ p = NoPage
    \/ /\ p = Page(p.rows, p.user, p.at)
       /\ IsTable(p.rows)
       /\ p.user \in Users \cup {Undefined}
       /\ p.at \in 0..Len(log)

(* Type invariant: the table maps positive ids to positive call numbers,   *)
(* the log records only the two replies add_comment gives, and every tab   *)
(* shows nothing or a page rendered no later than now.                     *)
TypeOK ==
    /\ IsTable(comments)
    /\ IsFiniteSet(DOMAIN comments)
    /\ log \in Seq([by : Tabs, reply : {"ok", "already_inserted"}])
    /\ removed \subseteq Nat
    /\ user \in [Sessions -> Users \cup {Undefined}]
    /\ view = [t \in Tabs |-> view[t]]
    /\ \A t \in Tabs : IsPage(view[t])
    /\ redirected \in [Tabs -> BOOLEAN]

(* No comment is lost or doubled: the rows of the comment table are        *)
(* exactly the comments db_comment answered ok to and that nobody deleted, *)
(* each of them under a single id.                                         *)
Conservation ==
    /\ removed \subseteq Accepted
    /\ Rows(comments) = Accepted \ removed
    /\ \A i, j \in DOMAIN comments : comments[i] = comments[j] => i = j

(* A page in a tab, however old, still shows every comment that was posted *)
(* before it was rendered and is in the table now, under the id it has     *)
(* now, although ids are given again after a delete.                       *)
StalePageAgrees ==
    \A t \in Tabs : view[t].open =>
        \A id \in DOMAIN comments :
            comments[id] <= view[t].at =>
                id \in DOMAIN view[t].rows /\ view[t].rows[id] = comments[id]

(* event({delete, Id}) takes at most one comment out of the table, and it  *)
(* is the one some tab shows beside the button that was pressed, or one    *)
(* posted after that tab was rendered (the id was given again); it is      *)
(* never another comment that the tab shows elsewhere.                     *)
DeletesShownOrNewer ==
    [][/\ Cardinality(removed' \ removed) <= 1
       /\ \A n \in removed' \ removed :
            \E t \in Tabs : \E id \in DeleteButtons(view[t]) :
                /\ id \in DOMAIN comments \ DOMAIN comments'
                /\ comments[id] = n
                /\ view[t].rows[id] = n \/ n > view[t].at]_vars

(* The page shows the comments in the order they were posted, whatever     *)
(* order the dump of the table came in, while nothing was deleted.         *)
ShownInPostingOrder ==
    removed = {} => \A t \in Tabs : view[t].open =>
        \A dump \in dump_comments(view[t].rows) :
            \A i, j \in DOMAIN dump :
                i < j => Pretty(dump)[i].comment < Pretty(dump)[j].comment

(* The step between event(save) and the page it leads to is never lost: a  *)
(* tab that posted a comment which is in the table shows the comment, or   *)
(* is on its way to a page that is rendered again, whatever it and other   *)
(* tabs of its session did in between.                                     *)
RedirectPending ==
    \A t \in Tabs : \A n \in Accepted \ removed :
        log[n].by = t /\ view[t].open =>
            n \in Rows(view[t].rows) \/ redirected[t]

(* Who posts a comment that the server accepts gets to see it: the         *)
(* redirect of event(save) eventually brings a page with the comment,      *)
(* unless it is deleted first or the tab goes elsewhere.                   *)
PosterSeesComment ==
    \A t \in Tabs, n \in 1..MaxSubmissions :
        n \in Accepted /\ log[n].by = t
            ~> \/ n \in removed
               \/ ~view[t].open
               \/ n \in Rows(view[t].rows)

(* What the comment "insert comment in database" on add_comment promises:  *)
(* a comment handed to add_comment is in the table until it is deleted.    *)
EveryCommentInserted ==
    \A n \in DOMAIN log : n \in Rows(comments) \cup removed

(* What the page shows of the board, for the abstract specification. *)
ShownOn(page) == IF page.open THEN Rows(page.rows) ELSE {}
Shown == [t \in Tabs |-> ShownOn(view[t])]

Abstract == INSTANCE Board WITH Readers <- Tabs,
                                live <- Rows(comments),
                                posted <- Len(log),
                                pruned <- removed # {},
                                shown <- Shown

(* The guest book implements the abstract message board. *)
ImplementsBoard == Abstract!Spec
=============================================================================
