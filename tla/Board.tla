-------------------------------- MODULE Board --------------------------------
(***************************************************************************)
(* What a message board promises, without ids, tables or pages: posts are  *)
(* numbered in the order they arrive, a post is on the board until it is   *)
(* taken down, a reader sees the whole board as it was at one moment, and  *)
(* no post is turned away from a board nothing was ever taken down from.   *)
(***************************************************************************)
EXTENDS Integers

CONSTANT Readers

VARIABLES
    live,    \* the posts on the board
    posted,  \* how many posts have arrived
    pruned,  \* have posts been taken down?
    shown    \* reader -> the posts it sees

vars == <<live, posted, pruned, shown>>

Init ==
    /\ live = {}
    /\ posted = 0
    /\ pruned = FALSE
    /\ shown = [r \in Readers |-> {}]

Post ==
    /\ posted' = posted + 1
    /\ live' = live \cup {posted + 1}
    /\ UNCHANGED <<pruned, shown>>

Refuse ==
    /\ pruned
    /\ posted' = posted + 1
    /\ UNCHANGED <<live, pruned, shown>>

TakeDown(gone) ==
    /\ gone # {}
    /\ live' = live \ gone
    /\ pruned' = TRUE
    /\ UNCHANGED <<posted, shown>>

Look(r) ==
    /\ shown' = [shown EXCEPT ![r] = live]
    /\ UNCHANGED <<live, posted, pruned>>

LookAway(r) ==
    /\ shown' = [shown EXCEPT ![r] = {}]
    /\ UNCHANGED <<live, posted, pruned>>

Next ==
    \/ Post
    \/ Refuse
    \/ \E gone \in SUBSET live : TakeDown(gone)
    \/ \E r \in Readers : Look(r) \/ LookAway(r)

Spec == Init /\ [][Next]_vars
=============================================================================
