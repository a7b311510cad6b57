------------------------------ MODULE Entrance ------------------------------
(***************************************************************************)
(* What a login promises, without tables, hashes, pages or servers.  An    *)
(* account has one password as long as it lasts.  A name and a password    *)
(* given at a desk are accepted if the account has that password or is     *)
(* opened with it, and only then can the desk let the room it belongs to   *)
(* have the name; until then the account may be closed, and whoever is in  *)
(* stays in.                                                               *)
(***************************************************************************)
CONSTANTS
    Desks,   \* where names and passwords are given
    Rooms,
    RoomOf,  \* the room a desk belongs to
    Names,
    Passwords,
    Nobody

VARIABLES
    accounts,  \* name -> password
    accepted,  \* desk -> the name and password it accepted and has not used
    inside     \* room -> the name it has, or Nobody

vars == <<accounts, accepted, inside>>

Given(name, password) == [name |-> name, password |-> password]

Nothing == Given(Nobody, Nobody)

Init ==
    /\ accounts = [n \in {} |-> Nobody]
    /\ accepted = [d \in Desks |-> Nothing]
    /\ inside = [r \in Rooms |-> Nobody]

AcceptAt(d, name, password) ==
    /\ accepted[d] = Nothing
    /\ accepted' = [accepted EXCEPT ![d] = Given(name, password)]

(* An account is opened at a desk, or by the house. *)
Open(name, password) ==
    /\ name \notin DOMAIN accounts
    /\ accounts' = [n \in DOMAIN accounts \cup {name} |->
                        IF n = name THEN password ELSE accounts[n]]
    /\ UNCHANGED accepted \/ \E d \in Desks : AcceptAt(d, name, password)
    /\ UNCHANGED inside

Present(name, password) ==
    /\ name \in DOMAIN accounts
    /\ accounts[name] = password
    /\ \E d \in Desks : AcceptAt(d, name, password)
    /\ UNCHANGED <<accounts, inside>>

Enter(d) ==
    /\ accepted[d] # Nothing
    /\ inside' = [inside EXCEPT ![RoomOf[d]] = accepted[d].name]
    /\ accepted' = [accepted EXCEPT ![d] = Nothing]
    /\ UNCHANGED accounts

Leave(r) ==
    /\ inside' = [inside EXCEPT ![r] = Nobody]
    /\ UNCHANGED <<accounts, accepted>>

Close(name) ==
    /\ name \in DOMAIN accounts
    /\ accounts' = [n \in DOMAIN accounts \ {name} |-> accounts[n]]
    /\ UNCHANGED <<accepted, inside>>

Next ==
    \/ \E r \in Rooms : Leave(r)
    \/ \E d \in Desks : Enter(d)
    \/ \E name \in Names :
        \/ Close(name)
        \/ \E password \in Passwords : Open(name, password) \/ Present(name, password)

Spec == Init /\ [][Next]_vars
=============================================================================
