----------------------------- MODULE MCGuestbook -----------------------------
(***************************************************************************)
(* The guest book in two tabs of one browser, for TLC.                     *)
(***************************************************************************)
EXTENDS Guestbook

CONSTANTS tab1, tab2, owner, undefined, admin, guest

MCTabs == {tab1, tab2}

(* One tab only. *)
OneTab == tab1 :> owner

(* Two tabs of one browser: a logout in one leaves the other as it is. *)
OneBrowser == tab1 :> owner @@ tab2 :> owner
=============================================================================
