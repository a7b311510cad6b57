----------------------------- MODULE MCAccounts -----------------------------
(***************************************************************************)
(* Accounts with two tabs of one browser and one of another, for TLC.      *)
(***************************************************************************)
EXTENDS Accounts, TLC

CONSTANTS tab1, tab2, tab3, visitor, owner

(* Two tabs share the user of one browser, the third is in another. *)
TwoBrowsers == tab1 :> owner @@ tab2 :> owner @@ tab3 :> visitor

SameBrowser == Permutations({tab1, tab2})
=============================================================================
