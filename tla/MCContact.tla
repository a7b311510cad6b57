------------------------------ MODULE MCContact ------------------------------
(***************************************************************************)
(* The contact page with a visitor's tab and the photographer's, for TLC.  *)
(***************************************************************************)
EXTENDS Contact, TLC

CONSTANTS tab1, tab2, visitor, owner

(* One tab per browser. *)
TwoBrowsers == tab1 :> visitor @@ tab2 :> owner
=============================================================================
