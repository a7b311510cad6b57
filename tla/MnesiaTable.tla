---------------------------- MODULE MnesiaTable ----------------------------
(***************************************************************************)
(* A mnesia table of type set (the default of mnesia:create_table, the     *)
(* only kind this application creates) as a function from its keys to its  *)
(* rows, with the table operations the database servers use.  Every        *)
(* operation here is the committed effect of one transaction or one dirty  *)
(* call on a running table; what happens when mnesia is stopped or the     *)
(* table does not exist is modelled in DbServers.                          *)
(***************************************************************************)
EXTENDS Integers, FiniteSets

(* A table that was just created holds no row. *)
EmptyTable == [k \in {} |-> k]

(* mnesia:dirty_all_keys: each key once, in no particular order. *)
DirtyAllKeys(tab) == DOMAIN tab

(* mnesia:read: the list of rows stored under a key, of length 0 or 1. *)
Read(tab, key) == {tab[k] : k \in DOMAIN tab \cap {key}}

(* mnesia:write: the row replaces whatever was stored under its key. *)
Write(tab, key, row) ==
    [k \in DOMAIN tab \cup {key} |-> IF k = key THEN row ELSE tab[k]]

(* mnesia:delete: nothing is stored under the key afterwards; deleting a   *)
(* key that is absent is not an error.                                     *)
Delete(tab, key) == [k \in DOMAIN tab \ {key} |-> tab[k]]

(* The rows of a table, the answer to mnesia:match_object with a pattern   *)
(* of wildcards.                                                           *)
Rows(tab) == {tab[k] : k \in DOMAIN tab}
=============================================================================
