----------------------------- MODULE MCDbServers -----------------------------
(***************************************************************************)
(* The database servers with a few connections, for TLC.                   *)
(***************************************************************************)
EXTENDS DbServers, TLC

CONSTANTS c1, c2

MCConns == {c1, c2}
ThreeServers == {"visitors_db", "db_login", "db_message"}
LoginAndComment == {"db_login", "db_comment"}

Connections == Permutations(MCConns)
=============================================================================
