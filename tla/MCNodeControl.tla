--------------------------- MODULE MCNodeControl ---------------------------
(***************************************************************************)
(* The control of the node for TLC: three scripts at the same time.        *)
(***************************************************************************)
EXTENDS NodeControl
=============================================================================
