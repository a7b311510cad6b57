----------------------------- MODULE MCVisitors -----------------------------
(***************************************************************************)
(* The register of visitors with two tabs, for TLC.                        *)
(***************************************************************************)
EXTENDS Visitors, TLC

CONSTANTS tab1, tab2, city1, city2

MCTabs == {tab1, tab2}
MCCities == {city1, city2}

Interchangeable == Permutations(MCTabs) \cup Permutations(MCCities)
=============================================================================
