--------------------------- MODULE MCRunRegistry ----------------------------
(***************************************************************************)
(* A run of two connections, a node page whose channel takes one event and *)
(* another browser.                                                        *)
(***************************************************************************)
EXTENDS RunRegistry, TLC

CONSTANTS r1, p1, w1

MCRuns == {r1}
MCMaxConns == r1 :> 2
MCPages == {p1}
MCWatchers == {p1, w1}
=============================================================================
