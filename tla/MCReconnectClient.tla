-------------------------- MODULE MCReconnectClient --------------------------
(***************************************************************************)
(* Small instances of ReconnectClient: four records, which reach into a    *)
(* third block of two (the first holds 1 only), while the connection       *)
(* stands; two when it breaks once, one when it breaks twice.              *)
(***************************************************************************)
EXTENDS ReconnectClient

MCMaxBreaks == [n \in 0..MaxIndex |-> CASE n <= 1 -> 2 [] n = 2 -> 1 [] OTHER -> 0]
=============================================================================
