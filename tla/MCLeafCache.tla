------------------------------ MODULE MCLeafCache ------------------------------
(***************************************************************************)
(* An instance of LeafCache for TLC: two polls and a spender, two scans at *)
(* a time and nodes that lag.                                              *)
(***************************************************************************)
EXTENDS LeafCache
===============================================================================
