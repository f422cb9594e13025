---------------------------- MODULE MCDiscovery ----------------------------
(***************************************************************************)
(* Instances of Discovery for TLC: who can reach whom.                     *)
(***************************************************************************)
EXTENDS Discovery

Chain == {<<1, 2>>, <<2, 3>>}
LongChain == {<<1, 2>>, <<2, 3>>, <<3, 4>>}
Triangle == {<<1, 2>>, <<1, 3>>, <<2, 3>>}
=============================================================================
