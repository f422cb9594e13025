---------------------------- MODULE MCDispatcher ----------------------------
(***************************************************************************)
(* Instances of Dispatcher for TLC.  The node "n" has local packets a and  *)
(* b and forwards r for node "x".                                          *)
(***************************************************************************)
EXTENDS Dispatcher

CONSTANTS a, b, r

MCNodes == {"n", "x", "d", "e"}
MCSource == [p \in Packets |-> IF p = r THEN "x" ELSE "n"]
MCWireId == [p \in Packets |-> IF p = r THEN 1 ELSE 0]

\* Every packet has a destination of its own ...
Apart == [p \in Packets |-> IF p \in {a, r} THEN "d" ELSE "e"]
\* ... or all of them have the same one.
Together == [p \in Packets |-> "d"]

=============================================================================
