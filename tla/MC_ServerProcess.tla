-------------------------- MODULE MC_ServerProcess --------------------------
(* Two model servers that share a port; three plugins, two of one name; a   *)
(* queue of three entries.                                                  *)
EXTENDS ServerProcess

CONSTANTS p1, p2

OnePort == [k \in Kinds |-> 8080]
SharedName == <<p1, p1, p2>>
=============================================================================
