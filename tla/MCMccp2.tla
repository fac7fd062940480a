------------------------------ MODULE MCMccp2 ------------------------------
(***************************************************************************)
(* A server S and a client C with a proxy between them.                     *)
(***************************************************************************)
EXTENDS Mccp2

ChainNode == {"S", "PS", "PC", "C"}

ChainPeer == [n \in ChainNode |->
    CASE n = "S" -> "PS" [] n = "PS" -> "S" [] n = "PC" -> "C" [] n = "C" -> "PC"]

ChainTwin == [n \in ChainNode |->
    CASE n = "PS" -> "PC" [] n = "PC" -> "PS" [] OTHER -> "none"]

Server(s, c) == [n \in ChainNode |-> CASE n = "S" -> s [] n = "C" -> c [] OTHER -> 0]

ChainSent == Server(3, 1)

=============================================================================
