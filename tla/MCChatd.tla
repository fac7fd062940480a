------------------------------ MODULE MCChatd ------------------------------
(***************************************************************************)
(* Two slots, and one connection more than there are.                      *)
(***************************************************************************)
EXTENDS Chatd

QuitLine == <<"q">>

=============================================================================
