-------------------------- MODULE MCTelnetWrapper --------------------------
(***************************************************************************)
(* Two objects, enough for one to get the address of the other.            *)
(***************************************************************************)
EXTENDS TelnetWrapper, TLC

Symmetry == Permutations(Addr) \cup Permutations(Object)

=============================================================================
