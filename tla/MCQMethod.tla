----------------------------- MODULE MCQMethod -----------------------------
(* Every request of both applications, every pair of telopts tables. *)
EXTENDS QMethod

MCOffererCmds == {"WILL", "WONT"}
MCAskerCmds == {"DO", "DONT"}
=============================================================================
