-------------------------- MODULE MCClientSession ---------------------------
(***************************************************************************)
(* Small instances of ClientSession for TLC.  Clients, users and passwords *)
(* are interchangeable: no definition compares or orders them.             *)
(***************************************************************************)
EXTENDS ClientSession, TLC

Symmetry == Permutations(Clients) \cup Permutations(UIDs) \cup Permutations(Passwords)

=============================================================================
