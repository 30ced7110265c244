---------------------------- MODULE MCEventStore ----------------------------
(***************************************************************************)
(* Small instances of EventStore and Listings for TLC.  Users, passwords   *)
(* and connections are interchangeable: no definition compares or orders   *)
(* them.                                                                   *)
(***************************************************************************)
EXTENDS Listings, TLC

Symmetry == Permutations(UIDs) \cup Permutations(Passwords) \cup Permutations(Connections)

=============================================================================
