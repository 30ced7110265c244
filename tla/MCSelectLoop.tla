---------------------------- MODULE MCSelectLoop ----------------------------
(***************************************************************************)
(* Small instances of SelectLoop for TLC: clients are interchangeable.     *)
(***************************************************************************)
EXTENDS SelectLoop, TLC

Symmetry == Permutations(Clients)

=============================================================================
