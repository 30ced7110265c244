---------------------------- MODULE MCCrashStore ----------------------------
(***************************************************************************)
(* A small instance of CrashStore for TLC.  Users and passwords are        *)
(* interchangeable.                                                        *)
(***************************************************************************)
EXTENDS CrashStore, TLC

Symmetry == Permutations(UIDs) \cup Permutations(Passwords)

=============================================================================
