-------------------------------- MODULE Ledger -------------------------------
(***************************************************************************)
(* The seats that a directory of reservation files records.  A file is a   *)
(* sequence of numbers, and a directory a function from names to files.    *)
(***************************************************************************)
EXTENDS Integers, Sequences, FiniteSets

\* Fault: the reservation file is opened without ios_base::app.
FaultOverwrites(f, k, n) == [f EXCEPT ![k] = <<n>>]

\* A reservation file is named after the current second and opened for
\* appending: a second reservation in the same second adds a number to it.
Recorded(f, k, n) == [f EXCEPT ![k] = Append(@, n)]

\* One triple for each seat of each number of each file, so that their count is
\* the sum of the numbers.
SeatBlock(k, j, n) == {<<k, j, i>> : i \in 1..n}
SeatsIn(files) ==
    UNION {UNION {SeatBlock(k, j, files[k][j]) : j \in DOMAIN files[k]}
              : k \in DOMAIN files}

=============================================================================
