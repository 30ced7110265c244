-------------------------------- MODULE Wire --------------------------------
(***************************************************************************)
(* What both ends of a connection agree on: the numbers the parsers let    *)
(* through, and the server's test that ends a description of known size by *)
(* the newline that follows it.                                            *)
(***************************************************************************)
EXTENDS Integers

MAX_FILESIZE == 10000000

\* The numbers each parser lets through.
parse_attendance     == 10..999
parse_filesize       == 1..MAX_FILESIZE
parse_reserve_number == 0..999

\* Fault: the byte after the description is counted as part of it.
FaultCountsNewline(written, size, k, newline) ==
    IF written + k > size + 1                   THEN "destroyed"
    ELSE IF written + k = size + 1 /\ newline   THEN "done"
    ELSE "more"

\* What a read of k bytes does to an upload of `size` bytes of which `written`
\* have been stored; `newline` says whether the last of the k bytes is '\n'.
write_event(written, size, k, newline) ==
    IF written + k > size + 1                    THEN "destroyed"
    ELSE IF written + k = size + 1 /\ ~newline   THEN "destroyed"
    ELSE IF written + k = size + 1               THEN "done"
    ELSE "more"

=============================================================================
