------------------------------ MODULE Listings -------------------------------
(***************************************************************************)
(* What a user is told of the reservations the store holds: the reply to   *)
(* LMR, made from the names and contents of the user's reservation files,  *)
(* newest first and cut off after MAX_LISTED numbers.                      *)
(***************************************************************************)
EXTENDS EventStore

CONSTANT MAX_LISTED     \* reservations one reply lists (50)

ASSUME ListingAssumption == MAX_LISTED \in Nat \ {0}

\* One entry for each number of each of the user's reservation files.
Entries(u) ==
    UNION {{[time |-> k[1], eid |-> k[2], place |-> j, amount |-> userRes[u][k][j]] :
                j \in DOMAIN userRes[u][k]} : k \in Times \X EIDs}

\* A file's name is its second, then the event's number, in fixed widths: the
\* order of names is the order of time, but for the hour that local time repeats
\* when daylight saving ends, which is left out.
NameBefore(r, s) == r.time < s.time \/ (r.time = s.time /\ r.eid < s.eid)
NextInFile(r, s) == r.time = s.time /\ r.eid = s.eid /\ r.place < s.place

\* The names are walked from rbegin() to rend(), each file from its start.
Precedes(r, s) == NameBefore(s, r) \/ NextInFile(r, s)

\* Fault: the set of names is walked from begin() to end().
FaultOldestFirst(u) ==
    {r \in Entries(u) :
        Cardinality({s \in Entries(u) : NameBefore(s, r) \/ NextInFile(s, r)}) < MAX_LISTED}

\* What an OK reply to LMR lists for user u: both loops end once MAX_LISTED
\* numbers are in it.
myreservations(u) ==
    {r \in Entries(u) : Cardinality({s \in Entries(u) : Precedes(s, r)}) < MAX_LISTED}

-----------------------------------------------------------------------------
\* The seats of event e that the users are told they hold.
SeatsTold(e) ==
    UNION {UNION {SeatBlock(<<r.time, u>>, r.place, r.amount) :
                     r \in {s \in myreservations(u) : s.eid = e}} : u \in UIDs}

\* Where nobody's listing is full, what the users are told they hold of an
\* event adds up to the seats it has sold.
AddUp ==
    (\A u \in UIDs : Cardinality(myreservations(u)) < MAX_LISTED) =>
        \A e \in DOMAIN event : Cardinality(SeatsTold(e)) = event[e].sold

\* A listing that lacks a reservation is full, and has none that was made in an
\* earlier second than one it lacks.
NewestKept ==
    \A u \in UIDs : \A r \in Entries(u) \ myreservations(u) :
        /\ Cardinality(myreservations(u)) = MAX_LISTED
        /\ \A s \in myreservations(u) : r.time <= s.time

\* myreservations tells the users what the events have sold, and cuts off the
\* oldest first.
ListingsTell == AddUp /\ NewestKept

=============================================================================
