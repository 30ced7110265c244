--------------------------- MODULE ListingsProofs ---------------------------
(***************************************************************************)
(* What a reply to LMR tells, proved for every set of users, every limit   *)
(* on its length and every history of bookings.  A user's entries are      *)
(* finitely many and Precedes orders them in a line, so those that come    *)
(* before an entry count its position; a listing takes the positions below *)
(* MAX_LISTED, all of them as soon as one entry has a later one.           *)
(***************************************************************************)
EXTENDS Listings, EventStoreProofs

-----------------------------------------------------------------------------
(***************************************************************************)
(* The entries.                                                            *)
(***************************************************************************)
LEMMA EntriesMember ==
    ASSUME NEW u, NEW r
    PROVE  r \in Entries(u) <=>
              \E k \in Times \X EIDs : \E j \in DOMAIN userRes[u][k] :
                  r = [time |-> k[1], eid |-> k[2], place |-> j, amount |-> userRes[u][k][j]]
BY DEF Entries

\* An entry is one number of the file its time and its event name.
LEMMA EntryParts ==
    ASSUME TypeOK, NEW u \in UIDs, NEW r \in Entries(u)
    PROVE  /\ r.time \in Times /\ r.eid \in EIDs
           /\ r.place \in DOMAIN userRes[u][<<r.time, r.eid>>]
           /\ r.place \in Nat /\ r.time \in Int /\ r.eid \in Int
           /\ r = [time |-> r.time, eid |-> r.eid, place |-> r.place,
                   amount |-> userRes[u][<<r.time, r.eid>>][r.place]]
<1>1. PICK k \in Times \X EIDs : \E j \in DOMAIN userRes[u][k] :
         r = [time |-> k[1], eid |-> k[2], place |-> j, amount |-> userRes[u][k][j]]
  BY EntriesMember
<1>2. PICK j \in DOMAIN userRes[u][k] :
         r = [time |-> k[1], eid |-> k[2], place |-> j, amount |-> userRes[u][k][j]]
  BY <1>1
<1>3. k = <<k[1], k[2]>> /\ k[1] \in Times /\ k[2] \in EIDs
  OBVIOUS
<1>4. k = <<r.time, r.eid>> /\ r.place = j
  BY <1>2, <1>3
<1>5. userRes[u][k] \in Seq(Nat)
  BY DEF TypeOK
<1>6. j \in Nat
  BY <1>2, <1>5
<1>7. r.time \in Int /\ r.eid \in Int
  BY <1>2, <1>3, LimitAssumption DEF Times, EIDs
<1>8. QED
  BY <1>2, <1>3, <1>4, <1>6, <1>7

\* A user has finitely many entries: files are named after the seconds so far
\* and the events.
LEMMA EntriesAreFinite ==
    ASSUME TypeOK, NEW u \in UIDs
    PROVE  IsFiniteSet(Entries(u))
<1> DEFINE Of(k) == {[time |-> k[1], eid |-> k[2], place |-> j, amount |-> userRes[u][k][j]] :
                        j \in DOMAIN userRes[u][k]}
           All == {Of(k) : k \in Times \X EIDs}
<1>1. IsFiniteSet(Times \X EIDs)
  <2>1. IsFiniteSet(Times) /\ IsFiniteSet(EIDs)
    BY LimitAssumption, FS_Interval DEF Times, EIDs
  <2>2. QED
    BY <2>1, FS_Product
<1>2. ASSUME NEW k \in Times \X EIDs
      PROVE  IsFiniteSet(Of(k))
  <2> DEFINE File == userRes[u][k]
             n == Len(File)
             entry == [j \in 1..n |-> [time |-> k[1], eid |-> k[2], place |-> j, amount |-> File[j]]]
  <2>1. File \in Seq(Nat)
    BY DEF TypeOK
  <2>2. n \in Nat /\ DOMAIN File = 1..n
    BY <2>1
  <2>3. IsFiniteSet(1..n)
    BY <2>2, FS_Interval
  <2>4. entry \in Surjection(1..n, Of(k))
    <3>1. entry \in [1..n -> Of(k)]
      BY <2>2
    <3>2. \A r \in Of(k) : \E j \in 1..n : entry[j] = r
      BY <2>2
    <3>3. QED
      BY <3>1, <3>2 DEF Surjection
  <2>5. QED
    BY <2>3, <2>4, FS_Surjection
<1>3. IsFiniteSet(All)
  <2> DEFINE of == [k \in Times \X EIDs |-> Of(k)]
  <2>1. of \in Surjection(Times \X EIDs, All)
    BY DEF Surjection
  <2>2. QED
    BY <1>1, <2>1, FS_Surjection
<1>4. \A T \in All : IsFiniteSet(T)
  BY <1>2
<1>5. Entries(u) = UNION All
  BY DEF Entries
<1> HIDE DEF All
<1>6. QED
  BY <1>3, <1>4, <1>5, FS_UNION

\* The walk meets the entries one after another.
LEMMA EntriesInLine ==
    ASSUME TypeOK, NEW u \in UIDs
    PROVE  \A r, s, t \in Entries(u) :
              /\ ~Precedes(r, r)
              /\ r # s => Precedes(r, s) \/ Precedes(s, r)
              /\ Precedes(r, s) /\ Precedes(s, t) => Precedes(r, t)
              /\ Precedes(r, s) => s.time <= r.time
<1> SUFFICES ASSUME NEW r \in Entries(u), NEW s \in Entries(u), NEW t \in Entries(u)
             PROVE  /\ ~Precedes(r, r)
                    /\ r # s => Precedes(r, s) \/ Precedes(s, r)
                    /\ Precedes(r, s) /\ Precedes(s, t) => Precedes(r, t)
                    /\ Precedes(r, s) => s.time <= r.time
  OBVIOUS
<1>1. \A x \in {r, s, t} : x.time \in Int /\ x.eid \in Int /\ x.place \in Nat
  BY EntryParts
<1>2. r.time = s.time /\ r.eid = s.eid /\ r.place = s.place => r = s
  BY EntryParts
<1>3. r # s => Precedes(r, s) \/ Precedes(s, r)
  BY <1>1, <1>2 DEF Precedes, NameBefore, NextInFile
<1>4. QED
  BY <1>1, <1>3 DEF Precedes, NameBefore, NextInFile

-----------------------------------------------------------------------------
(***************************************************************************)
(* Positions.                                                              *)
(***************************************************************************)
Earlier(u, r) == {s \in Entries(u) : Precedes(s, r)}
Position(u, r) == Cardinality(Earlier(u, r))

LEMMA FirstNumbers ==
    ASSUME NEW n \in Nat
    PROVE  IsFiniteSet(0..(n - 1)) /\ Cardinality(0..(n - 1)) = n
<1>1. 0 \in Int /\ n - 1 \in Int /\ (IF 0 > n - 1 THEN 0 ELSE (n - 1) - 0 + 1) = n
  OBVIOUS
<1>2. QED
  BY <1>1, FS_Interval

\* The positions count from 0, and no two entries share one.
LEMMA PositionsApart ==
    ASSUME TypeOK, NEW u \in UIDs
    PROVE  \A r, s \in Entries(u) :
              /\ Position(u, r) \in Nat /\ Position(u, r) < Cardinality(Entries(u))
              /\ Precedes(r, s) <=> Position(u, r) < Position(u, s)
              /\ Position(u, r) = Position(u, s) => r = s
<1>1. IsFiniteSet(Entries(u))
  BY EntriesAreFinite
<1>2. ASSUME NEW r \in Entries(u)
      PROVE  /\ IsFiniteSet(Earlier(u, r)) /\ Position(u, r) \in Nat
             /\ Position(u, r) < Cardinality(Entries(u))
  <2>1. Earlier(u, r) \in SUBSET Entries(u) /\ Earlier(u, r) # Entries(u)
    BY EntriesInLine DEF Earlier
  <2>2. IsFiniteSet(Earlier(u, r)) /\ Cardinality(Earlier(u, r)) <= Cardinality(Entries(u))
        /\ Cardinality(Earlier(u, r)) # Cardinality(Entries(u))
    BY <1>1, <2>1, FS_Subset
  <2>3. Cardinality(Earlier(u, r)) \in Nat /\ Cardinality(Entries(u)) \in Nat
    BY <1>1, <2>2, FS_CardinalityType
  <2>4. QED
    BY <2>2, <2>3 DEF Position
<1>3. ASSUME NEW r \in Entries(u), NEW s \in Entries(u), Precedes(r, s)
      PROVE  Position(u, r) < Position(u, s)
  <2>1. Earlier(u, r) \in SUBSET Earlier(u, s) /\ r \in Earlier(u, s) /\ r \notin Earlier(u, r)
    BY <1>3, EntriesInLine DEF Earlier
  <2>2. /\ Cardinality(Earlier(u, r)) <= Cardinality(Earlier(u, s))
        /\ Cardinality(Earlier(u, r)) # Cardinality(Earlier(u, s))
    BY <1>2, <2>1, FS_Subset
  <2>3. QED
    BY <1>2, <2>2 DEF Position
<1>4. ASSUME NEW r \in Entries(u), NEW s \in Entries(u)
      PROVE  /\ Precedes(r, s) <=> Position(u, r) < Position(u, s)
             /\ Position(u, r) = Position(u, s) => r = s
  BY <1>2, <1>3, EntriesInLine
<1>5. QED
  BY <1>2, <1>4

\* The positions are 0, 1, ... with none left out.
LEMMA PositionsTaken ==
    ASSUME TypeOK, NEW u \in UIDs, NEW i \in Nat, i < Cardinality(Entries(u))
    PROVE  \E r \in Entries(u) : Position(u, r) = i
<1> DEFINE E == Entries(u)
           n == Cardinality(E)
           position == [r \in E |-> Position(u, r)]
<1>1. IsFiniteSet(E) /\ n \in Nat
  BY EntriesAreFinite, FS_CardinalityType
<1>2. IsFiniteSet(0..(n - 1)) /\ Cardinality(0..(n - 1)) = n
  BY <1>1, FirstNumbers
<1>3. position \in Injection(E, 0..(n - 1))
  <2>1. position \in [E -> 0..(n - 1)]
    BY <1>1, PositionsApart
  <2>2. \A r, s \in E : position[r] = position[s] => r = s
    BY PositionsApart
  <2>3. QED
    BY <2>1, <2>2 DEF Injection, IsInjective
<1> HIDE DEF E, n
<1>4. position \in Surjection(E, 0..(n - 1))
  <2> HIDE DEF position
  <2>1. Cardinality(E) = Cardinality(0..(n - 1))
    BY <1>2 DEF n
  <2>2. QED
    BY <1>2, <1>3, <2>1, FS_Injection
<1>5. i \in 0..(n - 1)
  BY <1>1 DEF n, E
<1>6. QED
  BY <1>4, <1>5 DEF Surjection, E

-----------------------------------------------------------------------------
(***************************************************************************)
(* The listing takes the first positions.                                  *)
(***************************************************************************)
LEMMA ListedByPosition ==
    ASSUME NEW u
    PROVE  myreservations(u) = {r \in Entries(u) : Position(u, r) < MAX_LISTED}
BY DEF myreservations, Position, Earlier

\* A listing that lacks an entry has MAX_LISTED others, each of which the walk
\* meets before it.
LEMMA FullListing ==
    ASSUME TypeOK, NEW u \in UIDs, NEW r \in Entries(u) \ myreservations(u)
    PROVE  /\ Cardinality(myreservations(u)) = MAX_LISTED
           /\ \A s \in myreservations(u) : Precedes(s, r)
<1> DEFINE L == myreservations(u)
           M == MAX_LISTED
           position == [s \in L |-> Position(u, s)]
<1>1. L = {s \in Entries(u) : Position(u, s) < M}
  BY ListedByPosition
<1>2. M \in Nat /\ Position(u, r) \in Nat /\ Position(u, r) >= M
  BY <1>1, PositionsApart, ListingAssumption
<1>3. IsFiniteSet(0..(M - 1)) /\ Cardinality(0..(M - 1)) = M
  BY <1>2, FirstNumbers
<1>4. Position(u, r) < Cardinality(Entries(u)) /\ Cardinality(Entries(u)) \in Nat
  BY EntriesAreFinite, PositionsApart, FS_CardinalityType
<1> HIDE DEF L
<1>5. position \in Injection(L, 0..(M - 1))
  <2>1. position \in [L -> 0..(M - 1)]
    BY <1>1, <1>2, PositionsApart
  <2>2. \A s, t \in L : position[s] = position[t] => s = t
    BY <1>1, PositionsApart
  <2>3. QED
    BY <2>1, <2>2 DEF Injection, IsInjective
<1>6. position \in Surjection(L, 0..(M - 1))
  <2>1. ASSUME NEW i \in 0..(M - 1)
        PROVE  \E s \in L : position[s] = i
    <3>1. i \in Nat /\ i < M /\ i < Cardinality(Entries(u))
      BY <1>2, <1>4
    <3>2. PICK s \in Entries(u) : Position(u, s) = i
      BY <3>1, PositionsTaken
    <3>3. s \in L
      BY <1>1, <3>1, <3>2
    <3>4. QED
      BY <3>2, <3>3
  <2>2. QED
    BY <1>5, <2>1 DEF Injection, Surjection
<1>7. Cardinality(L) = M
  <2> HIDE DEF position
  <2>1. QED
    BY <1>3, <1>5, <1>6, FS_Injection
<1>8. \A s \in L : Precedes(s, r)
  BY <1>1, <1>2, PositionsApart
<1>9. QED
  BY <1>7, <1>8 DEF L

LEMMA NewestAreKept == TypeOK => NewestKept
<1> SUFFICES ASSUME TypeOK, NEW u \in UIDs, NEW r \in Entries(u) \ myreservations(u)
             PROVE  /\ Cardinality(myreservations(u)) = MAX_LISTED
                    /\ \A s \in myreservations(u) : r.time <= s.time
  BY DEF NewestKept
<1>1. /\ Cardinality(myreservations(u)) = MAX_LISTED
      /\ \A s \in myreservations(u) : Precedes(s, r) /\ s \in Entries(u)
  BY FullListing DEF myreservations
<1>2. QED
  BY <1>1, EntriesInLine

\* A listing that is not full has every entry.
LEMMA ListedWhole ==
    ASSUME TypeOK, NEW u \in UIDs, Cardinality(myreservations(u)) < MAX_LISTED
    PROVE  myreservations(u) = Entries(u)
<1>1. myreservations(u) \subseteq Entries(u)
  BY DEF myreservations
<1>2. ASSUME NEW r \in Entries(u) \ myreservations(u)
      PROVE  FALSE
  BY FullListing, ListingAssumption
<1>3. QED
  BY <1>1, <1>2

-----------------------------------------------------------------------------
(***************************************************************************)
(* The seats told.                                                         *)
(***************************************************************************)
\* Where nobody's listing is full, the seats told are those the event's own
\* files record.
LEMMA SeatsToldAreRecorded ==
    ASSUME TypeOK, LedgersAgree, \A u \in UIDs : myreservations(u) = Entries(u),
           NEW e \in DOMAIN event
    PROVE  SeatsTold(e) = SeatsIn(event[e].reservations)
<1> DEFINE res == event[e].reservations
<1>1. e \in EIDs /\ DOMAIN res = Times \X UIDs
  BY DEF TypeOK, Event
<1>2. \A u \in UIDs, t \in Times : res[<<t, u>>] = userRes[u][<<t, e>>]
  BY DEF LedgersAgree
<1>3. ASSUME NEW x \in SeatsTold(e)
      PROVE  x \in SeatsIn(res)
  <2>1. PICK u \in UIDs : \E r \in Entries(u) :
                             r.eid = e /\ x \in SeatBlock(<<r.time, u>>, r.place, r.amount)
    BY <1>3 DEF SeatsTold
  <2>2. PICK r \in Entries(u) : r.eid = e /\ x \in SeatBlock(<<r.time, u>>, r.place, r.amount)
    BY <2>1
  <2>3. PICK i \in 1..r.amount : x = <<<<r.time, u>>, r.place, i>>
    BY <2>2 DEF SeatBlock
  <2>4. /\ r.time \in Times /\ r.place \in DOMAIN userRes[u][<<r.time, e>>]
        /\ r.amount = userRes[u][<<r.time, e>>][r.place]
    BY <2>2, EntryParts
  <2>5. <<r.time, u>> \in DOMAIN res /\ r.place \in DOMAIN res[<<r.time, u>>] /\ r.amount = res[<<r.time, u>>][r.place]
    BY <1>1, <1>2, <2>4
  <2>6. QED
    BY <2>3, <2>5, SeatsInMember
<1>4. ASSUME NEW x \in SeatsIn(res)
      PROVE  x \in SeatsTold(e)
  <2>1. PICK k \in Times \X UIDs : \E j \in DOMAIN res[k] : \E i \in 1..res[k][j] : x = <<k, j, i>>
    BY <1>1, <1>4, SeatsInMember
  <2>2. PICK j \in DOMAIN res[k] : \E i \in 1..res[k][j] : x = <<k, j, i>>
    BY <2>1
  <2> DEFINE t == k[1]
             u == k[2]
             r == [time |-> t, eid |-> e, place |-> j, amount |-> res[k][j]]
  <2>3. k = <<t, u>> /\ t \in Times /\ u \in UIDs
    OBVIOUS
  <2>4. res[k] = userRes[u][<<t, e>>] /\ <<t, e>> \in Times \X EIDs
    BY <1>1, <1>2, <2>3
  <2>5. r \in Entries(u)
    BY <2>4, EntriesMember
  <2>6. x \in SeatBlock(<<r.time, u>>, r.place, r.amount)
    BY <2>2, <2>3 DEF SeatBlock
  <2>7. r \in myreservations(u) /\ r.eid = e
    BY <2>3, <2>5
  <2> HIDE DEF r, t, u
  <2>8. QED
    BY <2>3, <2>6, <2>7 DEF SeatsTold
<1>5. QED
  BY <1>3, <1>4

LEMMA ToldFromInvariants == TypeOK /\ SeatsConserved /\ LedgersAgree => ListingsTell
<1> SUFFICES ASSUME TypeOK, SeatsConserved, LedgersAgree
             PROVE  ListingsTell
  OBVIOUS
<1>1. ASSUME \A u \in UIDs : Cardinality(myreservations(u)) < MAX_LISTED, NEW e \in DOMAIN event
      PROVE  Cardinality(SeatsTold(e)) = event[e].sold
  <2>1. \A u \in UIDs : myreservations(u) = Entries(u)
    BY <1>1, ListedWhole
  <2>2. SeatsTold(e) = SeatsIn(event[e].reservations)
    BY <2>1, SeatsToldAreRecorded
  <2>3. QED
    BY <2>2 DEF SeatsConserved
<1>2. QED
  BY <1>1, NewestAreKept DEF ListingsTell, AddUp

\* What the users are told of their reservations adds up to the seats sold
\* where no listing is full; and one that is full lacks nothing that was
\* reserved in a later second than what it has.
THEOREM ListingsAlwaysTell == Spec => []ListingsTell
BY TypeCorrect, SeatsAreConserved, BothLedgersAgree, ToldFromInvariants, PTL

=============================================================================
