-------------------------- MODULE EventStoreProofs --------------------------
(***************************************************************************)
(* What is proved about EventStore for every set of users, passwords and   *)
(* connections, every request the parsers let through and every limit: the *)
(* invariants, then the whole life of an event and the refinement of       *)
(* EventLifecycle.                                                         *)
(***************************************************************************)
EXTENDS EventStore, LedgerProofs

\* What the parsers let through are numbers.
LEMMA SizesAreNumbers ==
    /\ \A s \in FileSizes : s \in Nat
    /\ \A n \in Seats : n \in Nat
    /\ \A a \in Attendances : a \in Nat
BY RequestAssumption DEF parse_attendance, parse_filesize, parse_reserve_number

LEMMA NumbersAreIntegers == MaxEvents \in Nat /\ EIDs \subseteq Nat
BY LimitAssumption DEF EIDs

\* A new event's record has the shape of one.
LEMMA NewEventType ==
    ASSUME NEW u \in UIDs, NEW d \in Times, NEW a \in Attendances,
           NEW s \in FileSizes, NEW b \in Nat
    PROVE  NewEvent(u, d, a, s, b) \in Event
BY DEF NewEvent, Event

LEMMA InitType == Init => TypeOK
BY LimitAssumption DEF Init, TypeOK, EIDs, Times, Event, Upload

-----------------------------------------------------------------------------
(***************************************************************************)
(* Types.                                                                  *)
(***************************************************************************)
LEMMA AccountTypes ==
    ASSUME TypeOK, AccountStep
    PROVE  TypeOK'
<1> USE DEF TypeOK
<1>1. ASSUME NEW u \in UIDs, NEW p \in Passwords, Login(u, p)
      PROVE  TypeOK'
  <2>1. DOMAIN passwd' \subseteq UIDs /\ passwd' \in [DOMAIN passwd' -> Passwords]
    BY <1>1 DEF Login, Put
  <2>2. QED
    BY <1>1, <2>1 DEF Login
<1>2. ASSUME NEW u \in UIDs, NEW p \in Passwords, Logout(u, p)
      PROVE  TypeOK'
  BY <1>2 DEF Logout
<1>3. ASSUME NEW u \in UIDs, NEW p \in Passwords, Unregister(u, p)
      PROVE  TypeOK'
  <2>1. DOMAIN passwd' \subseteq UIDs /\ passwd' \in [DOMAIN passwd' -> Passwords]
    BY <1>3 DEF Unregister, Without, Restrict
  <2>2. QED
    BY <1>3, <2>1 DEF Unregister
<1>4. ASSUME NEW u \in UIDs, NEW p \in Passwords, NEW new \in Passwords,
             ChangePass(u, p, new)
      PROVE  TypeOK'
  BY <1>4 DEF ChangePass
<1>5. QED
  BY <1>1, <1>2, <1>3, <1>4 DEF AccountStep

\* The number a create is about to issue is one the server may issue.
LEMMA NextEidType ==
    ASSUME TypeOK, NEW u \in UIDs, NEW p \in Passwords,
           start_create_event(u, p) = "OK"
    PROVE  NextEid \in EIDs
<1>1. lastEvent \in 0..MaxEvents
  BY DEF TypeOK
<1>2. lastEvent # MaxEvents
  BY DEF start_create_event
<1>3. QED
  BY <1>1, <1>2, LimitAssumption DEF NextEid, EIDs

\* Changing how much of an event's description is on disk keeps its shape.
LEMMA DescriptionType ==
    ASSUME TypeOK, NEW e, NEW b, e \in DOMAIN event => b \in Nat,
           event' = [event EXCEPT ![e].description = b]
    PROVE  DOMAIN event' \subseteq EIDs /\ event' \in [DOMAIN event' -> Event]
<1>1. DOMAIN event \subseteq EIDs /\ event \in [DOMAIN event -> Event]
  BY DEF TypeOK
<1>2. DOMAIN event' = DOMAIN event
  OBVIOUS
<1>3. QED
  BY <1>1, <1>2 DEF Event

\* A new event directory keeps the set of them well formed.
LEMMA PutEventType ==
    ASSUME TypeOK, NextEid \in EIDs,
           NEW u \in UIDs, NEW d \in Times, NEW a \in Attendances,
           NEW s \in FileSizes, NEW b \in Nat,
           event' = Put(event, NextEid, NewEvent(u, d, a, s, b))
    PROVE  DOMAIN event' \subseteq EIDs /\ event' \in [DOMAIN event' -> Event]
<1>1. DOMAIN event \subseteq EIDs /\ event \in [DOMAIN event -> Event]
  BY DEF TypeOK
<1>2. NewEvent(u, d, a, s, b) \in Event
  BY NewEventType
<1>3. QED
  BY <1>1, <1>2 DEF Put

LEMMA WithoutUploadType ==
    ASSUME TypeOK, NEW c, uploads' = Without(uploads, c)
    PROVE  DOMAIN uploads' \subseteq Connections /\ uploads' \in [DOMAIN uploads' -> Upload]
BY DEF TypeOK, Without, Restrict

\* A create's header, accepted or not in full, leaves the store well formed.
LEMMA HeaderTypes ==
    ASSUME TypeOK, NEW c \in Connections, NEW u \in UIDs, NEW p \in Passwords,
           NEW d \in Times, NEW a \in Attendances, NEW s \in FileSizes,
           NEW k \in 0..MaxRead, NEW newline \in BOOLEAN,
           CreateHeader(c, u, p, d, a, s, k, newline)
    PROVE  TypeOK'
<1>1. NextEid \in EIDs
  BY NextEidType DEF CreateHeader
<1>2. k \in Nat /\ s \in Nat /\ \A b \in 0..k : b \in Nat
  BY LimitAssumption, SizesAreNumbers
<1>3. lastEvent' \in 0..MaxEvents
  BY <1>1, LimitAssumption DEF CreateHeader, create_event_dirs, EIDs
<1>4. userEvents' \in [UIDs -> SUBSET EIDs]
  BY <1>1 DEF CreateHeader, create_event_dirs, TypeOK
<1>5. DOMAIN event' \subseteq EIDs /\ event' \in [DOMAIN event' -> Event]
  <2>1. CASE event' = event
    BY <2>1 DEF TypeOK
  <2>2. CASE \E b \in Nat : event' = Put(event, NextEid, NewEvent(u, d, a, s, b))
    BY <1>1, <2>2, PutEventType
  <2>3. QED
    BY <1>2, <2>1, <2>2 DEF CreateHeader
<1>6. DOMAIN uploads' \subseteq Connections /\ uploads' \in [DOMAIN uploads' -> Upload]
  <2>1. [eid |-> NextEid, filesize |-> s, written |-> k] \in Upload
    BY <1>1, <1>2 DEF Upload
  <2>2. QED
    BY <2>1 DEF CreateHeader, TypeOK, Put
<1>7. UNCHANGED <<accounts, userRes, now>>
  BY DEF CreateHeader
<1>8. QED
  BY <1>3, <1>4, <1>5, <1>6, <1>7 DEF accounts, TypeOK

LEMMA UploadTypes ==
    ASSUME TypeOK, UploadStep
    PROVE  TypeOK'
<1>1. ASSUME NEW c \in Connections, NEW u \in UIDs, NEW p \in Passwords,
             NEW d \in Times, NEW a \in Attendances, NEW s \in FileSizes,
             CreateCannotOpen(c, u, p, d, a, s)
      PROVE  TypeOK'
  <2>1. NextEid \in EIDs
    BY <1>1, NextEidType DEF CreateCannotOpen
  <2>2. lastEvent' \in 0..MaxEvents
    BY <1>1, <2>1, LimitAssumption DEF CreateCannotOpen, create_event_dirs, EIDs
  <2>3. userEvents' \in [UIDs -> SUBSET EIDs]
    BY <1>1, <2>1 DEF CreateCannotOpen, create_event_dirs, TypeOK
  <2>4. DOMAIN event' \subseteq EIDs /\ event' \in [DOMAIN event' -> Event]
    BY <1>1, <2>1, PutEventType DEF CreateCannotOpen
  <2>5. QED
    BY <1>1, <2>2, <2>3, <2>4 DEF CreateCannotOpen, accounts, TypeOK
<1>2. ASSUME NEW c \in Connections, NEW k \in 1..MaxRead, NEW newline \in BOOLEAN,
             UploadData(c, k, newline)
      PROVE  TypeOK'
  <2>1. uploads[c] \in Upload /\ k \in Nat
    BY <1>2, LimitAssumption DEF UploadData, TypeOK
  <2>2. /\ DOMAIN event' \subseteq EIDs /\ event' \in [DOMAIN event' -> Event]
        /\ DOMAIN uploads' \subseteq Connections /\ uploads' \in [DOMAIN uploads' -> Upload]
    <3>1. CASE StoreMore(c, k)
      <4>1. PICK b \in event[uploads[c].eid].description .. uploads[c].written + k :
               event' = [event EXCEPT ![uploads[c].eid].description = b]
        BY <3>1 DEF StoreMore
      <4>2. uploads[c].eid \in DOMAIN event => event[uploads[c].eid].description \in Nat
        BY DEF TypeOK, Event
      <4>3. uploads[c].written + k \in Nat
        BY <2>1 DEF Upload
      <4>4. uploads[c].eid \in DOMAIN event => b \in Nat
        BY <4>1, <4>2, <4>3
      <4>5. uploads' \in [DOMAIN uploads -> Upload] /\ DOMAIN uploads' = DOMAIN uploads
        <5>1. uploads \in [DOMAIN uploads -> Upload]
          BY DEF TypeOK
        <5>2. QED
          BY <3>1, <4>3, <5>1 DEF StoreMore, Upload
      <4>6. DOMAIN uploads' \subseteq Connections
        BY <4>5 DEF TypeOK
      <4>7. QED
        BY <4>1, <4>4, <4>5, <4>6, DescriptionType
    <3>2. CASE FinishUpload(c)
      <4>1. uploads[c].filesize \in Nat
        <5>1. uploads[c].filesize \in FileSizes
          BY <2>1 DEF Upload
        <5>2. QED
          BY <5>1, SizesAreNumbers
      <4>2. QED
        BY <3>2, <4>1, DescriptionType, WithoutUploadType DEF FinishUpload
    <3>3. CASE DestroyUpload(c)
      <4>1. DOMAIN event' \subseteq EIDs /\ event' \in [DOMAIN event' -> Event]
        BY <3>3 DEF DestroyUpload, TypeOK, Without, Restrict
      <4>2. QED
        BY <3>3, <4>1, WithoutUploadType DEF DestroyUpload
    <3>4. QED
      BY <1>2, <3>1, <3>2, <3>3 DEF UploadData
  <2>3. QED
    BY <1>2, <2>2 DEF UploadData, accounts, TypeOK
<1>3. ASSUME NEW c \in Connections, Disconnect(c)
      PROVE  TypeOK'
  <2>1. uploads[c].written \in Nat
    BY <1>3 DEF Disconnect, Upload, TypeOK
  <2>2. DOMAIN event' \subseteq EIDs /\ event' \in [DOMAIN event' -> Event]
    BY <1>3, <2>1, DescriptionType DEF Disconnect
  <2>3. DOMAIN uploads' \subseteq Connections /\ uploads' \in [DOMAIN uploads' -> Upload]
    BY <1>3, WithoutUploadType DEF Disconnect
  <2>4. QED
    BY <1>3, <2>2, <2>3 DEF Disconnect, accounts, TypeOK
<1>4. QED
  BY <1>1, <1>2, <1>3, HeaderTypes DEF UploadStep

LEMMA BookingTypes ==
    ASSUME TypeOK, BookingStep
    PROVE  TypeOK'
<1>1. ASSUME NEW u \in UIDs, NEW p \in Passwords, NEW e \in EIDs, Close(u, p, e)
      PROVE  TypeOK'
  <2>1. event \in [DOMAIN event -> Event]
    BY DEF TypeOK
  <2>2. event' \in [DOMAIN event -> Event] /\ DOMAIN event' = DOMAIN event
    BY <1>1, <2>1 DEF Close, Event
  <2>3. QED
    BY <1>1, <2>2 DEF Close, accounts, TypeOK
<1>2. ASSUME NEW u \in UIDs, NEW p \in Passwords, NEW e \in EIDs, NEW n \in Seats,
             Reserve(u, p, e, n)
      PROVE  TypeOK'
  <2>1. n \in Nat
    BY SizesAreNumbers
  <2>2. now \in Times /\ event \in [DOMAIN event -> Event]
    BY DEF TypeOK
  <2>3. <<now, u>> \in Times \X UIDs /\ <<now, e>> \in Times \X EIDs
    BY <2>2
  <2>4. e \in DOMAIN event
    BY <1>2 DEF Reserve, reserve, does_event_exist
  <2>5. Recorded(event[e].reservations, <<now, u>>, n) \in [Times \X UIDs -> Seq(Nat)]
    <3>1. event[e].reservations \in [Times \X UIDs -> Seq(Nat)]
      BY <2>2, <2>4 DEF Event
    <3>2. QED
      BY <2>1, <2>3, <3>1, RecordedType
  <2>6. event[e].sold + n \in Nat
    BY <2>1, <2>2, <2>4 DEF Event
  <2>7. DOMAIN event' = DOMAIN event /\ event' \in [DOMAIN event -> Event]
    BY <1>2, <2>2, <2>4, <2>5, <2>6 DEF Reserve, Event
  <2>8. userRes' \in [UIDs -> [Times \X EIDs -> Seq(Nat)]]
    <3>1. userRes \in [UIDs -> [Times \X EIDs -> Seq(Nat)]]
      BY DEF TypeOK
    <3>2. Recorded(userRes[u], <<now, e>>, n) \in [Times \X EIDs -> Seq(Nat)]
      BY <2>1, <2>3, <3>1, RecordedType
    <3>3. QED
      BY <1>2, <3>1, <3>2 DEF Reserve
  <2>9. QED
    BY <1>2, <2>7, <2>8 DEF Reserve, accounts, TypeOK
<1>3. QED
  BY <1>1, <1>2 DEF BookingStep

LEMMA StepTypes ==
    ASSUME TypeOK, [Next]_vars
    PROVE  TypeOK'
<1>1. CASE Tick
  <2>1. now' \in Times
    BY <1>1, LimitAssumption DEF Tick, TypeOK, Times
  <2>2. QED
    BY <1>1, <2>1 DEF Tick, TypeOK, accounts
<1>2. CASE UNCHANGED vars
  BY <1>2 DEF vars, TypeOK
<1>3. CASE Restart
  <2>1. uploads' \in [DOMAIN uploads' -> Upload] /\ DOMAIN uploads' \subseteq Connections
    BY <1>3 DEF Restart
  <2>2. QED
    BY <1>3, <2>1 DEF Restart, TypeOK, accounts
<1>4. QED
  BY <1>1, <1>2, <1>3, AccountTypes, UploadTypes, BookingTypes DEF Next

\* Every file the server keeps has the shape the handlers expect, whatever
\* the users do: no handler reads a record another one left malformed.
THEOREM TypeCorrect == Spec => []TypeOK
BY InitType, StepTypes, PTL DEF Spec

-----------------------------------------------------------------------------
(***************************************************************************)
(* Seats.  total-res is one number and the reservation files are many; the *)
(* invariant that relates them counts the seats of the files as elements   *)
(* of a set (LedgerProofs).                                                *)
(***************************************************************************)
\* The inductive form of SeatsConserved: the seats on file are finitely many,
\* without which their Cardinality says nothing.
Counted(r) ==
    /\ IsFiniteSet(SeatsIn(r.reservations))
    /\ r.sold = Cardinality(SeatsIn(r.reservations))
    /\ r.sold <= r.attendance

AllCounted == \A e \in DOMAIN event : Counted(event[e])

LEMMA NewEventCounted ==
    ASSUME NEW u \in UIDs, NEW d \in Times, NEW a \in Attendances,
           NEW s \in FileSizes, NEW b
    PROVE  Counted(NewEvent(u, d, a, s, b))
<1> DEFINE r == NewEvent(u, d, a, s, b)
<1>1. SeatsIn(r.reservations) = {}
  BY SeatsInEmpty DEF NewEvent
<1>2. r.sold = 0 /\ r.attendance = a /\ a \in Nat
  BY SizesAreNumbers DEF NewEvent
<1> HIDE DEF r
<1>3. Counted(r)
  BY <1>1, <1>2, FS_EmptySet DEF Counted
<1>4. QED
  BY <1>3 DEF r

\* Bringing in more of a description counts no seat.
LEMMA DescriptionCounted ==
    ASSUME AllCounted, NEW e, NEW b, event' = [event EXCEPT ![e].description = b]
    PROVE  AllCounted'
<1>1. ASSUME NEW x \in DOMAIN event'
      PROVE  /\ x \in DOMAIN event
             /\ event'[x].sold = event[x].sold
             /\ event'[x].attendance = event[x].attendance
             /\ event'[x].reservations = event[x].reservations
  OBVIOUS
<1>2. QED
  BY <1>1 DEF AllCounted, Counted

LEMMA PutCounted ==
    ASSUME AllCounted, NEW e, NEW r, Counted(r), event' = Put(event, e, r)
    PROVE  AllCounted'
BY DEF AllCounted, Put

LEMMA WithoutCounted ==
    ASSUME AllCounted, NEW e, event' = Without(event, e)
    PROVE  AllCounted'
BY DEF AllCounted, Without, Restrict

LEMMA UploadCounted ==
    ASSUME AllCounted, UploadStep
    PROVE  AllCounted'
<1>1. ASSUME NEW c \in Connections, NEW u \in UIDs, NEW p \in Passwords,
             NEW d \in Times, NEW a \in Attendances, NEW s \in FileSizes,
             NEW k \in 0..MaxRead, NEW newline \in BOOLEAN,
             CreateHeader(c, u, p, d, a, s, k, newline)
      PROVE  AllCounted'
  <2>1. CASE event' = event
    BY <2>1 DEF AllCounted
  <2>2. CASE \E b : event' = Put(event, NextEid, NewEvent(u, d, a, s, b))
    BY <2>2, NewEventCounted, PutCounted
  <2>3. QED
    BY <1>1, <2>1, <2>2 DEF CreateHeader
<1>2. ASSUME NEW c \in Connections, NEW u \in UIDs, NEW p \in Passwords,
             NEW d \in Times, NEW a \in Attendances, NEW s \in FileSizes,
             CreateCannotOpen(c, u, p, d, a, s)
      PROVE  AllCounted'
  BY <1>2, NewEventCounted, PutCounted DEF CreateCannotOpen
<1>3. ASSUME NEW c \in Connections, NEW k \in 1..MaxRead, NEW newline \in BOOLEAN,
             UploadData(c, k, newline)
      PROVE  AllCounted'
  <2>1. CASE StoreMore(c, k)
    BY <2>1, DescriptionCounted DEF StoreMore
  <2>2. CASE FinishUpload(c)
    BY <2>2, DescriptionCounted DEF FinishUpload
  <2>3. CASE DestroyUpload(c)
    BY <2>3, WithoutCounted DEF DestroyUpload
  <2>4. QED
    BY <1>3, <2>1, <2>2, <2>3 DEF UploadData
<1>4. ASSUME NEW c \in Connections, Disconnect(c)
      PROVE  AllCounted'
  BY <1>4, DescriptionCounted DEF Disconnect
<1>5. QED
  BY <1>1, <1>2, <1>3, <1>4 DEF UploadStep

LEMMA BookingCounted ==
    ASSUME TypeOK, AllCounted, BookingStep
    PROVE  AllCounted'
<1>1. ASSUME NEW u \in UIDs, NEW p \in Passwords, NEW e \in EIDs, Close(u, p, e)
      PROVE  AllCounted'
  <2>1. ASSUME NEW x \in DOMAIN event'
        PROVE  /\ x \in DOMAIN event
               /\ event'[x].sold = event[x].sold
               /\ event'[x].attendance = event[x].attendance
               /\ event'[x].reservations = event[x].reservations
    BY <1>1 DEF Close
  <2>2. QED
    BY <2>1 DEF AllCounted, Counted
<1>2. ASSUME NEW u \in UIDs, NEW p \in Passwords, NEW e \in EIDs, NEW n \in Seats,
             Reserve(u, p, e, n)
      PROVE  AllCounted'
  <2>1. e \in DOMAIN event /\ ~(n > event[e].attendance - event[e].sold)
    BY <1>2 DEF Reserve, reserve, does_event_exist, Remaining
  <2>2. event[e] \in Event /\ n \in Nat /\ <<now, u>> \in Times \X UIDs
    BY <2>1, SizesAreNumbers DEF TypeOK
  <2>3. /\ DOMAIN event' = DOMAIN event
        /\ \A x \in DOMAIN event : x # e => event'[x] = event[x]
        /\ event'[e].sold = event[e].sold + n
        /\ event'[e].attendance = event[e].attendance
        /\ event'[e].reservations = Recorded(event[e].reservations, <<now, u>>, n)
    BY <1>2, <2>1, <2>2 DEF Reserve, Event
  <2>4. /\ event[e].reservations \in [Times \X UIDs -> Seq(Nat)]
        /\ event[e].sold \in Nat /\ event[e].attendance \in Nat
    BY <2>2, SizesAreNumbers DEF Event
  <2>5. Counted(event[e])
    BY <2>1 DEF AllCounted
  <2>6. /\ IsFiniteSet(SeatsIn(event'[e].reservations))
        /\ Cardinality(SeatsIn(event'[e].reservations))
              = Cardinality(SeatsIn(event[e].reservations)) + n
    <3>1. IsFiniteSet(SeatsIn(event[e].reservations))
      BY <2>5 DEF Counted
    <3> DEFINE f == event[e].reservations
               g == Recorded(f, <<now, u>>, n)
    <3>2. f \in [Times \X UIDs -> Seq(Nat)] /\ IsFiniteSet(SeatsIn(f))
      BY <2>4, <3>1
    <3> HIDE DEF f
    <3>3. IsFiniteSet(SeatsIn(g)) /\ Cardinality(SeatsIn(g)) = Cardinality(SeatsIn(f)) + n
      BY <2>2, <3>2, SeatsInRecorded
    <3>4. QED
      BY <2>3, <3>3 DEF f
  <2>7. event[e].sold + n <= event[e].attendance
    BY <2>1, <2>2, <2>4
  <2>8. Counted(event'[e])
    BY <2>3, <2>5, <2>6, <2>7 DEF Counted
  <2>9. QED
    BY <2>3, <2>8 DEF AllCounted
<1>3. QED
  BY <1>1, <1>2 DEF BookingStep

LEMMA StepCounted ==
    ASSUME TypeOK, AllCounted, [Next]_vars
    PROVE  AllCounted'
<1>1. CASE UNCHANGED event
  BY <1>1 DEF AllCounted
<1>2. CASE UploadStep
  BY <1>2, UploadCounted
<1>3. CASE BookingStep
  BY <1>3, BookingCounted
<1>4. AccountStep => UNCHANGED event
  BY DEF AccountStep, Login, Logout, Unregister, ChangePass
<1>5. QED
  BY <1>1, <1>2, <1>3, <1>4 DEF Next, Restart, Tick, vars

\* No event is ever oversold and total-res always equals what the event's
\* reservation files hold, for any number of users, events, seats and seconds.
THEOREM SeatsAreConserved == Spec => []SeatsConserved
<1>1. Init => AllCounted
  BY DEF Init, AllCounted
<1>2. AllCounted => SeatsConserved
  BY DEF AllCounted, Counted, SeatsConserved
<1>3. QED
  BY <1>1, <1>2, TypeCorrect, StepCounted, PTL DEF Spec

-----------------------------------------------------------------------------
(***************************************************************************)
(* Accounts.                                                               *)
(***************************************************************************)
LEMMA StepRegistered ==
    ASSUME LoggedInRegistered, [Next]_vars
    PROVE  LoggedInRegistered'
<1> USE DEF LoggedInRegistered
<1>1. ASSUME NEW u \in UIDs, NEW p \in Passwords, Login(u, p)
      PROVE  LoggedInRegistered'
  <2>1. CASE passwd' = Put(passwd, u, p)
    BY <1>1, <2>1 DEF Login, Put
  <2>2. CASE check_password(u, p) /\ UNCHANGED passwd
    BY <1>1, <2>2 DEF Login, check_password
  <2>3. QED
    BY <1>1, <2>1, <2>2 DEF Login
<1>2. ASSUME NEW u \in UIDs, NEW p \in Passwords, Logout(u, p)
      PROVE  LoggedInRegistered'
  BY <1>2 DEF Logout
<1>3. ASSUME NEW u \in UIDs, NEW p \in Passwords, Unregister(u, p)
      PROVE  LoggedInRegistered'
  BY <1>3 DEF Unregister, Without, Restrict
<1>4. ASSUME NEW u \in UIDs, NEW p \in Passwords, NEW new \in Passwords,
             ChangePass(u, p, new)
      PROVE  LoggedInRegistered'
  BY <1>4 DEF ChangePass
<1>5. CASE AccountStep
  BY <1>1, <1>2, <1>3, <1>4, <1>5 DEF AccountStep
<1>6. UploadStep => UNCHANGED accounts
  <2>1. ASSUME NEW c, NEW u, NEW p, NEW d, NEW a, NEW s, NEW k, NEW newline,
               CreateHeader(c, u, p, d, a, s, k, newline)
        PROVE  UNCHANGED accounts
    BY <2>1 DEF CreateHeader
  <2>2. ASSUME NEW c, NEW u, NEW p, NEW d, NEW a, NEW s, CreateCannotOpen(c, u, p, d, a, s)
        PROVE  UNCHANGED accounts
    BY <2>2 DEF CreateCannotOpen
  <2>3. ASSUME NEW c, NEW k, NEW newline, UploadData(c, k, newline)
        PROVE  UNCHANGED accounts
    BY <2>3 DEF UploadData
  <2>4. ASSUME NEW c, Disconnect(c)
        PROVE  UNCHANGED accounts
    BY <2>4 DEF Disconnect
  <2>5. QED
    BY <2>1, <2>2, <2>3, <2>4 DEF UploadStep
<1>7. BookingStep => UNCHANGED accounts
  BY DEF BookingStep, Close, Reserve
<1>8. CASE UNCHANGED accounts
  BY <1>8 DEF accounts
<1>9. QED
  BY <1>5, <1>6, <1>7, <1>8 DEF Next, Restart, Tick, vars, accounts

\* Nobody is logged in without being registered, for any number of users:
\* reserve(), which tests only the login, never serves an unregistered user.
THEOREM LoginsAreRegistered == Spec => []LoggedInRegistered
<1>1. Init => LoggedInRegistered
  BY DEF Init, LoggedInRegistered
<1>2. QED
  BY <1>1, StepRegistered, PTL DEF Spec

-----------------------------------------------------------------------------
(***************************************************************************)
(* Event numbers.                                                          *)
(***************************************************************************)

\* What a step does to the event numbers: they only grow, and a directory that
\* is new has the number just issued, which had none before.
LEMMA StepIssues ==
    ASSUME TypeOK, [Next]_vars
    PROVE  \/ lastEvent' = lastEvent /\ DOMAIN event' \subseteq DOMAIN event
           \/ /\ lastEvent' = lastEvent + 1
              /\ DOMAIN event' \subseteq DOMAIN event \cup {lastEvent + 1}
<1> DEFINE Kept == lastEvent' = lastEvent /\ DOMAIN event' \subseteq DOMAIN event
           Issued == /\ lastEvent' = lastEvent + 1
                     /\ DOMAIN event' \subseteq DOMAIN event \cup {lastEvent + 1}
<1>1. ASSUME NEW c \in Connections, NEW u \in UIDs, NEW p \in Passwords,
             NEW d \in Times, NEW a \in Attendances, NEW s \in FileSizes,
             NEW k \in 0..MaxRead, NEW newline \in BOOLEAN,
             CreateHeader(c, u, p, d, a, s, k, newline)
      PROVE  Issued
  <2>1. lastEvent' = lastEvent + 1
    BY <1>1 DEF CreateHeader, create_event_dirs, NextEid
  <2>2. event' = event \/ \E r : event' = Put(event, lastEvent + 1, r)
    BY <1>1 DEF CreateHeader, NextEid
  <2>3. QED
    BY <2>1, <2>2 DEF Put
<1>2. ASSUME NEW c \in Connections, NEW u \in UIDs, NEW p \in Passwords,
             NEW d \in Times, NEW a \in Attendances, NEW s \in FileSizes,
             CreateCannotOpen(c, u, p, d, a, s)
      PROVE  Issued
  BY <1>2 DEF CreateCannotOpen, create_event_dirs, NextEid, Put
<1>3. ASSUME NEW c \in Connections, NEW k \in 1..MaxRead, NEW newline \in BOOLEAN,
             UploadData(c, k, newline)
      PROVE  Kept
  <2>1. DOMAIN event' \subseteq DOMAIN event
    <3>1. CASE StoreMore(c, k)
      BY <3>1 DEF StoreMore
    <3>2. CASE FinishUpload(c)
      BY <3>2 DEF FinishUpload
    <3>3. CASE DestroyUpload(c)
      BY <3>3 DEF DestroyUpload, Without, Restrict
    <3>4. QED
      BY <1>3, <3>1, <3>2, <3>3 DEF UploadData
  <2>2. QED
    BY <1>3, <2>1 DEF UploadData
<1>4. ASSUME NEW c \in Connections, Disconnect(c)
      PROVE  Kept
  BY <1>4 DEF Disconnect
<1>5. CASE UploadStep
  BY <1>1, <1>2, <1>3, <1>4, <1>5 DEF UploadStep
<1>6. CASE AccountStep
  BY <1>6 DEF AccountStep, Login, Logout, Unregister, ChangePass
<1>7. CASE BookingStep
  BY <1>7 DEF BookingStep, Close, Reserve
<1>8. CASE Restart \/ Tick \/ UNCHANGED vars
  BY <1>8 DEF Restart, Tick, vars
<1>9. QED
  BY <1>5, <1>6, <1>7, <1>8 DEF Next

\* The directory of a destroyed or refused event never comes back under its
\* number, so the entries that still name it never come to name another event.
THEOREM EidsAreNeverReborn == Spec => EidNeverReborn
<1>1. ASSUME TypeOK, [Next]_vars
      PROVE  [\A e \in 1..lastEvent : e \notin DOMAIN event => e \notin DOMAIN event']_vars
  <2>1. lastEvent \in Nat
    BY <1>1, LimitAssumption DEF TypeOK
  <2>2. ASSUME NEW e \in 1..lastEvent, e \notin DOMAIN event
        PROVE  e \notin DOMAIN event'
    BY <1>1, <2>1, <2>2, StepIssues
  <2>3. QED
    BY <2>2
<1>2. QED
  BY <1>1, TypeCorrect, PTL DEF Spec, EidNeverReborn

-----------------------------------------------------------------------------
(***************************************************************************)
(* Uploads.  UploadsOwnEvents is inductive only together with the fact     *)
(* that no event has a number still to be issued, which makes the number   *)
(* of a new create's event different from those of all others under way.   *)
(***************************************************************************)
OnlyIssued == DOMAIN event \subseteq 1..lastEvent

Owns(c) ==
    /\ uploads[c].eid \in DOMAIN event
    /\ uploads[c].filesize = event[uploads[c].eid].filesize
    /\ event[uploads[c].eid].description <= uploads[c].written
    /\ uploads[c].written <= uploads[c].filesize

\* The inductive form of UploadsOwnEvents.
Ownership ==
    /\ \A c \in DOMAIN uploads : Owns(c)
    /\ \A c, d \in DOMAIN uploads : uploads[c].eid = uploads[d].eid => c = d
    /\ \A e \in DOMAIN event : event[e].description <= event[e].filesize
    /\ OnlyIssued

LEMMA OwnershipNumbers ==
    ASSUME TypeOK
    PROVE  /\ \A e \in DOMAIN event :
                event[e].description \in Nat /\ event[e].filesize \in Nat
           /\ \A c \in DOMAIN uploads :
                uploads[c].written \in Nat /\ uploads[c].filesize \in Nat
           /\ lastEvent \in Nat
<1>1. event \in [DOMAIN event -> Event] /\ uploads \in [DOMAIN uploads -> Upload]
  BY DEF TypeOK
<1>2. lastEvent \in Nat
  BY LimitAssumption DEF TypeOK
<1>3. QED
  BY <1>1, <1>2, SizesAreNumbers DEF Event, Upload

\* An upload goes on only while what it has brought fits its announced size.
LEMMA MoreFits ==
    ASSUME NEW w \in Nat, NEW s \in Nat, NEW k \in Nat, NEW newline \in BOOLEAN,
           write_event(w, s, k, newline) = "more"
    PROVE  w + k <= s
BY DEF write_event

\* A new directory changes no event there was, and belongs to no other create.
LEMMA NewDirectory ==
    ASSUME TypeOK, Ownership, NEW r, event' = Put(event, NextEid, r),
           r.description <= r.filesize, lastEvent' = NextEid
    PROVE  /\ NextEid \notin DOMAIN event
           /\ DOMAIN event' = DOMAIN event \cup {NextEid}
           /\ \A e \in DOMAIN event : event'[e] = event[e]
           /\ event'[NextEid] = r
           /\ \A e \in DOMAIN event' : event'[e].description <= event'[e].filesize
           /\ OnlyIssued'
<1>1. NextEid = lastEvent + 1 /\ lastEvent \in Nat
  BY OwnershipNumbers DEF NextEid
<1>2. NextEid \notin DOMAIN event
  BY <1>1 DEF Ownership, OnlyIssued
<1>3. /\ DOMAIN event' = DOMAIN event \cup {NextEid}
      /\ \A e \in DOMAIN event : event'[e] = event[e]
      /\ event'[NextEid] = r
  BY <1>2 DEF Put
<1>4. \A e \in DOMAIN event' : event'[e].description <= event'[e].filesize
  BY <1>3 DEF Ownership
<1>5. OnlyIssued'
  BY <1>1, <1>3 DEF Ownership, OnlyIssued
<1>6. QED
  BY <1>2, <1>3, <1>4, <1>5

LEMMA HeaderOwns ==
    ASSUME TypeOK, Ownership, NEW c \in Connections, NEW u \in UIDs, NEW p \in Passwords,
           NEW d \in Times, NEW a \in Attendances, NEW s \in FileSizes,
           NEW k \in 0..MaxRead, NEW newline \in BOOLEAN,
           CreateHeader(c, u, p, d, a, s, k, newline)
    PROVE  Ownership'
<1>1. k \in Nat /\ s \in Nat
  BY LimitAssumption, SizesAreNumbers
<1>2. lastEvent' = NextEid /\ c \notin DOMAIN uploads
  BY DEF CreateHeader, create_event_dirs
<1>3. CASE /\ write_event(0, s, k, newline) = "more"
           /\ \E b \in 0..k : event' = Put(event, NextEid, NewEvent(u, d, a, s, b))
           /\ uploads' = Put(uploads, c, [eid |-> NextEid, filesize |-> s, written |-> k])
  <2>1. PICK b \in 0..k : event' = Put(event, NextEid, NewEvent(u, d, a, s, b))
    BY <1>3
  <2>2. k <= s
    BY <1>1, <1>3, MoreFits
  <2> DEFINE r == NewEvent(u, d, a, s, b)
  <2>3. r.description = b /\ r.filesize = s /\ b <= k /\ b <= s
    BY <1>1, <2>2 DEF NewEvent
  <2>4. event' = Put(event, NextEid, r)
    BY <2>1
  <2> HIDE DEF r
  <2>5. /\ NextEid \notin DOMAIN event
        /\ DOMAIN event' = DOMAIN event \cup {NextEid}
        /\ \A e \in DOMAIN event : event'[e] = event[e]
        /\ event'[NextEid] = r
        /\ \A e \in DOMAIN event' : event'[e].description <= event'[e].filesize
        /\ OnlyIssued'
    BY <1>2, <2>3, <2>4, NewDirectory
  <2>6. /\ DOMAIN uploads' = DOMAIN uploads \cup {c}
        /\ \A x \in DOMAIN uploads : uploads'[x] = uploads[x]
        /\ uploads'[c] = [eid |-> NextEid, filesize |-> s, written |-> k]
    BY <1>2, <1>3 DEF Put
  <2>7. Owns(c)'
    BY <2>2, <2>3, <2>5, <2>6 DEF Owns
  <2>8. ASSUME NEW x \in DOMAIN uploads
        PROVE  Owns(x)'
    <3>1. Owns(x)
      BY DEF Ownership
    <3>2. QED
      BY <2>5, <2>6, <3>1 DEF Owns
  <2>9. \A x \in DOMAIN uploads : uploads[x].eid # NextEid
    BY <2>5 DEF Ownership, Owns
  <2>10. \A x, y \in DOMAIN uploads' : uploads'[x].eid = uploads'[y].eid => x = y
    BY <2>6, <2>9 DEF Ownership
  <2>11. QED
    BY <2>5, <2>6, <2>7, <2>8, <2>10 DEF Ownership
<1>4. CASE event' = Put(event, NextEid, NewEvent(u, d, a, s, s)) /\ UNCHANGED uploads
  <2> DEFINE r == NewEvent(u, d, a, s, s)
  <2>1. r.description <= r.filesize /\ event' = Put(event, NextEid, r)
    BY <1>1, <1>4 DEF NewEvent
  <2> HIDE DEF r
  <2>2. /\ DOMAIN event' = DOMAIN event \cup {NextEid}
        /\ \A e \in DOMAIN event : event'[e] = event[e]
        /\ \A e \in DOMAIN event' : event'[e].description <= event'[e].filesize
        /\ OnlyIssued'
    BY <1>2, <2>1, NewDirectory
  <2>3. QED
    BY <1>4, <2>2 DEF Ownership, Owns
<1>5. CASE UNCHANGED <<event, uploads>>
  <2>1. OnlyIssued'
    BY <1>2, <1>5, OwnershipNumbers DEF Ownership, OnlyIssued, NextEid
  <2>2. QED
    BY <1>5, <2>1 DEF Ownership, Owns
<1>6. QED
  BY <1>3, <1>4, <1>5 DEF CreateHeader

LEMMA CannotOpenOwns ==
    ASSUME TypeOK, Ownership, NEW c \in Connections, NEW u \in UIDs, NEW p \in Passwords,
           NEW d \in Times, NEW a \in Attendances, NEW s \in FileSizes,
           CreateCannotOpen(c, u, p, d, a, s)
    PROVE  Ownership'
<1> DEFINE r == NewEvent(u, d, a, s, 0)
<1>1. r.description <= r.filesize /\ event' = Put(event, NextEid, r)
  BY SizesAreNumbers DEF CreateCannotOpen, NewEvent
<1>2. lastEvent' = NextEid /\ UNCHANGED uploads
  BY DEF CreateCannotOpen, create_event_dirs
<1> HIDE DEF r
<1>3. /\ DOMAIN event' = DOMAIN event \cup {NextEid}
      /\ \A e \in DOMAIN event : event'[e] = event[e]
      /\ \A e \in DOMAIN event' : event'[e].description <= event'[e].filesize
      /\ OnlyIssued'
  BY <1>1, <1>2, NewDirectory
<1>4. QED
  BY <1>2, <1>3 DEF Ownership, Owns

\* An upload that stores no more bytes, its event's description being set to b:
\* the other uploads are not concerned.
LEMMA UploadEnds ==
    ASSUME TypeOK, Ownership, NEW c \in DOMAIN uploads, NEW b \in Nat,
           b <= uploads[c].filesize,
           event' = [event EXCEPT ![uploads[c].eid].description = b],
           uploads' = Without(uploads, c), UNCHANGED lastEvent
    PROVE  Ownership'
<1>1. Owns(c)
  BY DEF Ownership
<1>2. /\ DOMAIN uploads' = DOMAIN uploads \ {c}
      /\ \A x \in DOMAIN uploads' : uploads'[x] = uploads[x]
  BY DEF Without, Restrict
<1>3. \A x \in DOMAIN uploads' : uploads[x].eid # uploads[c].eid
  BY <1>2 DEF Ownership
<1>4. event[uploads[c].eid] \in Event
  BY <1>1 DEF Owns, TypeOK
<1>5. /\ DOMAIN event' = DOMAIN event
      /\ \A e \in DOMAIN event : e # uploads[c].eid => event'[e] = event[e]
      /\ event'[uploads[c].eid].description = b
      /\ event'[uploads[c].eid].filesize = event[uploads[c].eid].filesize
  BY <1>1, <1>4 DEF Owns, Event
<1>6. \A x \in DOMAIN uploads' : Owns(x)'
  BY <1>2, <1>3, <1>5 DEF Ownership, Owns
<1>7. \A e \in DOMAIN event' : event'[e].description <= event'[e].filesize
  BY <1>1, <1>5 DEF Ownership, Owns
<1>8. QED
  BY <1>2, <1>5, <1>6, <1>7 DEF Ownership, OnlyIssued

LEMMA DataOwns ==
    ASSUME TypeOK, Ownership, NEW c \in Connections, NEW k \in 1..MaxRead,
           NEW newline \in BOOLEAN, UploadData(c, k, newline)
    PROVE  Ownership'
<1>1. c \in DOMAIN uploads /\ UNCHANGED lastEvent /\ k \in Nat
  BY LimitAssumption DEF UploadData
<1>2. Owns(c) /\ uploads[c].written \in Nat /\ uploads[c].filesize \in Nat
  BY <1>1, OwnershipNumbers DEF Ownership
<1>3. CASE /\ write_event(uploads[c].written, uploads[c].filesize, k, newline) = "more"
           /\ StoreMore(c, k)
  <2>1. uploads[c].written + k <= uploads[c].filesize
    BY <1>1, <1>2, <1>3, MoreFits
  <2> DEFINE id == uploads[c].eid
  <2>2. id \in DOMAIN event /\ event[id] \in Event /\ event[id].description \in Nat
    BY <1>2, OwnershipNumbers DEF Owns, TypeOK
  <2>3. PICK b \in event[id].description .. uploads[c].written + k :
           event' = [event EXCEPT ![id].description = b]
    BY <1>3 DEF StoreMore
  <2>4. b <= uploads[c].written + k /\ b <= uploads[c].filesize
    BY <1>1, <1>2, <2>1, <2>2
  <2>5. /\ DOMAIN event' = DOMAIN event
        /\ \A e \in DOMAIN event : e # id => event'[e] = event[e]
        /\ event'[id].description = b
        /\ event'[id].filesize = event[id].filesize
    BY <2>2, <2>3 DEF Event
  <2>6. uploads[c] \in Upload
    BY <1>1 DEF TypeOK
  <2>7. /\ DOMAIN uploads' = DOMAIN uploads
        /\ \A x \in DOMAIN uploads : x # c => uploads'[x] = uploads[x]
        /\ uploads'[c].eid = id
        /\ uploads'[c].filesize = uploads[c].filesize
        /\ uploads'[c].written = uploads[c].written + k
    BY <1>1, <1>3, <2>6 DEF StoreMore, Upload
  <2>8. Owns(c)'
    BY <1>2, <2>1, <2>4, <2>5, <2>7 DEF Owns
  <2>9. ASSUME NEW x \in DOMAIN uploads, x # c
        PROVE  Owns(x)'
    <3>1. Owns(x) /\ uploads[x].eid # id
      BY <1>1, <2>9 DEF Ownership
    <3>2. QED
      BY <2>5, <2>7, <2>9, <3>1 DEF Owns
  <2>10. \A x, y \in DOMAIN uploads' : uploads'[x].eid = uploads'[y].eid => x = y
    <3>1. \A x \in DOMAIN uploads : uploads'[x].eid = uploads[x].eid
      BY <2>7
    <3>2. QED
      BY <2>7, <3>1 DEF Ownership
  <2>11. \A e \in DOMAIN event' : event'[e].description <= event'[e].filesize
    BY <1>2, <2>4, <2>5 DEF Ownership, Owns
  <2>12. OnlyIssued'
    BY <1>1, <2>5 DEF Ownership, OnlyIssued
  <2>13. QED
    BY <2>7, <2>8, <2>9, <2>10, <2>11, <2>12 DEF Ownership
<1>4. CASE FinishUpload(c)
  <2> DEFINE b == uploads[c].filesize
  <2>1. /\ event' = [event EXCEPT ![uploads[c].eid].description = b]
        /\ uploads' = Without(uploads, c)
        /\ b \in Nat /\ b <= uploads[c].filesize
    BY <1>2, <1>4 DEF FinishUpload
  <2> HIDE DEF b
  <2>2. QED
    BY <1>1, <2>1, UploadEnds
<1>5. CASE DestroyUpload(c)
  <2>1. /\ DOMAIN uploads' = DOMAIN uploads \ {c}
        /\ \A x \in DOMAIN uploads' : uploads'[x] = uploads[x]
    BY <1>5 DEF DestroyUpload, Without, Restrict
  <2>2. /\ DOMAIN event' = DOMAIN event \ {uploads[c].eid}
        /\ \A e \in DOMAIN event' : event'[e] = event[e]
    BY <1>5 DEF DestroyUpload, Without, Restrict
  <2>3. \A x \in DOMAIN uploads' : uploads[x].eid # uploads[c].eid
    BY <1>1, <2>1 DEF Ownership
  <2>4. \A x \in DOMAIN uploads' : Owns(x)'
    BY <2>1, <2>2, <2>3 DEF Ownership, Owns
  <2>5. QED
    BY <1>1, <2>1, <2>2, <2>4 DEF Ownership, OnlyIssued
<1>6. QED
  BY <1>3, <1>4, <1>5 DEF UploadData

LEMMA BookingOwns ==
    ASSUME TypeOK, Ownership, BookingStep
    PROVE  Ownership'
<1> DEFINE SameFiles ==
             /\ DOMAIN event' = DOMAIN event
             /\ \A e \in DOMAIN event : /\ event'[e].description = event[e].description
                                        /\ event'[e].filesize = event[e].filesize
<1>1. SameFiles
  <2>1. event \in [DOMAIN event -> Event]
    BY DEF TypeOK
  <2>2. ASSUME NEW u \in UIDs, NEW p \in Passwords, NEW e \in EIDs, Close(u, p, e)
        PROVE  SameFiles
    BY <2>1, <2>2 DEF Close, Event
  <2>3. ASSUME NEW u \in UIDs, NEW p \in Passwords, NEW e \in EIDs, NEW n \in Seats,
               Reserve(u, p, e, n)
        PROVE  SameFiles
    BY <2>1, <2>3 DEF Reserve, Event
  <2>4. QED
    BY <2>2, <2>3 DEF BookingStep
<1>2. UNCHANGED <<uploads, lastEvent>>
  BY DEF BookingStep, Close, Reserve
<1>3. QED
  BY <1>1, <1>2 DEF Ownership, Owns, OnlyIssued

LEMMA StepOwns ==
    ASSUME TypeOK, Ownership, [Next]_vars
    PROVE  Ownership'
<1>1. CASE UNCHANGED <<event, uploads, lastEvent>>
  BY <1>1 DEF Ownership, Owns, OnlyIssued
<1>2. AccountStep => UNCHANGED <<event, uploads, lastEvent>>
  BY DEF AccountStep, Login, Logout, Unregister, ChangePass
<1>3. ASSUME NEW c \in Connections, Disconnect(c)
      PROVE  Ownership'
  <2>1. c \in DOMAIN uploads /\ uploads[c].written \in Nat /\ Owns(c)
    BY <1>3, OwnershipNumbers DEF Disconnect, Ownership
  <2>2. QED
    BY <1>3, <2>1, UploadEnds DEF Disconnect, Owns
<1>4. CASE UploadStep
  BY <1>3, <1>4, HeaderOwns, CannotOpenOwns, DataOwns DEF UploadStep
<1>5. CASE Restart
  BY <1>5 DEF Restart, Ownership, Owns, OnlyIssued
<1>6. QED
  BY <1>1, <1>2, <1>4, <1>5, BookingOwns DEF Next, Tick, vars

\* Whatever creates are under way together, in whatever order their bytes come,
\* each owns a live event of its own and never stores more than it announced.
THEOREM UploadsOwnTheirEvents == Spec => []UploadsOwnEvents
<1>1. Init => Ownership
  BY DEF Init, Ownership, OnlyIssued
<1>2. Ownership => UploadsOwnEvents
  BY DEF Ownership, Owns, UploadsOwnEvents
<1>3. QED
  BY <1>1, <1>2, TypeCorrect, StepOwns, PTL DEF Spec

\* Steps outside a create change no event's reservations, or add one number.
LEMMA StepKinds ==
    ASSUME [Next]_vars
    PROVE  \/ UploadStep
           \/ UNCHANGED <<event, userRes, lastEvent>>
           \/ \E u \in UIDs, p \in Passwords, e \in EIDs :
                 Close(u, p, e) \/ \E n \in Seats : Reserve(u, p, e, n)
<1>1. AccountStep => UNCHANGED <<event, userRes, lastEvent>>
  BY DEF AccountStep, Login, Logout, Unregister, ChangePass
<1>2. QED
  BY <1>1 DEF Next, BookingStep, Restart, Tick, vars

\* What a create's step does to the directories: one more, with a number just
\* issued and a new event's record; one less; or another length of description.
LEMMA UploadKinds ==
    ASSUME TypeOK, UploadStep
    PROVE  /\ UNCHANGED userRes
           /\ \/ UNCHANGED event
              \/ \E e : event' = Without(event, e)
              \/ \E e, b : event' = [event EXCEPT ![e].description = b]
              \/ \E u \in UIDs, d \in Times, a \in Attendances, s \in FileSizes : \E b :
                    event' = Put(event, lastEvent + 1, NewEvent(u, d, a, s, b))
           /\ lastEvent' \in {lastEvent, lastEvent + 1}
<1> DEFINE Kind ==
             /\ UNCHANGED userRes
             /\ \/ UNCHANGED event
                \/ \E e : event' = Without(event, e)
                \/ \E e, b : event' = [event EXCEPT ![e].description = b]
                \/ \E u \in UIDs, d \in Times, a \in Attendances, s \in FileSizes : \E b :
                      event' = Put(event, lastEvent + 1, NewEvent(u, d, a, s, b))
             /\ lastEvent' \in {lastEvent, lastEvent + 1}
<1>1. ASSUME NEW c \in Connections, NEW u \in UIDs, NEW p \in Passwords,
             NEW d \in Times, NEW a \in Attendances, NEW s \in FileSizes,
             NEW k \in 0..MaxRead, NEW newline \in BOOLEAN,
             CreateHeader(c, u, p, d, a, s, k, newline)
      PROVE  Kind
  <2>1. UNCHANGED userRes /\ lastEvent' = lastEvent + 1
    BY <1>1 DEF CreateHeader, create_event_dirs, NextEid
  <2>2. \/ UNCHANGED event
        \/ \E b : event' = Put(event, lastEvent + 1, NewEvent(u, d, a, s, b))
    BY <1>1 DEF CreateHeader, NextEid
  <2>3. QED
    BY <2>1, <2>2
<1>2. ASSUME NEW c \in Connections, NEW u \in UIDs, NEW p \in Passwords,
             NEW d \in Times, NEW a \in Attendances, NEW s \in FileSizes,
             CreateCannotOpen(c, u, p, d, a, s)
      PROVE  Kind
  BY <1>2 DEF CreateCannotOpen, create_event_dirs, NextEid
<1>3. ASSUME NEW c \in Connections, NEW k \in 1..MaxRead, NEW newline \in BOOLEAN,
             UploadData(c, k, newline)
      PROVE  Kind
  <2>1. CASE StoreMore(c, k)
    BY <1>3, <2>1 DEF UploadData, StoreMore
  <2>2. CASE FinishUpload(c)
    BY <1>3, <2>2 DEF UploadData, FinishUpload
  <2>3. CASE DestroyUpload(c)
    BY <1>3, <2>3 DEF UploadData, DestroyUpload
  <2>4. QED
    BY <1>3, <2>1, <2>2, <2>3 DEF UploadData
<1>4. ASSUME NEW c \in Connections, Disconnect(c)
      PROVE  Kind
  BY <1>4 DEF Disconnect
<1>5. QED
  BY <1>1, <1>2, <1>3, <1>4 DEF UploadStep

-----------------------------------------------------------------------------
(***************************************************************************)
(* Closed and sold out.                                                    *)
(***************************************************************************)
LEMMA StepNeverClosedAndSoldOut ==
    ASSUME TypeOK, SeatsConserved, NeverClosedAndSoldOut, [Next]_vars
    PROVE  NeverClosedAndSoldOut'
<1> USE DEF NeverClosedAndSoldOut, Remaining
<1>1. CASE UploadStep
  <2>1. CASE UNCHANGED event
    BY <2>1
  <2>2. ASSUME NEW e, event' = Without(event, e)
        PROVE  NeverClosedAndSoldOut'
    BY <2>2 DEF Without, Restrict
  <2>3. ASSUME NEW e, NEW b, event' = [event EXCEPT ![e].description = b]
        PROVE  NeverClosedAndSoldOut'
    <3>1. ASSUME NEW x \in DOMAIN event'
          PROVE  /\ x \in DOMAIN event
                 /\ event'[x].closed = event[x].closed
                 /\ event'[x].sold = event[x].sold
                 /\ event'[x].attendance = event[x].attendance
      BY <2>3
    <3>2. QED
      BY <3>1
  <2>4. ASSUME NEW u \in UIDs, NEW d \in Times, NEW a \in Attendances,
               NEW s \in FileSizes, NEW b,
               event' = Put(event, lastEvent + 1, NewEvent(u, d, a, s, b))
        PROVE  NeverClosedAndSoldOut'
    BY <2>4 DEF Put, NewEvent
  <2>5. QED
    BY <1>1, <2>1, <2>2, <2>3, <2>4, UploadKinds
<1>2. CASE UNCHANGED event
  BY <1>2
<1>3. ASSUME NEW u \in UIDs, NEW p \in Passwords, NEW e \in EIDs, Close(u, p, e)
      PROVE  NeverClosedAndSoldOut'
  <2>1. e \in DOMAIN event /\ Remaining(e) # 0
    BY <1>3 DEF Close, close_event, does_event_exist
  <2>2. event[e] \in Event
    BY <2>1 DEF TypeOK
  <2>3. event[e].sold \in Nat /\ event[e].attendance \in Nat
    BY <2>2, SizesAreNumbers DEF Event
  <2>4. event[e].sold <= event[e].attendance
    BY <2>1 DEF SeatsConserved
  <2>5. event[e].attendance - event[e].sold > 0
    BY <2>1, <2>3, <2>4
  <2>6. /\ DOMAIN event' = DOMAIN event
        /\ \A x \in DOMAIN event : x # e => event'[x] = event[x]
        /\ event'[e].sold = event[e].sold /\ event'[e].attendance = event[e].attendance
    BY <1>3, <2>1, <2>2 DEF Close, Event
  <2>7. QED
    BY <2>5, <2>6
<1>4. ASSUME NEW u \in UIDs, NEW p \in Passwords, NEW e \in EIDs, NEW n \in Seats,
             Reserve(u, p, e, n)
      PROVE  NeverClosedAndSoldOut'
  <2>1. e \in DOMAIN event /\ ~event[e].closed
    BY <1>4 DEF Reserve, reserve, does_event_exist
  <2>2. event[e] \in Event
    BY <2>1 DEF TypeOK
  <2>3. /\ DOMAIN event' = DOMAIN event
        /\ \A x \in DOMAIN event : x # e => event'[x] = event[x]
        /\ event'[e].closed = event[e].closed
    BY <1>4, <2>1, <2>2 DEF Reserve, Event
  <2>4. QED
    BY <2>1, <2>3
<1>5. QED
  BY <1>1, <1>2, <1>3, <1>4, StepKinds

\* No sequence of bookings and closings makes an event both closed and sold out,
\* on which the three ladders of tests, in three orders, rest.
THEOREM ClosedHaveSeats == Spec => []NeverClosedAndSoldOut
<1>1. Init => NeverClosedAndSoldOut
  BY DEF Init, NeverClosedAndSoldOut
<1>2. QED
  BY <1>1, TypeCorrect, SeatsAreConserved, StepNeverClosedAndSoldOut, PTL DEF Spec

-----------------------------------------------------------------------------
(***************************************************************************)
(* The two copies of a reservation file.  LedgersAgree is inductive only    *)
(* with the fact that nobody holds a reservation for a number still to be   *)
(* issued; for otherwise a new event would begin with none while its number *)
(* has some already.                                                       *)
(***************************************************************************)
NothingAhead ==
    \A u \in UIDs, t \in Times, e \in EIDs :
        e > lastEvent => userRes[u][<<t, e>>] = << >>

\* Steps that keep the reservations of the events that stay keep the copies equal.
LEMMA KeptLedgers ==
    ASSUME LedgersAgree, UNCHANGED userRes,
           \A x \in DOMAIN event' :
              x \in DOMAIN event /\ event'[x].reservations = event[x].reservations
    PROVE  LedgersAgree'
<1>1. ASSUME NEW x \in DOMAIN event', NEW v \in UIDs, NEW t \in Times
      PROVE  event'[x].reservations[<<t, v>>] = userRes'[v][<<t, x>>]
  <2>1. event[x].reservations[<<t, v>>] = userRes[v][<<t, x>>]
    BY DEF LedgersAgree
  <2>2. QED
    BY <2>1
<1>2. QED
  BY <1>1 DEF LedgersAgree

LEMMA StepLedgers ==
    ASSUME TypeOK, Ownership, LedgersAgree, NothingAhead, [Next]_vars
    PROVE  LedgersAgree' /\ NothingAhead'
<1>1. lastEvent \in Nat /\ DOMAIN event \subseteq 1..lastEvent /\ DOMAIN event \subseteq EIDs
  BY OwnershipNumbers DEF Ownership, OnlyIssued, TypeOK
<1>2. CASE UploadStep
  <2>1. UNCHANGED userRes /\ lastEvent' \in {lastEvent, lastEvent + 1}
    BY <1>2, UploadKinds
  <2>2. NothingAhead'
    <3>1. \A e \in EIDs : e \in Nat
      BY LimitAssumption DEF EIDs
    <3>2. QED
      BY <1>1, <2>1, <3>1 DEF NothingAhead
  <2>3. CASE UNCHANGED event
    BY <2>1, <2>2, <2>3, KeptLedgers
  <2>4. ASSUME NEW e, event' = Without(event, e)
        PROVE  LedgersAgree'
    <3>1. \A x \in DOMAIN event' : x \in DOMAIN event /\ event'[x] = event[x]
      BY <2>4 DEF Without, Restrict
    <3>2. QED
      BY <2>1, <3>1, KeptLedgers
  <2>5. ASSUME NEW e, NEW b, event' = [event EXCEPT ![e].description = b]
        PROVE  LedgersAgree'
    <3>1. \A x \in DOMAIN event' :
             x \in DOMAIN event /\ event'[x].reservations = event[x].reservations
      BY <2>5
    <3>2. QED
      BY <2>1, <3>1, KeptLedgers
  <2>6. ASSUME NEW u \in UIDs, NEW d \in Times, NEW a \in Attendances,
               NEW s \in FileSizes, NEW b,
               event' = Put(event, lastEvent + 1, NewEvent(u, d, a, s, b))
        PROVE  LedgersAgree'
    <3> DEFINE new == lastEvent + 1
    <3>1. /\ DOMAIN event' = DOMAIN event \cup {new}
          /\ \A x \in DOMAIN event : x # new => event'[x] = event[x]
          /\ \A t \in Times, v \in UIDs : event'[new].reservations[<<t, v>>] = << >>
      BY <2>6 DEF Put, NewEvent
    <3>2. new \in EIDs
      <4>1. DOMAIN event' \subseteq EIDs
        BY StepTypes DEF TypeOK
      <4>2. QED
        BY <3>1, <4>1
    <3>3. \A t \in Times, v \in UIDs : userRes'[v][<<t, new>>] = << >>
      BY <1>1, <2>1, <3>2 DEF NothingAhead
    <3>4. ASSUME NEW x \in DOMAIN event', NEW v \in UIDs, NEW t \in Times
          PROVE  event'[x].reservations[<<t, v>>] = userRes'[v][<<t, x>>]
      <4>1. CASE x = new
        BY <3>1, <3>3, <4>1
      <4>2. CASE x # new
        <5>1. x \in DOMAIN event /\ event'[x] = event[x]
          BY <3>1, <4>2
        <5>2. QED
          BY <2>1, <5>1 DEF LedgersAgree
      <4>3. QED
        BY <4>1, <4>2
    <3>5. QED
      BY <3>4 DEF LedgersAgree
  <2>7. QED
    BY <1>2, <2>2, <2>3, <2>4, <2>5, <2>6, UploadKinds
<1>3. CASE UNCHANGED <<event, userRes, lastEvent>>
  BY <1>3 DEF LedgersAgree, NothingAhead
<1>4. ASSUME NEW u \in UIDs, NEW p \in Passwords, NEW e \in EIDs, Close(u, p, e)
      PROVE  LedgersAgree' /\ NothingAhead'
  <2>1. \A x \in DOMAIN event' :
           x \in DOMAIN event /\ event'[x].reservations = event[x].reservations
    BY <1>4 DEF Close
  <2>2. UNCHANGED <<userRes, lastEvent>>
    BY <1>4 DEF Close
  <2>3. QED
    BY <2>1, <2>2, KeptLedgers DEF NothingAhead
<1>5. ASSUME NEW u \in UIDs, NEW p \in Passwords, NEW e \in EIDs, NEW n \in Seats,
             Reserve(u, p, e, n)
      PROVE  LedgersAgree' /\ NothingAhead'
  <2>1. e \in DOMAIN event /\ now \in Times /\ UNCHANGED lastEvent
    BY <1>5 DEF Reserve, reserve, does_event_exist, TypeOK
  <2>2. event[e] \in Event
    BY <2>1 DEF TypeOK
  <2>3. event[e].reservations \in [Times \X UIDs -> Seq(Nat)]
    BY <2>2 DEF Event
  <2>4. userRes \in [UIDs -> [Times \X EIDs -> Seq(Nat)]]
    BY DEF TypeOK
  <2>5. /\ DOMAIN event' = DOMAIN event
        /\ \A x \in DOMAIN event : x # e => event'[x] = event[x]
        /\ event'[e].reservations = Recorded(event[e].reservations, <<now, u>>, n)
    BY <1>5, <2>1, <2>2 DEF Reserve, Event
  <2>6. /\ \A v \in UIDs : v # u => userRes'[v] = userRes[v]
        /\ userRes'[u] = Recorded(userRes[u], <<now, e>>, n)
    BY <1>5, <2>4 DEF Reserve
  <2>7. \A t \in Times, v \in UIDs :
           event'[e].reservations[<<t, v>>] =
              IF t = now /\ v = u THEN Append(event[e].reservations[<<now, u>>], n)
                                  ELSE event[e].reservations[<<t, v>>]
    BY <2>1, <2>3, <2>5 DEF Recorded
  <2>8. \A t \in Times, x \in EIDs :
           userRes'[u][<<t, x>>] =
              IF t = now /\ x = e THEN Append(userRes[u][<<now, e>>], n)
                                  ELSE userRes[u][<<t, x>>]
    BY <2>1, <2>4, <2>6 DEF Recorded
  <2>9. LedgersAgree'
    <3>1. ASSUME NEW x \in DOMAIN event, NEW v \in UIDs, NEW t \in Times
          PROVE  event'[x].reservations[<<t, v>>] = userRes'[v][<<t, x>>]
      <4>1. event[x].reservations[<<t, v>>] = userRes[v][<<t, x>>] /\ x \in EIDs
        BY <1>1 DEF LedgersAgree
      <4>2. CASE x = e /\ v = u
        BY <2>1, <2>7, <2>8, <4>1, <4>2 DEF LedgersAgree
      <4>3. CASE x = e /\ v # u
        BY <2>6, <2>7, <4>1, <4>3
      <4>4. CASE x # e /\ v = u
        BY <2>5, <2>8, <4>1, <4>4
      <4>5. CASE x # e /\ v # u
        BY <2>5, <2>6, <4>1, <4>5
      <4>6. QED
        BY <4>2, <4>3, <4>4, <4>5
    <3>2. QED
      BY <2>5, <3>1 DEF LedgersAgree
  <2>10. NothingAhead'
    <3>1. ASSUME NEW x \in EIDs, x > lastEvent
          PROVE  x # e
      BY <1>1, <2>1, <3>1
    <3>2. QED
      BY <2>1, <2>6, <2>8, <3>1 DEF NothingAhead
  <2>11. QED
    BY <2>9, <2>10
<1>6. QED
  BY <1>2, <1>3, <1>4, <1>5, StepKinds

\* The event's and the user's copy of every reservation file hold the same
\* numbers for ever, whoever leaves, comes back, or books in the same second.
THEOREM BothLedgersAgree == Spec => []LedgersAgree
<1>1. Init => Ownership /\ LedgersAgree /\ NothingAhead
  BY DEF Init, Ownership, OnlyIssued, LedgersAgree, NothingAhead
<1>2. QED
  BY <1>1, TypeCorrect, StepOwns, StepLedgers, PTL DEF Spec

-----------------------------------------------------------------------------
(***************************************************************************)
(* The three ladders.  Past, sold out and closed are tested in three        *)
(* orders, so where two of them hold together the replies could differ.     *)
(***************************************************************************)
LEMMA LaddersFromInvariants ==
    ASSUME TypeOK, LoggedInRegistered, SeatsConserved, NeverClosedAndSoldOut
    PROVE  LaddersAgree
<1> SUFFICES ASSUME NEW e \in DOMAIN event, is_logged_in(event[e].creator)
             PROVE  LET u == event[e].creator
                        state == get_event_state(e)
                        toClose == close_event(u, passwd[u], e)
                        toReserve == reserve(u, passwd[u], e, 1)
                    IN  /\ state = 1 <=> toReserve = "ACC"
                        /\ state = 1 <=> toClose = "OK"
                        /\ state = 2 => toReserve = "SLD" /\ toClose = "SLD"
                        /\ state = 3 => toReserve = "CLS" /\ toClose = "CLO"
                        /\ state = 0 => toReserve \in {"CLS", "SLD", "PST"} /\ toClose = "PST"
  BY DEF LaddersAgree
<1> DEFINE u == event[e].creator
           old == is_event_past(event[e].date)
           shut == event[e].closed
           left == Remaining(e)
<1>1. event[e] \in Event
  BY DEF TypeOK
<1>2. does_user_exist(u) /\ is_logged_in(u) /\ check_password(u, passwd[u])
  BY DEF LoggedInRegistered, does_user_exist, is_logged_in, check_password
<1>3. shut \in BOOLEAN /\ left \in Nat
  BY <1>1, SizesAreNumbers DEF SeatsConserved, Remaining, Event
<1>4. shut => left # 0
  BY <1>3 DEF NeverClosedAndSoldOut
<1>5. get_event_state(e) = IF old THEN 0 ELSE IF left = 0 THEN 2 ELSE IF shut THEN 3 ELSE 1
  BY DEF get_event_state, does_event_exist
<1>6. close_event(u, passwd[u], e) =
         IF old THEN "PST" ELSE IF shut THEN "CLO" ELSE IF left = 0 THEN "SLD" ELSE "OK"
  BY <1>2 DEF close_event, does_event_exist
<1>7. 1 > left <=> left = 0
  BY <1>3
<1>8. reserve(u, passwd[u], e, 1) =
         IF shut THEN "CLS" ELSE IF left = 0 THEN "SLD" ELSE IF old THEN "PST" ELSE "ACC"
  BY <1>2, <1>7 DEF reserve, does_event_exist
<1> HIDE DEF old, shut, left
<1>9. CASE old
  BY <1>4, <1>5, <1>6, <1>8, <1>9
<1>10. CASE ~old /\ left = 0
  BY <1>4, <1>5, <1>6, <1>8, <1>10
<1>11. CASE ~old /\ left # 0
  BY <1>5, <1>6, <1>8, <1>11
<1>12. QED
  BY <1>9, <1>10, <1>11

\* For any event and any history, the state printed and the replies to its
\* creator's close and to a one-seat reservation describe the same event.
THEOREM LaddersAlwaysAgree == Spec => []LaddersAgree
BY TypeCorrect, LoginsAreRegistered, SeatsAreConserved, ClosedHaveSeats,
   LaddersFromInvariants, PTL

-----------------------------------------------------------------------------
(***************************************************************************)
(* The lists of the creators.  A new number is larger than any listed one,  *)
(* so it enters one list only; nothing ever takes a number out of a list,   *)
(* and no step changes an event's creator.                                  *)
(***************************************************************************)
LEMMA KeptLists ==
    ASSUME EventsListedOnce, UNCHANGED <<userEvents, lastEvent>>,
           DOMAIN event' \subseteq DOMAIN event,
           \A e \in DOMAIN event' : event'[e].creator = event[e].creator
    PROVE  EventsListedOnce'
BY DEF EventsListedOnce

\* A number just issued is in its creator's list only.
LEMMA NewNumberListed ==
    ASSUME TypeOK, EventsListedOnce, NEW u \in UIDs, create_event_dirs(u),
           \/ UNCHANGED event
           \/ /\ DOMAIN event' = DOMAIN event \cup {NextEid}
              /\ \A e \in DOMAIN event : event'[e] = event[e]
              /\ event'[NextEid].creator = u
    PROVE  EventsListedOnce'
<1>1. lastEvent \in Nat /\ NextEid = lastEvent + 1 /\ lastEvent' = lastEvent + 1
  BY OwnershipNumbers DEF create_event_dirs, NextEid
<1>2. /\ userEvents' \in [UIDs -> SUBSET Int]
      /\ userEvents'[u] = userEvents[u] \cup {NextEid}
      /\ \A v \in UIDs : v # u => userEvents'[v] = userEvents[v]
  BY <1>1 DEF create_event_dirs, TypeOK, EIDs
<1>3. NextEid \notin DOMAIN event /\ \A v \in UIDs : NextEid \notin userEvents[v]
  BY <1>1 DEF EventsListedOnce
<1>4. \A v \in UIDs : userEvents'[v] \subseteq 1..lastEvent'
  BY <1>1, <1>2 DEF EventsListedOnce
<1>5. DOMAIN event' \subseteq 1..lastEvent'
  BY <1>1 DEF EventsListedOnce
<1>6. ASSUME NEW e \in DOMAIN event'
      PROVE  {v \in UIDs : e \in userEvents'[v]} = {event'[e].creator}
  <2>1. CASE e = NextEid
    <3>1. event'[e].creator = u
      BY <1>3, <2>1
    <3>2. QED
      BY <1>2, <1>3, <2>1, <3>1
  <2>2. CASE e # NextEid
    <3>1. e \in DOMAIN event /\ event'[e] = event[e]
      BY <2>2
    <3>2. \A v \in UIDs : e \in userEvents'[v] <=> e \in userEvents[v]
      BY <1>2, <2>2
    <3>3. QED
      BY <3>1, <3>2 DEF EventsListedOnce
  <2>3. QED
    BY <2>1, <2>2
<1>7. QED
  BY <1>4, <1>5, <1>6 DEF EventsListedOnce

LEMMA StepLists ==
    ASSUME TypeOK, Ownership, EventsListedOnce, [Next]_vars
    PROVE  EventsListedOnce'
<1>1. ASSUME NEW c \in Connections, NEW u \in UIDs, NEW p \in Passwords,
             NEW d \in Times, NEW a \in Attendances, NEW s \in FileSizes,
             \/ CreateCannotOpen(c, u, p, d, a, s)
             \/ \E k \in 0..MaxRead, newline \in BOOLEAN :
                   CreateHeader(c, u, p, d, a, s, k, newline)
      PROVE  EventsListedOnce'
  <2>1. create_event_dirs(u)
    BY <1>1 DEF CreateHeader, CreateCannotOpen
  <2>2. UNCHANGED event \/ \E b : event' = Put(event, NextEid, NewEvent(u, d, a, s, b))
    BY <1>1 DEF CreateHeader, CreateCannotOpen
  <2>3. NextEid \notin DOMAIN event
    BY OwnershipNumbers DEF Ownership, OnlyIssued, NextEid
  <2>4. ASSUME NEW b, event' = Put(event, NextEid, NewEvent(u, d, a, s, b))
        PROVE  /\ DOMAIN event' = DOMAIN event \cup {NextEid}
               /\ \A e \in DOMAIN event : event'[e] = event[e]
               /\ event'[NextEid].creator = u
    BY <2>3, <2>4 DEF Put, NewEvent
  <2>5. QED
    BY <2>1, <2>2, <2>4, NewNumberListed
<1> DEFINE Creators == /\ DOMAIN event' \subseteq DOMAIN event
                       /\ \A e \in DOMAIN event' : event'[e].creator = event[e].creator
<1>2. event \in [DOMAIN event -> Event]
  BY DEF TypeOK
<1>3. ASSUME NEW c \in Connections,
             \/ \E k \in 1..MaxRead, newline \in BOOLEAN : UploadData(c, k, newline)
             \/ Disconnect(c)
      PROVE  Creators /\ UNCHANGED <<userEvents, lastEvent>>
  <2>1. \/ \E e, b : event' = [event EXCEPT ![e].description = b]
        \/ \E e : event' = Without(event, e)
    BY <1>3 DEF UploadData, StoreMore, FinishUpload, DestroyUpload, Disconnect
  <2>2. ASSUME NEW e, NEW b, event' = [event EXCEPT ![e].description = b]
        PROVE  Creators
    BY <1>2, <2>2 DEF Event
  <2>3. ASSUME NEW e, event' = Without(event, e)
        PROVE  Creators
    BY <2>3 DEF Without, Restrict
  <2>4. QED
    BY <1>3, <2>1, <2>2, <2>3 DEF UploadData, Disconnect
<1>4. CASE BookingStep
  <2>1. ASSUME NEW u \in UIDs, NEW p \in Passwords, NEW e \in EIDs, Close(u, p, e)
        PROVE  Creators
    BY <1>2, <2>1 DEF Close, Event
  <2>2. ASSUME NEW u \in UIDs, NEW p \in Passwords, NEW e \in EIDs, NEW n \in Seats,
               Reserve(u, p, e, n)
        PROVE  Creators
    BY <1>2, <2>2 DEF Reserve, Event
  <2>3. UNCHANGED <<userEvents, lastEvent>>
    BY <1>4 DEF BookingStep, Close, Reserve
  <2>4. QED
    BY <1>4, <2>1, <2>2, <2>3, KeptLists DEF BookingStep
<1>5. CASE UNCHANGED <<event, userEvents, lastEvent>>
  BY <1>5, KeptLists
<1>6. AccountStep => UNCHANGED <<event, userEvents, lastEvent>>
  BY DEF AccountStep, Login, Logout, Unregister, ChangePass
<1>7. Restart \/ Tick \/ UNCHANGED vars => UNCHANGED <<event, userEvents, lastEvent>>
  BY DEF Restart, Tick, vars
<1>8. CASE UploadStep
  BY <1>1, <1>3, <1>8, KeptLists DEF UploadStep
<1>9. QED
  BY <1>4, <1>5, <1>6, <1>7, <1>8 DEF Next

\* Every event is in the list of its creator and in no other, whatever creates
\* fail, whoever unregisters and registers again.
THEOREM EventsAlwaysListedOnce == Spec => []EventsListedOnce
<1>1. Init => EventsListedOnce
  BY DEF Init, EventsListedOnce
<1>2. Init => Ownership
  BY DEF Init, Ownership, OnlyIssued
<1>3. QED
  BY <1>1, <1>2, TypeCorrect, StepOwns, StepLists, PTL DEF Spec

-----------------------------------------------------------------------------
(***************************************************************************)
(* What each step does to the events and the creates under way, told event  *)
(* by event.                                                                *)
(***************************************************************************)

Header(c, u, p, d, a, s) ==
    \/ CreateCannotOpen(c, u, p, d, a, s)
    \/ \E k \in 0..MaxRead, newline \in BOOLEAN :
          CreateHeader(c, u, p, d, a, s, k, newline)

Upkeep(c) ==
    \/ \E k \in 1..MaxRead, newline \in BOOLEAN : UploadData(c, k, newline)
    \/ Disconnect(c)

LEMMA UploadStepKinds ==
    ASSUME UploadStep
    PROVE  \E c \in Connections :
              \/ \E u \in UIDs, p \in Passwords, d \in Times, a \in Attendances,
                    s \in FileSizes : Header(c, u, p, d, a, s)
              \/ Upkeep(c)
BY DEF UploadStep, Header, Upkeep

\* An event's record but for what a create writes, and the record's description.
SameBooking(e) ==
    /\ event'[e].date = event[e].date /\ event'[e].closed = event[e].closed
    /\ event'[e].attendance = event[e].attendance /\ event'[e].sold = event[e].sold
SameDescription(e) == event'[e].description = event[e].description

\* A create's read or its end: of the events only its own changes, and of that
\* one only the description, unless the event is destroyed.
LEMMA ReadsTouchTheirEvent ==
    ASSUME TypeOK, Ownership, NEW c \in Connections, Upkeep(c)
    PROVE  /\ c \in DOMAIN uploads /\ uploads[c].eid \in DOMAIN event
           /\ UNCHANGED <<lastEvent, now>>
           /\ \A e \in DOMAIN event : e # uploads[c].eid =>
                  e \in DOMAIN event' /\ event'[e] = event[e]
           /\ \A x \in Connections \ {c} :
                  /\ x \in DOMAIN uploads' <=> x \in DOMAIN uploads
                  /\ x \in DOMAIN uploads => uploads'[x] = uploads[x]
           /\ \/ /\ DOMAIN event' = DOMAIN event /\ SameBooking(uploads[c].eid)
                 /\ c \in DOMAIN uploads' => uploads'[c].eid = uploads[c].eid
              \/ /\ DOMAIN event' = DOMAIN event \ {uploads[c].eid}
                 /\ c \notin DOMAIN uploads'
<1> DEFINE id == uploads[c].eid
<1>1. c \in DOMAIN uploads /\ UNCHANGED <<lastEvent, now>>
  BY DEF Upkeep, UploadData, Disconnect
<1>2. id \in DOMAIN event /\ event \in [DOMAIN event -> Event] /\ event[id] \in Event
  BY <1>1 DEF Ownership, Owns, TypeOK
<1>3. uploads \in [DOMAIN uploads -> Upload] /\ uploads[c] \in Upload
  BY <1>1 DEF TypeOK
<1> DEFINE OthersKept == \A e \in DOMAIN event : e # id =>
                            e \in DOMAIN event' /\ event'[e] = event[e]
           UploadsKept == \A x \in Connections \ {c} :
                            /\ x \in DOMAIN uploads' <=> x \in DOMAIN uploads
                            /\ x \in DOMAIN uploads => uploads'[x] = uploads[x]
           Written == DOMAIN event' = DOMAIN event /\ SameBooking(id)
<1>4. ASSUME NEW b, event' = [event EXCEPT ![id].description = b]
      PROVE  OthersKept /\ Written
  BY <1>2, <1>4 DEF SameBooking, Event
<1>5. ASSUME uploads' = Without(uploads, c)
      PROVE  UploadsKept /\ c \notin DOMAIN uploads'
  BY <1>5 DEF Without, Restrict
<1>6. ASSUME NEW k, StoreMore(c, k)
      PROVE  UploadsKept /\ uploads'[c].eid = id
             /\ \E b : event' = [event EXCEPT ![id].description = b]
  <2>1. uploads' = [uploads EXCEPT ![c].written = @ + k]
    BY <1>6 DEF StoreMore
  <2>2. UploadsKept /\ uploads'[c].eid = id
    BY <1>1, <1>3, <2>1 DEF Upload
  <2>3. QED
    BY <1>6, <2>2 DEF StoreMore
<1>7. ASSUME FinishUpload(c) \/ Disconnect(c)
      PROVE  uploads' = Without(uploads, c)
             /\ \E b : event' = [event EXCEPT ![id].description = b]
  BY <1>7 DEF FinishUpload, Disconnect
<1>8. ASSUME DestroyUpload(c)
      PROVE  /\ uploads' = Without(uploads, c) /\ OthersKept
             /\ DOMAIN event' = DOMAIN event \ {id}
  BY <1>8 DEF DestroyUpload, Without, Restrict
<1>9. \/ \E k : StoreMore(c, k)
      \/ FinishUpload(c) \/ Disconnect(c) \/ DestroyUpload(c)
  BY DEF Upkeep, UploadData
<1> HIDE DEF OthersKept, UploadsKept, Written
<1>10. CASE \E k : StoreMore(c, k)
  <2>1. UploadsKept /\ uploads'[c].eid = id /\ OthersKept /\ Written
    BY <1>4, <1>6, <1>10
  <2>2. QED
    BY <1>1, <1>2, <2>1 DEF OthersKept, UploadsKept, Written
<1>11. CASE FinishUpload(c) \/ Disconnect(c)
  <2>1. UploadsKept /\ c \notin DOMAIN uploads' /\ OthersKept /\ Written
    BY <1>4, <1>5, <1>7, <1>11
  <2>2. QED
    BY <1>1, <1>2, <2>1 DEF OthersKept, UploadsKept, Written
<1>12. CASE DestroyUpload(c)
  <2>1. /\ UploadsKept /\ c \notin DOMAIN uploads' /\ OthersKept
        /\ DOMAIN event' = DOMAIN event \ {id}
    BY <1>5, <1>8, <1>12
  <2>2. QED
    BY <1>1, <1>2, <2>1 DEF OthersKept, UploadsKept
<1>13. QED
  BY <1>9, <1>10, <1>11, <1>12

\* A create's header: the number issued goes to a new event of its own, at once
\* complete, without a file, or with a create that goes on, or is used up.
Issued(e) ==
    /\ lastEvent \in Nat /\ e = lastEvent + 1 /\ lastEvent' = e
    /\ e \in EIDs /\ e \notin DOMAIN event /\ UNCHANGED now

Directory(e, d, a) ==
    /\ DOMAIN event' = DOMAIN event \cup {e}
    /\ \A x \in DOMAIN event : event'[x] = event[x]
    /\ event'[e].date = d /\ event'[e].attendance = a
    /\ event'[e].sold = 0 /\ event'[e].closed = FALSE

Brings(c, e) ==
    /\ DOMAIN uploads' = DOMAIN uploads \cup {c}
    /\ \A x \in DOMAIN uploads : uploads'[x] = uploads[x]
    /\ uploads'[c].eid = e

LEMMA HeadersTouchTheirEvent ==
    ASSUME TypeOK, Ownership, NEW c \in Connections, NEW u \in UIDs, NEW p \in Passwords,
           NEW d \in Times, NEW a \in Attendances, NEW s \in FileSizes,
           Header(c, u, p, d, a, s), NEW e, e = NextEid
    PROVE  /\ Issued(e)
           /\ \/ UNCHANGED <<event, uploads>>
              \/ Directory(e, d, a) /\ (UNCHANGED uploads \/ Brings(c, e))
<1>1. lastEvent \in Nat /\ e = lastEvent + 1
  BY OwnershipNumbers DEF NextEid
<1>2. e \notin DOMAIN event
  BY <1>1 DEF Ownership, OnlyIssued
<1>3. c \notin DOMAIN uploads /\ lastEvent' = NextEid /\ UNCHANGED now
  BY DEF Header, CreateHeader, CreateCannotOpen, create_event_dirs
<1>4. lastEvent # MaxEvents
  BY DEF Header, CreateHeader, CreateCannotOpen, start_create_event
<1>5. e \in EIDs
  <2>1. lastEvent \in 0..MaxEvents
    BY DEF TypeOK
  <2>2. QED
    BY <1>1, <1>4, <2>1, NumbersAreIntegers DEF EIDs
<1>6. \/ UNCHANGED <<event, uploads>>
      \/ /\ \E b : event' = Put(event, e, NewEvent(u, d, a, s, b))
         /\ \/ UNCHANGED uploads
            \/ \E k : uploads' = Put(uploads, c, [eid |-> e, filesize |-> s, written |-> k])
  BY DEF Header, CreateHeader, CreateCannotOpen
<1>7. ASSUME NEW b, event' = Put(event, e, NewEvent(u, d, a, s, b))
      PROVE  Directory(e, d, a)
  BY <1>2, <1>7 DEF Put, NewEvent, Directory
<1>8. ASSUME NEW k, uploads' = Put(uploads, c, [eid |-> e, filesize |-> s, written |-> k])
      PROVE  Brings(c, e)
  BY <1>3, <1>8 DEF Put, Brings
<1>9. Issued(e)
  BY <1>1, <1>2, <1>3, <1>5 DEF Issued
<1>10. QED
  BY <1>6, <1>7, <1>8, <1>9

LEMMA StepEnded ==
    ASSUME TypeOK, Ownership, [Next]_vars, NEW e \in DOMAIN event, ~Pending(e)
    PROVE  e \in DOMAIN event' /\ SameDescription(e)
<1>1. event \in [DOMAIN event -> Event] /\ DOMAIN uploads \subseteq Connections
  BY DEF TypeOK
<1>2. CASE UploadStep
  <2>1. ASSUME NEW c \in Connections, NEW u \in UIDs, NEW p \in Passwords,
               NEW d \in Times, NEW a \in Attendances, NEW s \in FileSizes,
               Header(c, u, p, d, a, s)
        PROVE  e \in DOMAIN event' /\ event'[e] = event[e]
    <3>1. \A id : id = NextEid => UNCHANGED event \/ Directory(id, d, a)
      BY <2>1, HeadersTouchTheirEvent
    <3>2. QED
      BY <3>1 DEF Directory
  <2>2. ASSUME NEW c \in Connections, Upkeep(c)
        PROVE  e \in DOMAIN event' /\ event'[e] = event[e]
    BY <2>2, ReadsTouchTheirEvent DEF Pending
  <2>3. QED
    BY <1>2, <2>1, <2>2, UploadStepKinds DEF SameDescription
<1>3. CASE BookingStep
  <2>1. ASSUME NEW u \in UIDs, NEW p \in Passwords, NEW x \in EIDs, Close(u, p, x)
        PROVE  e \in DOMAIN event' /\ SameDescription(e)
    BY <1>1, <2>1 DEF Close, Event, SameDescription
  <2>2. ASSUME NEW u \in UIDs, NEW p \in Passwords, NEW x \in EIDs, NEW n \in Seats,
               Reserve(u, p, x, n)
        PROVE  e \in DOMAIN event' /\ SameDescription(e)
    BY <1>1, <2>2 DEF Reserve, Event, SameDescription
  <2>3. QED
    BY <1>3, <2>1, <2>2 DEF BookingStep
<1>4. AccountStep \/ Restart \/ Tick \/ UNCHANGED vars => UNCHANGED event
  BY DEF AccountStep, Login, Logout, Unregister, ChangePass, Restart, Tick, vars
<1>5. QED
  BY <1>2, <1>3, <1>4 DEF Next, SameDescription

\* The directory and the description of an event whose create has ended are
\* beyond every other create, however many fail around it.
THEOREM EndedCreatesAreFinal == Spec => EndedCreateIsFinal
<1>1. Init => Ownership
  BY DEF Init, Ownership, OnlyIssued
<1>2. ASSUME TypeOK, Ownership, [Next]_vars
      PROVE  [\A e \in DOMAIN event :
                 ~Pending(e) => /\ e \in DOMAIN event'
                                /\ event'[e].description = event[e].description]_vars
  BY <1>2, StepEnded DEF SameDescription
<1>3. QED
  BY <1>1, <1>2, TypeCorrect, StepOwns, PTL DEF Spec, EndedCreateIsFinal

-----------------------------------------------------------------------------
(***************************************************************************)
(* EventStore implements EventLifecycle: each action of EventLifecycle from *)
(* what a step changes in the refinement mapping, number by number.         *)
(***************************************************************************)
LEMMA InitImplements == TypeOK /\ Init => Lifecycle!Init
<1> SUFFICES ASSUME TypeOK, Init
             PROVE  Lifecycle!Init
  OBVIOUS
<1>1. DOMAIN event = {} /\ lastEvent = 0
  BY DEF Init
<1>2. \A e \in EIDs : e > lastEvent /\ ~does_event_exist(e)
  BY <1>1, NumbersAreIntegers DEF does_event_exist, EIDs
<1>3. PastEvents = {}
  BY <1>1 DEF PastEvents
<1>4. /\ Phases = [e \in EIDs |-> "unused"] /\ Opens = [e \in EIDs |-> FALSE]
      /\ Frees = [e \in EIDs |-> 0]
  BY <1>2 DEF Phases, Opens, Frees
<1>5. QED
  BY <1>3, <1>4 DEF Lifecycle!Init, Lifecycle!Numbers, EIDs

LEMMA FailImplements ==
    ASSUME NEW e \in EIDs, Phases[e] = "unused",
           \A lower \in 1..(e - 1) : Phases[lower] # "unused",
           \A x \in EIDs : Phases'[x] = IF x = e THEN "removed" ELSE Phases[x],
           UNCHANGED <<Opens, Frees, PastEvents>>
    PROVE  Lifecycle!Issue(e)
<1>1. Phases' = [Phases EXCEPT ![e] = "removed"]
  BY DEF Phases
<1>2. QED
  BY <1>1 DEF Lifecycle!Issue

LEMMA SettleImplements ==
    ASSUME NEW ended \in SUBSET EIDs, \A e \in ended : Phases[e] = "pending",
           \A x \in EIDs : Phases'[x] = IF x \in ended THEN "settled" ELSE Phases[x],
           UNCHANGED <<Opens, Frees, PastEvents>>
    PROVE  Lifecycle!Settle(ended)
<1>1. Phases' = [e \in EIDs |-> IF e \in ended THEN "settled" ELSE Phases[e]]
  BY DEF Phases
<1>2. QED
  BY <1>1 DEF Lifecycle!Settle, Lifecycle!Numbers, EIDs

LEMMA RemoveImplements ==
    ASSUME NEW e \in EIDs, Phases[e] = "pending",
           \A x \in EIDs : /\ Phases'[x] = IF x = e THEN "removed" ELSE Phases[x]
                           /\ Opens'[x] = IF x = e THEN FALSE ELSE Opens[x]
                           /\ Frees'[x] = IF x = e THEN 0 ELSE Frees[x],
           PastEvents' = PastEvents \ {e}
    PROVE  Lifecycle!Remove(e)
<1>1. Phases' = [Phases EXCEPT ![e] = "removed"]
  BY DEF Phases
<1>2. Opens' = [Opens EXCEPT ![e] = FALSE]
  BY DEF Opens
<1>3. Frees' = [Frees EXCEPT ![e] = 0]
  BY DEF Frees
<1>4. QED
  BY <1>1, <1>2, <1>3
  DEF Lifecycle!Remove

LEMMA BookImplements ==
    ASSUME NEW e \in EIDs, Phases[e] \in {"pending", "settled"}, Opens[e], e \notin PastEvents,
           NEW n \in 1..Frees[e],
           \A x \in EIDs : Frees'[x] = IF x = e THEN Frees[e] - n ELSE Frees[x],
           UNCHANGED <<Phases, Opens, PastEvents>>
    PROVE  Lifecycle!Book(e)
<1>1. Frees' = [Frees EXCEPT ![e] = @ - n]
  BY DEF Frees
<1>2. QED
  BY <1>1 DEF Lifecycle!Book, Lifecycle!Bookable, Lifecycle!Live, Lifecycle!Numbers, EIDs

LEMMA CloseImplements ==
    ASSUME NEW e \in EIDs, Phases[e] \in {"pending", "settled"}, Opens[e], e \notin PastEvents,
           Frees[e] > 0,
           \A x \in EIDs : Opens'[x] = IF x = e THEN FALSE ELSE Opens[x],
           UNCHANGED <<Phases, Frees, PastEvents>>
    PROVE  Lifecycle!CloseSales(e)
<1>1. Opens' = [Opens EXCEPT ![e] = FALSE]
  BY DEF Opens
<1>2. QED
  BY <1>1 DEF Lifecycle!CloseSales, Lifecycle!Bookable, Lifecycle!Live, Lifecycle!Numbers,
              EIDs

LEMMA TimeImplements ==
    ASSUME NEW late \in SUBSET {e \in EIDs : Phases[e] \in {"pending", "settled"}},
           PastEvents' = PastEvents \cup late, UNCHANGED <<Phases, Opens, Frees>>
    PROVE  Lifecycle!TimePasses
BY DEF Lifecycle!TimePasses, Lifecycle!Live, Lifecycle!Numbers, EIDs

LEMMA StutterImplements ==
    ASSUME UNCHANGED <<Phases, Opens, Frees, PastEvents>>
    PROVE  UNCHANGED Lifecycle!lifeVars
BY DEF Lifecycle!lifeVars

\* A step that leaves the events' records, and the numbers, alone changes at most
\* which of them are pending.
LEMMA SamePhases ==
    ASSUME UNCHANGED lastEvent, DOMAIN event' = DOMAIN event,
           NEW x \in EIDs, Pending(x)' <=> Pending(x)
    PROVE  Phases'[x] = Phases[x]
BY DEF Phases, does_event_exist, Pending

\* What keeps an event's booking keeps it bookable, and its seats.
LEMMA SameBookable ==
    ASSUME NEW x \in EIDs, x \in DOMAIN event <=> x \in DOMAIN event',
           x \in DOMAIN event => SameBooking(x), UNCHANGED now
    PROVE  /\ Opens'[x] = Opens[x] /\ Frees'[x] = Frees[x]
           /\ x \in PastEvents' <=> x \in PastEvents
BY DEF Opens, Frees, Remaining, PastEvents, does_event_exist, is_event_past,
       SameBooking

LEMMA FunctionsEqual ==
    /\ (\A x \in EIDs : Phases'[x] = Phases[x]) => UNCHANGED Phases
    /\ (\A x \in EIDs : Opens'[x] = Opens[x]) => UNCHANGED Opens
    /\ (\A x \in EIDs : Frees'[x] = Frees[x]) => UNCHANGED Frees
BY DEF Phases, Opens, Frees

LEMMA HeaderImplements ==
    ASSUME TypeOK, Ownership, NEW c \in Connections, NEW u \in UIDs, NEW p \in Passwords,
           NEW d \in Times, NEW a \in Attendances, NEW s \in FileSizes,
           Header(c, u, p, d, a, s), NEW e, e = NextEid
    PROVE  e \in EIDs /\ Lifecycle!Issue(e)
<1>1. /\ Issued(e)
      /\ \/ UNCHANGED <<event, uploads>>
         \/ Directory(e, d, a) /\ (UNCHANGED uploads \/ Brings(c, e))
  BY HeadersTouchTheirEvent
<1>2. /\ lastEvent \in Nat /\ e = lastEvent + 1 /\ lastEvent' = e
      /\ e \in EIDs /\ e \notin DOMAIN event /\ UNCHANGED now
  BY <1>1 DEF Issued
<1>3. ~Pending(e) /\ DOMAIN event \subseteq EIDs
  BY <1>2 DEF Ownership, Owns, Pending, TypeOK
<1>4. Phases[e] = "unused" /\ \A lower \in 1..(e - 1) : Phases[lower] # "unused"
  BY <1>2, NumbersAreIntegers DEF Phases, EIDs
<1>5. /\ \A x \in EIDs : x # e => (x > lastEvent' <=> x > lastEvent)
      /\ ~(e > lastEvent')
  BY <1>2, NumbersAreIntegers
<1>6. CASE UNCHANGED <<event, uploads>>
  <2>1. /\ \A x : does_event_exist(x)' <=> does_event_exist(x)
        /\ \A x : Pending(x)' <=> Pending(x)
        /\ ~does_event_exist(e)
    BY <1>2, <1>6 DEF does_event_exist, Pending
  <2>2. \A x \in EIDs : Phases'[x] = IF x = e THEN "removed" ELSE Phases[x]
    BY <1>2, <1>5, <2>1 DEF Phases
  <2>3. UNCHANGED <<Opens, Frees, PastEvents>>
    BY <1>2, <1>6 DEF Opens, Frees, Remaining, PastEvents, does_event_exist, is_event_past
  <2>4. QED
    BY <1>2, <1>4, <2>2, <2>3, FailImplements
<1>7. CASE Directory(e, d, a) /\ (UNCHANGED uploads \/ Brings(c, e))
  <2>1. \A x : does_event_exist(x)' <=> does_event_exist(x) \/ x = e
    BY <1>7 DEF Directory, does_event_exist
  <2>2. \A x \in EIDs : x # e => (Pending(x)' <=> Pending(x))
    <3>1. CASE UNCHANGED uploads
      BY <3>1 DEF Pending
    <3>2. CASE Brings(c, e)
      <4>1. c \notin DOMAIN uploads
        BY DEF Header, CreateHeader, CreateCannotOpen
      <4>2. QED
        BY <3>2, <4>1 DEF Pending, Brings
    <3>3. QED
      BY <1>7, <3>1, <3>2
  <2>3. PICK q \in {"pending", "settled"} : q = "pending" <=> Pending(e)'
    <3>1. CASE Pending(e)'
      BY <3>1
    <3>2. CASE ~Pending(e)'
      BY <3>2
    <3>3. QED
      BY <3>1, <3>2
  <2>4. \A x \in EIDs : Phases'[x] = IF x = e THEN q ELSE Phases[x]
    BY <1>2, <1>5, <2>1, <2>2, <2>3 DEF Phases
  <2>5. \A x \in EIDs : Opens'[x] = IF x = e THEN TRUE ELSE Opens[x]
    BY <1>2, <1>7, <2>1 DEF Opens, Directory, does_event_exist
  <2>6. a - 0 = a
    BY SizesAreNumbers
  <2>7. \A x \in EIDs : Frees'[x] = IF x = e THEN a ELSE Frees[x]
    BY <1>2, <1>7, <2>1, <2>6 DEF Frees, Remaining, Directory, does_event_exist
  <2>8. PICK old \in SUBSET {e} : old = {x \in {e} : is_event_past(d)}
    OBVIOUS
  <2>9. PastEvents' = PastEvents \cup old
    BY <1>2, <1>7, <2>8 DEF PastEvents, Directory, is_event_past
  <2>10. Phases' = [Phases EXCEPT ![e] = q]
    BY <2>4 DEF Phases
  <2>11. Opens' = [Opens EXCEPT ![e] = TRUE]
    BY <2>5 DEF Opens
  <2>12. Frees' = [Frees EXCEPT ![e] = a]
    BY <2>7 DEF Frees
  <2>13. QED
    BY <1>2, <1>4, <2>3, <2>8, <2>9, <2>10, <2>11, <2>12 DEF Lifecycle!Issue
<1>8. QED
  BY <1>1, <1>2, <1>6, <1>7

\* A create's read or its end: nothing, the end of a pending event's create, or
\* the removal of a pending event.
LEMMA UpkeepImplements ==
    ASSUME TypeOK, Ownership, NEW c \in Connections, Upkeep(c),
           NEW e \in EIDs, e = uploads[c].eid
    PROVE  \/ UNCHANGED Lifecycle!lifeVars
           \/ \E ended \in SUBSET EIDs : Lifecycle!Settle(ended)
           \/ Lifecycle!Remove(e)
<1>1. /\ c \in DOMAIN uploads /\ e \in DOMAIN event
      /\ UNCHANGED <<lastEvent, now>>
      /\ \A x \in DOMAIN event : x # e => x \in DOMAIN event' /\ event'[x] = event[x]
      /\ \A x \in Connections \ {c} :
             /\ x \in DOMAIN uploads' <=> x \in DOMAIN uploads
             /\ x \in DOMAIN uploads => uploads'[x] = uploads[x]
      /\ \/ /\ DOMAIN event' = DOMAIN event /\ SameBooking(e)
            /\ c \in DOMAIN uploads' => uploads'[c].eid = e
         \/ /\ DOMAIN event' = DOMAIN event \ {e}
            /\ c \notin DOMAIN uploads'
  BY ReadsTouchTheirEvent
<1>2. DOMAIN uploads \subseteq Connections /\ DOMAIN uploads' \subseteq Connections
  BY StepTypes DEF TypeOK, Next, UploadStep, Upkeep
<1>3. \A x \in DOMAIN uploads : x # c => uploads[x].eid # e
  BY <1>1 DEF Ownership
<1>4. \A x \in EIDs : x # e => (Pending(x)' <=> Pending(x))
  BY <1>1, <1>2 DEF Pending
<1>5. Pending(e) /\ (Pending(e)' <=> c \in DOMAIN uploads' /\ uploads'[c].eid = e)
  BY <1>1, <1>2, <1>3 DEF Pending
<1>6. ~(e > lastEvent) /\ Phases[e] = "pending"
  <2>1. e \in 1..lastEvent /\ lastEvent \in Nat
    BY <1>1, OwnershipNumbers DEF Ownership, OnlyIssued
  <2>2. QED
    BY <1>1, <1>5, <2>1 DEF Phases, does_event_exist
<1>7. CASE DOMAIN event' = DOMAIN event /\ SameBooking(e)
  <2>1. \A x \in DOMAIN event : SameBooking(x)
    BY <1>1, <1>7 DEF SameBooking
  <2>2. UNCHANGED <<Opens, Frees>>
    BY <1>1, <1>7, <2>1, SameBookable, FunctionsEqual
  <2>3. UNCHANGED PastEvents
    BY <1>1, <1>7, <2>1 DEF PastEvents, is_event_past, SameBooking
  <2>4. CASE Pending(e)'
    <3>1. \A x \in EIDs : Phases'[x] = Phases[x]
      BY <1>1, <1>4, <1>5, <1>7, <2>4, SamePhases
    <3>2. QED
      BY <2>2, <2>3, <3>1, FunctionsEqual, StutterImplements
  <2>5. CASE ~Pending(e)'
    <3>1. \A x \in EIDs : Phases'[x] = IF x \in {e} THEN "settled" ELSE Phases[x]
      BY <1>1, <1>4, <1>6, <1>7, <2>5 DEF Phases, does_event_exist
    <3>2. Lifecycle!Settle({e})
      BY <1>6, <2>2, <2>3, <3>1, SettleImplements
    <3>3. QED
      BY <3>2
  <2>6. QED
    BY <2>4, <2>5
<1>8. CASE DOMAIN event' = DOMAIN event \ {e} /\ c \notin DOMAIN uploads'
  <2>1. \A x \in EIDs : x # e => Phases'[x] = Phases[x]
    BY <1>1, <1>4, <1>8 DEF Phases, does_event_exist
  <2>2. \A x \in EIDs : x # e => Opens'[x] = Opens[x] /\ Frees'[x] = Frees[x]
    BY <1>1, <1>8 DEF Opens, Frees, Remaining, does_event_exist
  <2>3. Phases'[e] = "removed" /\ Opens'[e] = FALSE /\ Frees'[e] = 0
    BY <1>1, <1>6, <1>8 DEF Phases, Opens, Frees, does_event_exist
  <2>4. PastEvents' = PastEvents \ {e}
    BY <1>1, <1>8 DEF PastEvents, is_event_past
  <2>5. \A x \in EIDs : /\ Phases'[x] = IF x = e THEN "removed" ELSE Phases[x]
                        /\ Opens'[x] = IF x = e THEN FALSE ELSE Opens[x]
                        /\ Frees'[x] = IF x = e THEN 0 ELSE Frees[x]
    BY <2>1, <2>2, <2>3
  <2>6. Lifecycle!Remove(e)
    BY ONLY <1>6, <2>4, <2>5, RemoveImplements
  <2>7. QED
    BY <2>6
<1>9. QED
  BY <1>1, <1>7, <1>8

LEMMA RestartImplements ==
    ASSUME TypeOK, Restart
    PROVE  \E ended \in SUBSET EIDs : Lifecycle!Settle(ended)
<1>1. UNCHANGED <<event, lastEvent, now>> /\ \A e : ~Pending(e)'
  BY DEF Restart, Pending
<1>2. PICK ended \in SUBSET EIDs : ended = {e \in EIDs : Phases[e] = "pending"}
  OBVIOUS
<1>3. \A e \in EIDs : Phases'[e] = IF e \in ended THEN "settled" ELSE Phases[e]
  BY <1>1, <1>2 DEF Phases, does_event_exist
<1>4. UNCHANGED <<Opens, Frees, PastEvents>>
  BY <1>1 DEF Opens, Frees, Remaining, PastEvents, does_event_exist, is_event_past
<1>5. Lifecycle!Settle(ended)
  BY <1>2, <1>3, <1>4, SettleImplements
<1>6. QED
  BY <1>5

\* Closing takes one open event with seats out of the sale.
LEMMA CloseStepImplements ==
    ASSUME TypeOK, Ownership, SeatsConserved,
           NEW u \in UIDs, NEW p \in Passwords, NEW e \in EIDs, Close(u, p, e)
    PROVE  Lifecycle!CloseSales(e)
<1>1. /\ e \in DOMAIN event /\ ~is_event_past(event[e].date) /\ ~event[e].closed
      /\ Remaining(e) # 0
  BY DEF Close, close_event, does_event_exist
<1>2. event \in [DOMAIN event -> Event] /\ event[e] \in Event
  BY <1>1 DEF TypeOK
<1>3. Remaining(e) \in Nat
  BY <1>1, <1>2, SizesAreNumbers DEF SeatsConserved, Remaining, Event
<1>4. /\ Phases[e] \in {"pending", "settled"} /\ Opens[e] /\ e \notin PastEvents
      /\ Frees[e] > 0
  <2>1. e \in 1..lastEvent /\ lastEvent \in Nat
    BY <1>1, OwnershipNumbers DEF Ownership, OnlyIssued
  <2>2. Phases[e] \in {"pending", "settled"}
    BY <1>1, <2>1 DEF Phases, does_event_exist
  <2>3. Opens[e] /\ e \notin PastEvents
    BY <1>1 DEF Opens, PastEvents, does_event_exist
  <2>4. Frees[e] > 0
    BY <1>1, <1>3 DEF Frees, does_event_exist
  <2>5. QED
    BY <2>2, <2>3, <2>4
<1>5. UNCHANGED <<lastEvent, uploads, now>>
  BY DEF Close
<1>6. /\ DOMAIN event' = DOMAIN event
      /\ \A x \in DOMAIN event : /\ event'[x].date = event[x].date
                                 /\ event'[x].attendance = event[x].attendance
                                 /\ event'[x].sold = event[x].sold
                                 /\ event'[x].closed = (x = e \/ event[x].closed)
  BY <1>1, <1>2 DEF Close, Event
<1>7. UNCHANGED <<Phases, Frees, PastEvents>>
  BY <1>5, <1>6 DEF Phases, Frees, Remaining, PastEvents, does_event_exist, Pending,
                    is_event_past
<1>8. \A x \in EIDs : Opens'[x] = IF x = e THEN FALSE ELSE Opens[x]
  BY <1>6 DEF Opens, does_event_exist
<1>9. QED
  BY <1>4, <1>7, <1>8, CloseImplements

\* A reservation takes seats of an open event, or none when it asks for none.
LEMMA ReserveStepImplements ==
    ASSUME TypeOK, Ownership, SeatsConserved,
           NEW u \in UIDs, NEW p \in Passwords, NEW e \in EIDs, NEW n \in Seats,
           Reserve(u, p, e, n)
    PROVE  Lifecycle!Book(e) \/ UNCHANGED Lifecycle!lifeVars
<1>1. /\ e \in DOMAIN event /\ ~is_event_past(event[e].date) /\ ~event[e].closed
      /\ Remaining(e) # 0 /\ ~(n > Remaining(e))
  BY DEF Reserve, reserve, does_event_exist
<1>2. event \in [DOMAIN event -> Event] /\ event[e] \in Event
  BY <1>1 DEF TypeOK
<1>3. /\ Remaining(e) \in Nat /\ n \in Nat
      /\ event[e].sold \in Nat /\ event[e].attendance \in Nat
  BY <1>1, <1>2, SizesAreNumbers DEF SeatsConserved, Remaining, Event
<1>4. /\ Phases[e] \in {"pending", "settled"} /\ Opens[e] /\ e \notin PastEvents
      /\ Frees[e] = Remaining(e)
  <2>1. e \in 1..lastEvent /\ lastEvent \in Nat
    BY <1>1, OwnershipNumbers DEF Ownership, OnlyIssued
  <2>2. Phases[e] \in {"pending", "settled"}
    BY <1>1, <2>1 DEF Phases, does_event_exist
  <2>3. Opens[e] /\ e \notin PastEvents /\ Frees[e] = Remaining(e)
    BY <1>1 DEF Opens, Frees, PastEvents, does_event_exist
  <2>4. QED
    BY <2>2, <2>3
<1>5. UNCHANGED <<lastEvent, uploads, now>>
  BY DEF Reserve
<1>6. /\ DOMAIN event' = DOMAIN event
      /\ \A x \in DOMAIN event : /\ event'[x].date = event[x].date
                                 /\ event'[x].attendance = event[x].attendance
                                 /\ event'[x].closed = event[x].closed
                                 /\ x # e => event'[x].sold = event[x].sold
      /\ event'[e].sold = event[e].sold + n
  BY <1>1, <1>2 DEF Reserve, Event
<1>7. UNCHANGED <<Phases, Opens, PastEvents>>
  BY <1>5, <1>6 DEF Phases, Opens, PastEvents, does_event_exist, Pending, is_event_past
<1>8. Frees'[e] = Frees[e] - n
  BY <1>1, <1>3, <1>4, <1>6 DEF Frees, Remaining, does_event_exist
<1>9. \A x \in EIDs : x # e => Frees'[x] = Frees[x]
  BY <1>6 DEF Frees, Remaining, does_event_exist
<1>10. CASE n = 0
  <2>1. \A x \in EIDs : Frees'[x] = Frees[x]
    BY <1>3, <1>4, <1>8, <1>9, <1>10
  <2>2. QED
    BY <1>7, <2>1, FunctionsEqual, StutterImplements
<1>11. CASE n # 0
  <2>1. n \in 1..Frees[e]
    BY <1>1, <1>3, <1>4, <1>11
  <2>2. \A x \in EIDs : Frees'[x] = IF x = e THEN Frees[e] - n ELSE Frees[x]
    BY <1>8, <1>9
  <2>3. Lifecycle!Book(e)
    BY <1>4, <1>7, <2>1, <2>2, BookImplements
  <2>4. QED
    BY <2>3
<1>12. QED
  BY <1>10, <1>11

\* The clock makes events past, for good.
LEMMA TickImplements ==
    ASSUME TypeOK, Ownership, Tick
    PROVE  Lifecycle!TimePasses
<1>1. UNCHANGED <<event, uploads, lastEvent>> /\ now' = now + 1
  BY DEF Tick
<1>2. UNCHANGED <<Phases, Opens, Frees>>
  BY <1>1 DEF Phases, Opens, Frees, Remaining, does_event_exist, Pending
<1>3. \A e \in DOMAIN event : event[e].date \in Int
  <2>1. \A e \in DOMAIN event : event[e] \in Event
    BY DEF TypeOK
  <2>2. QED
    BY <2>1 DEF Event, Times
<1>4. now \in Int
  BY DEF TypeOK, Times
<1>5. \A e \in PastEvents : e \in PastEvents'
  BY <1>1, <1>3, <1>4 DEF PastEvents, is_event_past
<1>6. PICK late \in SUBSET EIDs : late = PastEvents'
  BY <1>1 DEF PastEvents, TypeOK
<1>7. \A e \in DOMAIN event : e \in EIDs /\ Phases[e] \in {"pending", "settled"}
  <2>1. \A e \in DOMAIN event : e \in EIDs /\ ~(e > lastEvent)
    BY OwnershipNumbers DEF TypeOK, Ownership, OnlyIssued
  <2>2. QED
    BY <2>1 DEF Phases, does_event_exist
<1>8. late \in SUBSET {e \in EIDs : Phases[e] \in {"pending", "settled"}}
  BY <1>1, <1>6, <1>7 DEF PastEvents
<1>9. PastEvents' = PastEvents \cup late
  BY <1>5, <1>6
<1>10. QED
  BY <1>2, <1>8, <1>9, TimeImplements

LEMMA StepImplements ==
    ASSUME TypeOK, Ownership, SeatsConserved, [Next]_vars
    PROVE  [Lifecycle!Next]_(Lifecycle!lifeVars)
<1> USE DEF Lifecycle!Next, Lifecycle!Numbers, EIDs
<1>1. ASSUME NEW c \in Connections, NEW u \in UIDs, NEW p \in Passwords,
             NEW d \in Times, NEW a \in Attendances, NEW s \in FileSizes,
             Header(c, u, p, d, a, s)
      PROVE  Lifecycle!Next
  <2>1. \A e : e = NextEid => e \in EIDs /\ Lifecycle!Issue(e)
    BY <1>1, HeaderImplements
  <2>2. QED
    BY <2>1
<1>2. ASSUME NEW c \in Connections, Upkeep(c)
      PROVE  Lifecycle!Next \/ UNCHANGED Lifecycle!lifeVars
  <2>1. uploads[c].eid \in EIDs
    BY <1>2, ReadsTouchTheirEvent DEF TypeOK
  <2>2. PICK e \in EIDs : e = uploads[c].eid
    BY <2>1
  <2>3. QED
    BY <1>2, <2>2, UpkeepImplements
<1>3. CASE UploadStep
  BY <1>1, <1>2, <1>3, UploadStepKinds
<1>4. CASE Restart
  BY <1>4, RestartImplements
<1>5. CASE BookingStep
  BY <1>5, CloseStepImplements, ReserveStepImplements DEF BookingStep
<1>6. CASE Tick
  BY <1>6, TickImplements
<1>7. AccountStep \/ UNCHANGED vars => UNCHANGED <<event, uploads, lastEvent, now>>
  BY DEF AccountStep, Login, Logout, Unregister, ChangePass, vars
<1>8. CASE UNCHANGED <<event, uploads, lastEvent, now>>
  <2>1. UNCHANGED <<Phases, Opens, Frees, PastEvents>>
    BY <1>8 DEF Phases, Opens, Frees, Remaining, PastEvents, does_event_exist, Pending,
                is_event_past
  <2>2. QED
    BY <2>1, StutterImplements
<1>9. QED
  BY <1>3, <1>4, <1>5, <1>6, <1>7, <1>8 DEF Next

\* Every run of the server's handlers is, seen by event number, a run of
\* EventLifecycle: numbers are issued in order and once, only a create's own
\* event can be removed, seats are only taken and only while the event is open
\* and to come, and a restart settles what was under way.
THEOREM LifecycleIsImplemented == Spec => ImplementsLifecycle
<1>1. Init => Ownership
  BY DEF Init, Ownership, OnlyIssued
<1>2. Init => Lifecycle!Init
  BY InitType, InitImplements
<1>3. QED
  BY <1>1, <1>2, TypeCorrect, SeatsAreConserved, StepOwns, StepImplements, PTL
  DEF Spec, ImplementsLifecycle, Lifecycle!Spec

=============================================================================
