----------------------------- MODULE EventStore -----------------------------
(***************************************************************************)
(* The directory tree the reservation server keeps under USERS/ and        *)
(* EVENTS/, together with every request handler that reads or changes it.  *)
(* The server is one process with one select loop, so a handler runs to    *)
(* completion before the next one starts: each request that changes the    *)
(* store is one action, and a request the ladder of checks refuses leaves  *)
(* the store alone.  The exception is a create: its header is one request  *)
(* and the description file arrives afterwards, one read at a time, with   *)
(* the requests of every other connection in between.                      *)
(***************************************************************************)
EXTENDS Integers, Sequences, FiniteSets, Functions, Wire, Ledger

CONSTANTS
    UIDs,           \* user identifiers (parse_uid: six digits)
    Passwords,      \* well-formed passwords (parse_password)
    Connections,    \* TCP connections that may carry a create
    Attendances,    \* numbers of seats a create may ask for
    FileSizes,      \* description sizes a create may announce
    Seats,          \* numbers of seats a RID request may ask for
    MaxEvents,      \* the last event number the server issues (999)
    MaxTime,        \* bound: the clock stops here
    MaxRead,        \* bound: most bytes one read returns
    MaxRecords      \* bound: most numbers appended to one reservation file

ASSUME LimitAssumption ==
    /\ MaxEvents \in 1..999
    /\ MaxTime \in Nat
    /\ MaxRead \in Nat
    /\ MaxRecords \in Nat

ASSUME RequestAssumption ==
    /\ Attendances \subseteq parse_attendance
    /\ FileSizes \subseteq parse_filesize
    /\ Seats \subseteq parse_reserve_number

EIDs  == 1..MaxEvents
Times == 0..MaxTime

VARIABLES
    passwd,         \* USERS/uid/passwd, for the registered users only
    loggedIn,       \* users with a USERS/uid/logged_in file
    userEvents,     \* USERS/uid/events: the numbers of the events uid created
    userRes,        \* USERS/uid/reservations: file "time-eid" |-> its numbers
    lastEvent,      \* EVENTS/ last issued event number
    event,          \* EVENTS/eid, for the event directories that exist
    uploads,        \* create requests past their header: connection |-> CreState
    now             \* the server's clock

accounts == <<passwd, loggedIn>>
vars == <<passwd, loggedIn, userEvents, userRes, lastEvent, event, uploads, now>>

Put(f, k, v) == [x \in DOMAIN f \cup {k} |-> IF x = k THEN v ELSE f[x]]
Without(f, k) == Restrict(f, DOMAIN f \ {k})

(***************************************************************************)
(* The records.                                                            *)
(***************************************************************************)
Event == [creator : UIDs, date : Times, attendance : Attendances,
          filesize : FileSizes, description : Nat, sold : Nat, closed : BOOLEAN,
          reservations : [Times \X UIDs -> Seq(Nat)]]

Upload == [eid : EIDs, filesize : FileSizes, written : Nat]

\* What start_create_event leaves in a new event directory, with b bytes of
\* the description already on disk.
NewEvent(u, d, a, s, b) ==
    [creator |-> u, date |-> d, attendance |-> a, filesize |-> s,
     description |-> b, sold |-> 0, closed |-> FALSE,
     reservations |-> [k \in Times \X UIDs |-> << >>]]

Init ==
    /\ passwd = << >>
    /\ loggedIn = {}
    /\ userEvents = [u \in UIDs |-> {}]
    /\ userRes = [u \in UIDs |-> [k \in Times \X EIDs |-> << >>]]
    /\ lastEvent = 0
    /\ event = << >>
    /\ uploads = << >>
    /\ now = 0

(***************************************************************************)
(* Reading the store.                                                      *)
(***************************************************************************)
does_user_exist(u) == u \in DOMAIN passwd
is_logged_in(u) == u \in loggedIn
check_password(u, p) == u \in DOMAIN passwd /\ passwd[u] = p
does_event_exist(e) == e \in DOMAIN event
is_event_past(d) == d <= now
Remaining(e) == event[e].attendance - event[e].sold

\* Without a details file the date reads "-1", which no clock is before.
get_event_state(e) ==
    IF ~does_event_exist(e)             THEN 0
    ELSE IF is_event_past(event[e].date) THEN 0
    ELSE IF Remaining(e) = 0            THEN 2
    ELSE IF event[e].closed             THEN 3
    ELSE 1

\* What an OK reply to LME lists for user u.
myevents(u) == {[eid |-> e, state |-> get_event_state(e)] : e \in userEvents[u]}

\* A create past its header still brings this event's description.
Pending(e) == \E c \in DOMAIN uploads : uploads[c].eid = e

\* The test show() makes before it sends a description.  A description file named
\* "." or "..", which cannot be opened either, is not distinguished: show() would
\* throw on it where this says no.
Showable(e) == does_event_exist(e) /\ event[e].description = event[e].filesize

-----------------------------------------------------------------------------
(***************************************************************************)
(* The ladders of checks, in the order the code makes them.                *)
(***************************************************************************)
logout_user(u, p) ==
    IF ~does_user_exist(u)        THEN "UNR"
    ELSE IF ~is_logged_in(u)      THEN "NOK"
    ELSE IF ~check_password(u, p) THEN "WRP"
    ELSE "OK"

changePass(u, p) ==
    IF ~does_user_exist(u)        THEN "NID"
    ELSE IF ~is_logged_in(u)      THEN "NLG"
    ELSE IF ~check_password(u, p) THEN "NOK"
    ELSE "OK"

\* Fault: the test for the last event number is dropped.
FaultNoEventLimit(u, p) ==
    IF ~does_user_exist(u)        THEN "NOK"
    ELSE IF ~is_logged_in(u)      THEN "NLG"
    ELSE IF ~check_password(u, p) THEN "WRP"
    ELSE "OK"

start_create_event(u, p) ==
    IF ~does_user_exist(u)         THEN "NOK"
    ELSE IF ~is_logged_in(u)       THEN "NLG"
    ELSE IF ~check_password(u, p)  THEN "WRP"
    ELSE IF lastEvent = MaxEvents  THEN "NOK"
    ELSE "OK"

\* Fault: a sold-out event may be closed.
FaultCloseSoldOut(u, p, e) ==
    IF ~does_user_exist(u) \/ ~check_password(u, p) THEN "NOK"
    ELSE IF ~is_logged_in(u)                  THEN "NLG"
    ELSE IF ~does_event_exist(e)              THEN "NOE"
    ELSE IF event[e].creator # u              THEN "EOW"
    ELSE IF is_event_past(event[e].date)      THEN "PST"
    ELSE IF event[e].closed                   THEN "CLO"
    ELSE "OK"

\* Fault: an event may be closed after its date.
FaultClosePast(u, p, e) ==
    IF ~does_user_exist(u) \/ ~check_password(u, p) THEN "NOK"
    ELSE IF ~is_logged_in(u)                  THEN "NLG"
    ELSE IF ~does_event_exist(e)              THEN "NOE"
    ELSE IF event[e].creator # u              THEN "EOW"
    ELSE IF event[e].closed                   THEN "CLO"
    ELSE IF Remaining(e) = 0                  THEN "SLD"
    ELSE "OK"

close_event(u, p, e) ==
    IF ~does_user_exist(u) \/ ~check_password(u, p) THEN "NOK"
    ELSE IF ~is_logged_in(u)                  THEN "NLG"
    ELSE IF ~does_event_exist(e)              THEN "NOE"
    ELSE IF event[e].creator # u              THEN "EOW"
    ELSE IF is_event_past(event[e].date)      THEN "PST"
    ELSE IF event[e].closed                   THEN "CLO"
    ELSE IF Remaining(e) = 0                  THEN "SLD"
    ELSE "OK"

reserve(u, p, e, n) ==
    IF ~is_logged_in(u)                       THEN "NLG"
    ELSE IF ~check_password(u, p)             THEN "WRP"
    ELSE IF ~does_event_exist(e)              THEN "NOK"
    ELSE IF event[e].closed                   THEN "CLS"
    ELSE IF Remaining(e) = 0                  THEN "SLD"
    ELSE IF is_event_past(event[e].date)      THEN "PST"
    ELSE IF n > Remaining(e)                  THEN "REJ"
    ELSE "ACC"

-----------------------------------------------------------------------------
(***************************************************************************)
(* The account requests, over UDP except ChangePass.                       *)
(***************************************************************************)
Login(u, p) ==
    /\ \/ ~does_user_exist(u) /\ passwd' = Put(passwd, u, p)     \* create_user
       \/ check_password(u, p) /\ UNCHANGED passwd
    /\ loggedIn' = loggedIn \cup {u}
    /\ UNCHANGED <<userEvents, userRes, lastEvent, event, uploads, now>>

Logout(u, p) ==
    /\ logout_user(u, p) = "OK"
    /\ loggedIn' = loggedIn \ {u}
    /\ UNCHANGED <<passwd, userEvents, userRes, lastEvent, event, uploads, now>>

\* Fault: the logged_in file is left behind.
FaultUnregisterKeepsLogin(u, p) ==
    /\ logout_user(u, p) = "OK"
    /\ passwd' = Without(passwd, u)
    /\ UNCHANGED <<loggedIn, userEvents, userRes, lastEvent, event, uploads, now>>

\* Fault: the user's directory goes, with everything in it.
FaultUnregisterRemovesDir(u, p) ==
    /\ logout_user(u, p) = "OK"
    /\ loggedIn' = loggedIn \ {u}
    /\ passwd' = Without(passwd, u)
    /\ userEvents' = [userEvents EXCEPT ![u] = {}]
    /\ userRes' = [userRes EXCEPT ![u] = [k \in Times \X EIDs |-> << >>]]
    /\ UNCHANGED <<lastEvent, event, uploads, now>>

\* The user's events and reservations stay, and a user who registers under
\* the same number later finds them again.
Unregister(u, p) ==
    /\ logout_user(u, p) = "OK"
    /\ loggedIn' = loggedIn \ {u}
    /\ passwd' = Without(passwd, u)
    /\ UNCHANGED <<userEvents, userRes, lastEvent, event, uploads, now>>

ChangePass(u, old, new) ==
    /\ changePass(u, old) = "OK"
    /\ passwd' = [passwd EXCEPT ![u] = new]
    /\ UNCHANGED <<loggedIn, userEvents, userRes, lastEvent, event, uploads, now>>

-----------------------------------------------------------------------------
(***************************************************************************)
(* Creating an event.                                                      *)
(***************************************************************************)
\* Fault: the next number is derived from the events that exist.
FaultEidFromCount == Cardinality(DOMAIN event) + 1

NextEid == lastEvent + 1

create_event_dirs(u) ==
    /\ lastEvent' = NextEid
    /\ userEvents' = [userEvents EXCEPT ![u] = @ \cup {NextEid}]

\* The header of a create and the first k bytes of its description, which one
\* call of try_to_parse_create handles.  An ofstream may flush at any time, so
\* any part of an unfinished description may be on disk.
CreateHeader(c, u, p, d, a, s, k, newline) ==
    /\ c \notin DOMAIN uploads
    /\ start_create_event(u, p) = "OK"
    /\ create_event_dirs(u)
    /\ \/ /\ write_event(0, s, k, newline) = "more"
          /\ \E b \in 0..k : event' = Put(event, NextEid, NewEvent(u, d, a, s, b))
          /\ uploads' = Put(uploads, c, [eid |-> NextEid, filesize |-> s, written |-> k])
       \/ /\ write_event(0, s, k, newline) = "done"
          /\ event' = Put(event, NextEid, NewEvent(u, d, a, s, s))
          /\ UNCHANGED uploads
       \/ /\ write_event(0, s, k, newline) = "destroyed"
          /\ UNCHANGED <<event, uploads>>
    /\ UNCHANGED <<accounts, userRes, now>>

\* The description file cannot be opened (a file name such as ".", or no
\* descriptor left): the reply is ERR and the connection is closed.
CreateCannotOpen(c, u, p, d, a, s) ==
    /\ c \notin DOMAIN uploads
    /\ start_create_event(u, p) = "OK"
    /\ create_event_dirs(u)
    /\ event' = Put(event, NextEid, NewEvent(u, d, a, s, 0))
    /\ UNCHANGED <<accounts, userRes, uploads, now>>

\* The read falls short of the end: its bytes are appended.
StoreMore(c, k) ==
    LET up == uploads[c] IN
    /\ \E b \in event[up.eid].description .. up.written + k :
          event' = [event EXCEPT ![up.eid].description = b]
    /\ uploads' = [uploads EXCEPT ![c].written = @ + k]

\* The read brings exactly the rest and the final '\n': the reply is OK.
FinishUpload(c) ==
    /\ event' = [event EXCEPT ![uploads[c].eid].description = uploads[c].filesize]
    /\ uploads' = Without(uploads, c)

\* Fault: the event destroyed is the one created last.
FaultDestroysLast(c) ==
    /\ event' = Without(event, lastEvent)
    /\ uploads' = Without(uploads, c)

\* The read brings too much or no '\n' at the end: destroy_event, reply NOK.
DestroyUpload(c) ==
    /\ event' = Without(event, uploads[c].eid)
    /\ uploads' = Without(uploads, c)

\* One read of k bytes on the connection of a create under way.
UploadData(c, k, newline) ==
    /\ c \in DOMAIN uploads
    /\ LET r == write_event(uploads[c].written, uploads[c].filesize, k, newline)
       IN  \/ r = "more" /\ StoreMore(c, k)
           \/ r = "done" /\ FinishUpload(c)
           \/ r = "destroyed" /\ DestroyUpload(c)
    /\ UNCHANGED <<accounts, userEvents, userRes, lastEvent, now>>

\* The client goes away, the connection fails or the session times out:
\* disconnect_tcp forgets the upload (closing its file) and keeps the event.
Disconnect(c) ==
    /\ c \in DOMAIN uploads
    /\ event' = [event EXCEPT ![uploads[c].eid].description = uploads[c].written]
    /\ uploads' = Without(uploads, c)
    /\ UNCHANGED <<accounts, userEvents, userRes, lastEvent, now>>

\* The server process ends between two requests (an uncaught exception, a
\* signal) and is started again on the same tree: what the creates under way had
\* not yet flushed is lost with their CreStates, and the tree is left as it is.
Restart ==
    /\ uploads # << >>
    /\ uploads' = << >>
    /\ UNCHANGED <<accounts, userEvents, userRes, lastEvent, event, now>>

-----------------------------------------------------------------------------
(***************************************************************************)
(* Closing and booking.                                                    *)
(***************************************************************************)
Close(u, p, e) ==
    /\ close_event(u, p, e) = "OK"
    /\ event' = [event EXCEPT ![e].closed = TRUE]
    /\ UNCHANGED <<accounts, userEvents, userRes, lastEvent, uploads, now>>

\* The handler reads the clock twice, for the test and for the file's name; they
\* are taken to be one second.
Reserve(u, p, e, n) ==
    /\ reserve(u, p, e, n) = "ACC"
    /\ Len(userRes[u][<<now, e>>]) < MaxRecords
    /\ event' = [event EXCEPT ![e].sold = @ + n,
                              ![e].reservations = Recorded(@, <<now, u>>, n)]
    /\ userRes' = [userRes EXCEPT ![u] = Recorded(@, <<now, e>>, n)]
    /\ UNCHANGED <<accounts, userEvents, lastEvent, uploads, now>>

Tick ==
    /\ now < MaxTime
    /\ now' = now + 1
    /\ UNCHANGED <<accounts, userEvents, userRes, lastEvent, event, uploads>>

-----------------------------------------------------------------------------
AccountStep ==
    \E u \in UIDs, p \in Passwords :
        \/ Login(u, p)
        \/ Logout(u, p)
        \/ Unregister(u, p)
        \/ \E new \in Passwords : ChangePass(u, p, new)

UploadStep ==
    \E c \in Connections :
        \/ \E u \in UIDs, p \in Passwords, d \in Times, a \in Attendances, s \in FileSizes :
              \/ \E k \in 0..MaxRead, newline \in BOOLEAN :
                    CreateHeader(c, u, p, d, a, s, k, newline)
              \/ CreateCannotOpen(c, u, p, d, a, s)
        \/ \E k \in 1..MaxRead, newline \in BOOLEAN : UploadData(c, k, newline)
        \/ Disconnect(c)

BookingStep ==
    \E u \in UIDs, p \in Passwords, e \in EIDs :
        \/ Close(u, p, e)
        \/ \E n \in Seats : Reserve(u, p, e, n)

Next == AccountStep \/ UploadStep \/ Restart \/ BookingStep \/ Tick

Spec == Init /\ [][Next]_vars

-----------------------------------------------------------------------------
(***************************************************************************)
(* What the store must keep true.                                          *)
(***************************************************************************)

\* The shape of every file and directory the server keeps, and of the CreState
\* it keeps in memory for a create under way (CreState.hpp, utils.cpp).
TypeOK ==
    /\ DOMAIN passwd \subseteq UIDs
    /\ passwd \in [DOMAIN passwd -> Passwords]
    /\ loggedIn \subseteq UIDs
    /\ userEvents \in [UIDs -> SUBSET EIDs]
    /\ userRes \in [UIDs -> [Times \X EIDs -> Seq(Nat)]]
    /\ lastEvent \in 0..MaxEvents
    /\ DOMAIN event \subseteq EIDs
    /\ event \in [DOMAIN event -> Event]
    /\ DOMAIN uploads \subseteq Connections
    /\ uploads \in [DOMAIN uploads -> Upload]
    /\ now \in Times

\* A user with a logged_in file has a password.  reserve() tests only the login
\* and start_create_event, close_event and changePass order their replies on it.
LoggedInRegistered == loggedIn \subseteq DOMAIN passwd

\* total-res is the sum of the numbers in the event's reservation files, which
\* reserve() writes separately, and no event is ever sold beyond its seats,
\* whoever books, in whatever order, within one second or across an upload.
SeatsConserved ==
    \A e \in DOMAIN event :
        /\ event[e].sold = Cardinality(SeatsIn(event[e].reservations))
        /\ event[e].sold <= event[e].attendance

\* The event's copy of a reservation file and the user's copy hold the same
\* numbers, across logouts, unregistration, re-registration and the clock.
LedgersAgree ==
    \A e \in DOMAIN event, u \in UIDs, t \in Times :
        event[e].reservations[<<t, u>>] = userRes[u][<<t, e>>]

\* Every event directory has an issued number and exactly its creator lists it,
\* so myevents neither misses an event nor shows one to two users.
EventsListedOnce ==
    /\ \A e \in DOMAIN event : {u \in UIDs : e \in userEvents[u]} = {event[e].creator}
    /\ \A u \in UIDs : userEvents[u] \subseteq 1..lastEvent
    /\ DOMAIN event \subseteq 1..lastEvent

\* Each create under way owns a live event of its own, announced with the same
\* size, and never stores more than announced: a failing create destroys no
\* event but its own, and show() cannot serve a description before its last
\* byte has come.
UploadsOwnEvents ==
    /\ \A c \in DOMAIN uploads :
        LET up == uploads[c] IN
        /\ up.eid \in DOMAIN event
        /\ up.filesize = event[up.eid].filesize
        /\ event[up.eid].description <= up.written
        /\ up.written <= up.filesize
    /\ \A c, d \in DOMAIN uploads : uploads[c].eid = uploads[d].eid => c = d
    /\ \A e \in DOMAIN event : event[e].description <= event[e].filesize

\* An event is not both closed by its creator and sold out: get_event_state,
\* close_event and reserve test the two in different orders.
NeverClosedAndSoldOut ==
    \A e \in DOMAIN event : event[e].closed => Remaining(e) > 0

\* The state list and myevents print and the replies to the creator's close and
\* to a one-seat reservation come from three ladders of tests in three orders.
\* They describe the same event: 1 exactly when both succeed, and otherwise the
\* reply names the reason printed.
LaddersAgree ==
    \A e \in DOMAIN event :
        LET u == event[e].creator
            state == get_event_state(e)
        IN  is_logged_in(u) =>
              LET toClose == close_event(u, passwd[u], e)
                  toReserve == reserve(u, passwd[u], e, 1)
              IN  /\ state = 1 <=> toReserve = "ACC"
                  /\ state = 1 <=> toClose = "OK"
                  /\ state = 2 => toReserve = "SLD" /\ toClose = "SLD"
                  /\ state = 3 => toReserve = "CLS" /\ toClose = "CLO"
                  /\ state = 0 => toReserve \in {"CLS", "SLD", "PST"} /\ toClose = "PST"

\* A number is issued once: the directory of an event that was destroyed, or
\* whose create was refused halfway, never comes back under the same number,
\* which dangling entries of users' directories still name.
EidNeverReborn ==
    [][\A e \in 1..lastEvent : e \notin DOMAIN event => e \notin DOMAIN event']_vars

\* An event whose create has ended (with OK, ERR or a lost connection) is never
\* destroyed and its description never changes, whatever other creates do.
EndedCreateIsFinal ==
    [][\A e \in DOMAIN event :
          ~Pending(e) =>
              /\ e \in DOMAIN event'
              /\ event'[e].description = event[e].description]_vars

\* The store's events as EventLifecycle sees them: an event is pending while a
\* create under way owns it, open unless its creator closed it.
Phases == [e \in EIDs |-> IF e > lastEvent            THEN "unused"
                          ELSE IF ~does_event_exist(e) THEN "removed"
                          ELSE IF Pending(e)           THEN "pending"
                          ELSE "settled"]
Opens == [e \in EIDs |-> does_event_exist(e) /\ ~event[e].closed]
Frees == [e \in EIDs |-> IF does_event_exist(e) THEN Remaining(e) ELSE 0]
PastEvents == {e \in DOMAIN event : is_event_past(event[e].date)}

Lifecycle == INSTANCE EventLifecycle WITH
    phase <- Phases, open <- Opens, free <- Frees, past <- PastEvents

\* Every step of the server's handlers is a step of an event's life or changes
\* nothing in it: EventStore implements EventLifecycle.
ImplementsLifecycle == Lifecycle!Spec

-----------------------------------------------------------------------------
(***************************************************************************)
(* What the documents say and the code does not do.                        *)
(***************************************************************************)

\* Description.pdf 3.1 h): myevents prints state 0 "if the event was in the
\* past"; so every event it prints state 0 for has a date and it has passed.
MyEventsTruthful ==
    \A u \in UIDs : \A entry \in myevents(u) :
        entry.state = 0 =>
            does_event_exist(entry.eid) /\ is_event_past(event[entry.eid].date)

\* Description.pdf 3.2 b): a create the server does not answer with OK and an
\* EID is a create that did not take place; so an event is either whole or its
\* create is still under way.
EventsAreWhole ==
    \A e \in DOMAIN event :
        Showable(e) \/ Pending(e)

=============================================================================
