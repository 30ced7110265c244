----------------------------- MODULE CrashStore -----------------------------
(***************************************************************************)
(* The server's directory tree, one elementary file operation at a time.   *)
(* A request handler decides what to write from the tree it finds, with    *)
(* EventStore's ladders of checks, and then truncates, fills, creates and  *)
(* removes files one after another.  The process may end between any two   *)
(* of them: what is left to write is lost, with the creates under way, and *)
(* the next start of the server repairs nothing.  Opening a file for       *)
(* writing truncates it; its content reaches the file when it is closed,   *)
(* so a crash in between leaves an empty file.                             *)
(***************************************************************************)
EXTENDS Integers, Sequences, FiniteSets, FiniteSetsExt, Wire, Ledger

CONSTANTS
    UIDs, Passwords, Connections, Attendances, FileSizes, Seats,
    MaxEvents, MaxTime, MaxRead, MaxRecords,
    Empty,          \* the content of a truncated file, a marker or a directory
    Gone,           \* "content" that stands for removing the path
    NoUser,         \* the creator read from a missing or empty details file
    MaxCrashes      \* bound: how often the process ends abruptly

ASSUME CrashAssumption == MaxCrashes \in Nat /\ NoUser \notin UIDs

ASSUME LimitAssumption ==
    /\ MaxEvents \in 1..999
    /\ MaxTime \in Nat
    /\ MaxRead \in Nat
    /\ MaxRecords \in Nat

ASSUME RequestAssumption ==
    /\ Attendances \subseteq parse_attendance
    /\ FileSizes \subseteq parse_filesize
    /\ Seats \subseteq parse_reserve_number

EIDs  == 1..MaxEvents
Times == 0..MaxTime
Details == [creator : UIDs, date : Times, attendance : Attendances, filesize : FileSizes]

\* The markers are nothing a file can hold.
ASSUME MarkerAssumption ==
    /\ Empty # Gone
    /\ \A marker \in {Empty, Gone} :
          /\ marker \notin Passwords /\ marker \notin Int
          /\ marker \notin Details /\ marker \notin Seq(Nat)

VARIABLES
    files,          \* the tree: path |-> content
    todo,           \* the file operations the running handler has left
    up,             \* the server is running
    hurt,           \* ghost: events an interrupted handler was still to write of,
                    \* and 0 if it was to write anything else
    torn,           \* ghost: events whose total-res it left empty, or half removed
    crashes         \* how often the process has ended abruptly

\* EventStore's variables: the CreStates in memory, the clock, and what the
\* server's readers make of the tree once the running handler has ended.
VARIABLES passwd, loggedIn, userEvents, userRes, lastEvent, event, uploads, now

view == <<passwd, loggedIn, userEvents, userRes, lastEvent, event>>
vars == <<files, todo, up, hurt, torn, crashes, view, uploads, now>>

Store == INSTANCE EventStore

(***************************************************************************)
(* Paths.  The second component of every path about an event is its number. *)
(***************************************************************************)
password_path(u)          == <<"passwd", u>>
logged_in_path(u)         == <<"logged_in", u>>
user_event_path(u, e)     == <<"user_event", e, u>>
user_res_path(u, t, e)    == <<"user_res", e, t, u>>
event_count_path          == <<"count", 0>>
event_dir(e)              == <<"dir", e>>
event_reservations_dir(e) == <<"reservations", e>>
event_total_res_path(e)   == <<"total_res", e>>
event_details_path(e)     == <<"details", e>>
event_end_path(e)         == <<"end", e>>
event_description_path(e) == <<"description", e>>
event_res_path(e, t, u)   == <<"event_res", e, t, u>>

Paths ==
    {event_count_path}
    \cup {password_path(u) : u \in UIDs} \cup {logged_in_path(u) : u \in UIDs}
    \cup {user_event_path(u, e) : u \in UIDs, e \in EIDs}
    \cup {user_res_path(u, t, e) : u \in UIDs, t \in Times, e \in EIDs}
    \cup {event_res_path(e, t, u) : e \in EIDs, t \in Times, u \in UIDs}
    \cup UNION {{event_dir(e), event_reservations_dir(e), event_total_res_path(e),
                 event_details_path(e), event_end_path(e), event_description_path(e)} : e \in EIDs}

\* Below EVENTS/e, and about event e anywhere in the tree.
InEventDir(x, e) ==
    /\ x[1] \in {"dir", "reservations", "total_res", "details", "end", "description", "event_res"}
    /\ x[2] = e
About(x, e) == InEventDir(x, e) \/ (x[1] \in {"user_event", "user_res"} /\ x[2] = e)
Subject(x) == IF \E e \in EIDs : About(x, e) THEN x[2] ELSE 0

put(x, content) == [path |-> x, content |-> content]
remove(x) == put(x, Gone)

Content(f, x, default) == IF x \in DOMAIN f THEN f[x] ELSE default

\* An operation concerns the path it writes or removes, and removing an event's
\* directory is remove_all: it concerns every path below.
Concerns(op, x) ==
    \/ op.path = x
    \/ op = remove(op.path) /\ op.path[1] = "dir" /\ InEventDir(x, op.path[2])

\* The tree after one operation.
Apply(f, op) ==
    [x \in {y \in DOMAIN f : ~Concerns(op, y)} \cup (IF op.content = Gone THEN {} ELSE {op.path})
        |-> IF x = op.path THEN op.content ELSE f[x]]

\* The tree after the first k operations: a path holds what the last of them
\* that concerns it left there.
Tree(f, operations, k) ==
    LET concerning(x) == {i \in 1..k : Concerns(operations[i], x)}
        left(x) == operations[Max(concerning(x))].content
    IN  [x \in {y \in DOMAIN f \cup {operations[i].path : i \in 1..k} :
                    IF concerning(y) = {} THEN y \in DOMAIN f ELSE left(y) # Gone}
            |-> IF concerning(x) = {} THEN f[x] ELSE left(x)]

\* The tree after all operations of a handler.
ApplyAll(f, operations) == Tree(f, operations, Len(operations))

-----------------------------------------------------------------------------
(***************************************************************************)
(* What the server's readers make of a tree, as the state of EventStore.   *)
(* A missing or empty details file gives no creator, -1 seats and a date   *)
(* that has passed; an empty total-res gives -1.  No event can be created  *)
(* on an empty counter, as on an exhausted one.                            *)
(***************************************************************************)
Accounts(f) == [u \in {v \in UIDs : password_path(v) \in DOMAIN f} |-> f[password_path(u)]]
LoggedIn(f) == {u \in UIDs : logged_in_path(u) \in DOMAIN f}
UserEvents(f) == [u \in UIDs |-> {e \in EIDs : user_event_path(u, e) \in DOMAIN f}]
UserRes(f) == [u \in UIDs |-> [k \in Times \X EIDs |-> Content(f, user_res_path(u, k[1], k[2]), << >>)]]
LastEvent(f) ==
    LET count == Content(f, event_count_path, 0) IN IF count = Empty THEN MaxEvents ELSE count

Whole(f, x) == x \in DOMAIN f /\ f[x] # Empty

EventRecord(f, e) ==
    LET d == IF Whole(f, event_details_path(e)) THEN f[event_details_path(e)]
             ELSE [creator |-> NoUser, date |-> 0, attendance |-> -1, filesize |-> -1]
    IN  [creator |-> d.creator, date |-> d.date, attendance |-> d.attendance,
         filesize |-> d.filesize,
         description |-> Content(f, event_description_path(e), 0),
         sold |-> IF Whole(f, event_total_res_path(e)) THEN f[event_total_res_path(e)] ELSE -1,
         closed |-> event_end_path(e) \in DOMAIN f,
         reservations |-> [k \in Times \X UIDs |-> Content(f, event_res_path(e, k[1], k[2]), << >>)]]

Events(f) == [e \in {n \in EIDs : event_dir(n) \in DOMAIN f} |-> EventRecord(f, e)]

Sees(f) ==
    /\ passwd = Accounts(f) /\ loggedIn = LoggedIn(f)
    /\ userEvents = UserEvents(f) /\ userRes = UserRes(f)
    /\ lastEvent = LastEvent(f) /\ event = Events(f)

SeesNext(f) ==
    /\ passwd' = Accounts(f) /\ loggedIn' = LoggedIn(f)
    /\ userEvents' = UserEvents(f) /\ userRes' = UserRes(f)
    /\ lastEvent' = LastEvent(f) /\ event' = Events(f)

-----------------------------------------------------------------------------
Init ==
    /\ files = << >>
    /\ todo = << >>
    /\ Sees(files)
    /\ uploads = << >>
    /\ up = FALSE
    /\ now = 0
    /\ hurt = {}
    /\ torn = {}
    /\ crashes = 0

Idle == up /\ todo = << >>

\* A handler has decided what to write.
Begin(operations) ==
    /\ todo' = operations
    /\ SeesNext(ApplyAll(files, operations))
    /\ UNCHANGED <<files, up, now, hurt, torn, crashes>>

\* One file operation.  remove_all empties the directory in no fixed order and
\* removes a directory after what it holds.
Write ==
    /\ todo # << >>
    /\ LET op == Head(todo)
           held == {x \in DOMAIN files : InEventDir(x, op.path[2]) /\ x # op.path}
           next == {x \in held : x[1] = "reservations" => \A y \in held : y[1] # "event_res"}
       IN  IF op = remove(op.path) /\ op.path[1] = "dir" /\ held # {}
           THEN \E x \in next : files' = Apply(files, remove(x)) /\ UNCHANGED todo
           ELSE files' = Apply(files, op) /\ todo' = Tail(todo)
    /\ UNCHANGED <<up, hurt, torn, crashes, view, uploads, now>>

-----------------------------------------------------------------------------
(***************************************************************************)
(* The handlers, with their file operations in the order of the code.      *)
(***************************************************************************)
\* Fault: logged_in is written before the password.
FaultLoginFirst(u, p) == <<put(logged_in_path(u), Empty), put(password_path(u), Empty), put(password_path(u), p)>>

create_user(u, p) == <<put(password_path(u), Empty), put(password_path(u), p), put(logged_in_path(u), Empty)>>

Login(u, p) ==
    /\ \/ ~Store!does_user_exist(u) /\ Begin(create_user(u, p))
       \/ Store!check_password(u, p) /\ Begin(<<put(logged_in_path(u), Empty)>>)
    /\ UNCHANGED uploads

Logout(u, p) ==
    /\ Store!logout_user(u, p) = "OK"
    /\ Begin(<<remove(logged_in_path(u))>>)
    /\ UNCHANGED uploads

\* Fault: the password goes before the login.
FaultPasswordFirst(u) == <<remove(password_path(u)), remove(logged_in_path(u))>>

unregister(u) == <<remove(logged_in_path(u)), remove(password_path(u))>>

Unregister(u, p) ==
    /\ Store!logout_user(u, p) = "OK"
    /\ Begin(unregister(u))
    /\ UNCHANGED uploads

ChangePass(u, old, new) ==
    /\ Store!changePass(u, old) = "OK"
    /\ Begin(<<put(password_path(u), Empty), put(password_path(u), new)>>)
    /\ UNCHANGED uploads

\* Fault: the counter is written once the directory is there.
FaultCountLast(n) ==
    <<put(event_dir(n), Empty), put(event_reservations_dir(n), Empty),
      put(event_total_res_path(n), Empty), put(event_total_res_path(n), 0), put(event_details_path(n), Empty),
      put(event_count_path, Empty), put(event_count_path, n)>>

create_event_dirs(n) ==
    <<put(event_count_path, Empty), put(event_count_path, n),
      put(event_dir(n), Empty), put(event_reservations_dir(n), Empty),
      put(event_total_res_path(n), Empty), put(event_total_res_path(n), 0), put(event_details_path(n), Empty)>>

start_create_event(n, u, d, a, s) ==
    create_event_dirs(n) \o
    <<put(event_details_path(n), [creator |-> u, date |-> d, attendance |-> a, filesize |-> s]),
      put(user_event_path(u, n), Empty)>>

CreateHeader(c, u, p, d, a, s, k, newline) ==
    LET n == lastEvent + 1
        started == start_create_event(n, u, d, a, s)
        outcome == write_event(0, s, k, newline)
    IN  /\ c \notin DOMAIN uploads
        /\ Store!start_create_event(u, p) = "OK"
        /\ \/ /\ outcome = "more"
              /\ \E b \in 0..k : Begin(started \o <<put(event_description_path(n), b)>>)
              /\ uploads' = Store!Put(uploads, c, [eid |-> n, filesize |-> s, written |-> k])
           \/ /\ outcome = "done"
              /\ Begin(started \o <<put(event_description_path(n), 0), put(event_description_path(n), s)>>)
              /\ UNCHANGED uploads
           \/ /\ outcome = "destroyed"
              /\ Begin(started \o <<put(event_description_path(n), 0), remove(event_dir(n))>>)
              /\ UNCHANGED uploads

CreateCannotOpen(c, u, p, d, a, s) ==
    /\ c \notin DOMAIN uploads
    /\ Store!start_create_event(u, p) = "OK"
    /\ Begin(start_create_event(lastEvent + 1, u, d, a, s))
    /\ UNCHANGED uploads

\* stoi of an empty counter throws, nothing catches it, and the process ends.
CreateThrows(u, p) ==
    /\ Store!is_logged_in(u) /\ Store!check_password(u, p)
    /\ Content(files, event_count_path, 0) = Empty
    /\ up' = FALSE
    /\ uploads' = << >>
    /\ UNCHANGED <<files, todo, hurt, torn, crashes, view, now>>

UploadData(c, k, newline) ==
    /\ c \in DOMAIN uploads
    /\ LET u == uploads[c]
           r == write_event(u.written, u.filesize, k, newline)
       IN  \/ /\ r = "more"
              /\ \E b \in files[event_description_path(u.eid)] .. u.written + k :
                    Begin(<<put(event_description_path(u.eid), b)>>)
              /\ uploads' = [uploads EXCEPT ![c].written = @ + k]
           \/ /\ r = "done"
              /\ Begin(<<put(event_description_path(u.eid), u.filesize)>>)
              /\ uploads' = Store!Without(uploads, c)
           \/ /\ r = "destroyed"
              /\ Begin(<<remove(event_dir(u.eid))>>)
              /\ uploads' = Store!Without(uploads, c)

Disconnect(c) ==
    /\ c \in DOMAIN uploads
    /\ Begin(<<put(event_description_path(uploads[c].eid), uploads[c].written)>>)
    /\ uploads' = Store!Without(uploads, c)

Close(u, p, e) ==
    /\ Store!close_event(u, p, e) = "OK"
    /\ Begin(<<put(event_end_path(e), Empty)>>)
    /\ UNCHANGED uploads

\* Fault: the seats are counted as sold once both files are written.
FaultTotalLast(u, e, n) ==
    LET mine == user_res_path(u, now, e)
        its == event_res_path(e, now, u)
        sold == event[e].sold
    IN  <<put(mine, Append(Content(files, mine, << >>), n)),
          put(its, Append(Content(files, its, << >>), n)),
          put(event_total_res_path(e), Empty), put(event_total_res_path(e), sold + n)>>

\* Fault: the user's file is opened without ios_base::app.
FaultTruncates(u, e, n) ==
    LET mine == user_res_path(u, now, e)
        its == event_res_path(e, now, u)
        sold == event[e].sold
    IN  <<put(event_total_res_path(e), Empty), put(event_total_res_path(e), sold + n),
          put(mine, << >>), put(its, Append(Content(files, its, << >>), n)),
          put(mine, <<n>>)>>

\* Opened for appending, a file is created but not truncated; the event's copy
\* is closed first.  Without its directory it cannot be opened, unnoticed.
reserve(u, e, n) ==
    LET mine == user_res_path(u, now, e)
        its == event_res_path(e, now, u)
        old == Content(files, its, << >>)
        sold == event[e].sold
        copy == IF event_reservations_dir(e) \in DOMAIN files
                THEN <<put(its, old), put(its, Append(old, n))>> ELSE << >>
    IN  <<put(event_total_res_path(e), Empty), put(event_total_res_path(e), sold + n),
          put(mine, Content(files, mine, << >>))>>
        \o copy \o <<put(mine, Append(Content(files, mine, << >>), n))>>

Reserve(u, p, e, n) ==
    /\ Store!reserve(u, p, e, n) = "ACC"
    /\ Len(Content(files, user_res_path(u, now, e), << >>)) < MaxRecords
    /\ Begin(reserve(u, e, n))
    /\ UNCHANGED uploads

Tick ==
    /\ todo = << >>
    /\ now < MaxTime
    /\ now' = now + 1
    /\ UNCHANGED <<files, todo, up, hurt, torn, crashes, view, uploads>>

-----------------------------------------------------------------------------
\* In tree f and before op, event e's total-res is truncated and not filled, or
\* its directory is being removed.
HalfDone(f, e, op) ==
    \/ op = remove(event_dir(e))
    \/ op.path = event_total_res_path(e) /\ op.content # Empty /\ f[op.path] = Empty

\* The process ends; a handler it interrupts leaves its last operations undone.
Crash ==
    /\ up /\ crashes < MaxCrashes
    /\ crashes' = crashes + 1
    /\ hurt' = hurt \cup {Subject(todo[i].path) : i \in DOMAIN todo}
    /\ torn' = torn \cup {e \in EIDs : todo # << >> /\ HalfDone(files, e, Head(todo))}
    /\ up' = FALSE
    /\ todo' = << >>
    /\ SeesNext(files)
    /\ uploads' = << >>
    /\ UNCHANGED <<files, now>>

\* Fault: start-up takes an empty counter for a missing one.
FaultCounterReset(f) ==
    IF Whole(f, event_count_path) THEN << >> ELSE <<put(event_count_path, Empty), put(event_count_path, 0)>>

\* main() creates the counter if it does not exist, and looks at nothing else.
start_up(f) ==
    IF event_count_path \in DOMAIN f THEN << >> ELSE <<put(event_count_path, Empty), put(event_count_path, 0)>>

Start ==
    /\ ~up
    /\ up' = TRUE
    /\ todo' = start_up(files)
    /\ SeesNext(ApplyAll(files, todo'))
    /\ UNCHANGED <<files, hurt, torn, crashes, uploads, now>>

Handle ==
    /\ Idle
    /\ \/ \E u \in UIDs, p \in Passwords :
            \/ Login(u, p)
            \/ Logout(u, p)
            \/ Unregister(u, p)
            \/ \E new \in Passwords : ChangePass(u, p, new)
            \/ CreateThrows(u, p)
            \/ \E e \in EIDs :
                  \/ Close(u, p, e)
                  \/ \E n \in Seats : Reserve(u, p, e, n)
            \/ \E c \in Connections, d \in Times, a \in Attendances, s \in FileSizes :
                  \/ \E k \in 0..MaxRead, newline \in BOOLEAN :
                        CreateHeader(c, u, p, d, a, s, k, newline)
                  \/ CreateCannotOpen(c, u, p, d, a, s)
       \/ \E c \in Connections :
            \/ \E k \in 1..MaxRead, newline \in BOOLEAN : UploadData(c, k, newline)
            \/ Disconnect(c)

Next == Handle \/ Write \/ Crash \/ Start \/ Tick

Spec == Init /\ [][Next]_vars

-----------------------------------------------------------------------------
(***************************************************************************)
(* What survives.                                                          *)
(***************************************************************************)

\* What a file with this path may hold: what its readers parse, or nothing.
Holds(x, content) ==
    CASE x[1] = "passwd"                   -> content \in Passwords \cup {Empty}
      [] x[1] = "count"                    -> content \in 0..MaxEvents \cup {Empty}
      [] x[1] = "total_res"                -> content \in Int \cup {Empty}
      [] x[1] = "description"              -> content \in Nat
      [] x[1] = "details"                  -> content \in Details \cup {Empty}
      [] x[1] \in {"event_res", "user_res"} -> content \in Seq(Nat)
      [] OTHER                             -> content = Empty

\* The tree has the server's paths and no others, every file holds what its
\* readers parse, and so does every file a handler has still to write.
TypeOK ==
    /\ DOMAIN files \subseteq Paths
    /\ \A x \in DOMAIN files : Holds(x, files[x])
    /\ DOMAIN todo = 1..Len(todo)
    /\ \A i \in DOMAIN todo : LET op == todo[i] IN
          /\ op = put(op.path, op.content) /\ op.path \in Paths
          /\ op.content = Gone \/ Holds(op.path, op.content)
    /\ DOMAIN uploads \subseteq Connections
    /\ uploads \in [DOMAIN uploads -> Store!Upload]
    /\ up \in BOOLEAN /\ now \in Times /\ crashes \in 0..MaxCrashes
    /\ hurt \subseteq 0..MaxEvents /\ torn \subseteq EIDs

\* The process ends while a handler runs.
Interrupts == crashes' # crashes /\ todo # << >>

\* A removal cut short may have taken an event's directory of reservations and
\* left the event; then only the user's directory records a reservation of it.
BooksHalfRemoved ==
    \E e \in torn, u \in UIDs, t \in Times :
        /\ event_reservations_dir(e) \notin DOMAIN files
        /\ userRes'[u][<<t, e>>] # userRes[u][<<t, e>>]

\* On whatever tree earlier crashes have left, a handler with all its file
\* operations is one step of EventStore or none, and a process that ends while
\* no handler runs is EventStore's Restart.
ImplementsStore ==
    Store!Init /\ [][Interrupts \/ BooksHalfRemoved \/ Store!Next \/ UNCHANGED Store!vars]_vars

\* Wherever the process ends, a user with a logged_in file has a passwd file:
\* create_user writes it and unregister removes it in the order this needs.
LoginsSurvive == LoggedIn(files) \subseteq DOMAIN Accounts(files)

\* Unless total-res itself was left empty or the event half removed, an event is
\* never sold beyond its seats and its files hold no seat total-res does not
\* count, even when a reservation of it was cut short.
NeverOversold ==
    \A e \in DOMAIN event :
        event[e].creator # NoUser /\ e \notin torn =>
            /\ Cardinality(SeatsIn(event[e].reservations)) <= event[e].sold
            /\ event[e].sold <= event[e].attendance

\* EventStore over the events none of whose files an interrupted handler was
\* still to write.
Rest == INSTANCE EventStore WITH event <- [n \in DOMAIN event \ hurt |-> event[n]]

\* The damage an interrupted handler does stays in the event it was about: of
\* every other event, seats are conserved, both copies of every reservation
\* file agree and exactly the creator lists it, whatever is done afterwards.
DamageStaysLocal ==
    Rest!SeatsConserved /\ Rest!LedgersAgree /\ Rest!EventsListedOnce

\* A create's number is one no file has ever been made for, so that a create cut
\* short never lends its remains to a later event.
NumbersStayFresh ==
    [][todo = << >> /\ lastEvent' # lastEvent /\ lastEvent' \in EIDs =>
          \A x \in DOMAIN files : ~About(x, lastEvent')]_vars

\* The handler the crash interrupts was still to write of event e.
CutShort(e) == crashes' # crashes /\ \E i \in DOMAIN todo : About(todo[i].path, e)

Terms(record) ==
    <<record.creator, record.date, record.attendance, record.filesize, record.description>>

\* What the server has answered for stays: unless its own create is under way or
\* a handler that was still to write of it is cut short, no step, crash and
\* start included, takes an event away, changes what was created or loses a seat
\* on file; and a closed event stays closed and gets no reservation.
AnsweredStays ==
    [][\A e \in DOMAIN event :
          ~Store!Pending(e) /\ ~CutShort(e) =>
              /\ e \in DOMAIN event'
              /\ Terms(event'[e]) = Terms(event[e])
              /\ SeatsIn(event[e].reservations) \subseteq SeatsIn(event'[e].reservations)
              /\ event[e].closed =>
                    event'[e].closed /\ event'[e].reservations = event[e].reservations]_vars

=============================================================================
