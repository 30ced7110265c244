# Event reservation system: TLA+ models, checks and proofs

The repository is a client and a server in C++ (`src/Project`). The server (ES)
keeps users, events and reservations as files and directories; the client is a
command line. Accounts and listings of a user go over UDP, events and
reservations over TCP, one connection per request. This directory holds models
of both written from their source, the TLC runs that check them, and TLAPS
proofs about them.

## 1. The system

| Part | Source (`src/Project/`) | State | Operations |
| --- | --- | --- | --- |
| store | `server/utils.cpp` | `USERS/uid/{passwd,logged_in,events/,reservations/}`, `EVENTS/{last event,eid/{details,total-res,end,description/,reservations/}}` | exist/past/closed/sold tests, `create_event_dirs`, `destroy_event`, `set_event_sold` |
| UDP handlers | `server/server_udp.cpp` | none of their own | LIN, LOU, UNR; LME and LMR read |
| TCP handlers | `server/server_tcp.cpp` | none of their own | CRE, CLS, RID, CPS; LST and SED read |
| upload of a create | `server/server_tcp.cpp`, `CreState.hpp` | `CreState` per connection: event, announced size, bytes written, open file | `try_to_parse_create`, `start_create_event`, `write_event` |
| select loop | `server/main.cpp` | `inputs`, `testfds`, `tcp_buffers`, `states`, `connection_start`, `tcp_clients`, `active_clients` | select, accept, clean-up of timed-out sessions, refusal, reads, disconnect |
| description transfer | `server/server_tcp.cpp` (`show`), `common/io.cpp`, `client/main.cpp` (`show`) | a forked child per transfer; the client's copy of the file | stream the header and the file; take it in chunks |
| partial reads/writes | `common/io.cpp`, `common/tcp.cpp` | loop counters | `safe_read`, `safe_write`, `read_tcp`, `write_tcp` |
| field parsers | `common/io.cpp` | none | `parse_*`, `is_event_past` |
| client | `client/main.cpp`, `client/udp.cpp`, `common/tcp.cpp` | `ClientState`: logged-in user and password, UDP socket, one TCP socket at a time | one function per command |
| start-up | `server/main.cpp` (`main`, `server_select`) | none | directories, counter, sockets |

How they interact: the select loop is the only thread of the server. It calls a
handler with a complete request and the handler runs to its end, so handlers
exclude each other. These things break that simple picture:

* a create is many reads of one connection, with other requests in between; its
  event is on disk, listed and bookable from the first of them;
* an iteration of the loop works with a set of ready descriptors computed at its
  start, while it closes, accepts and opens descriptors;
* `show` forks a child that goes on sending while the parent serves others, and
  that holds a copy of every connection open at the fork;
* the process may end between any two file operations, by a signal or by one of
  its own uncaught exceptions, and is started again on what is left;
* UDP loses, delays, reorders and duplicates, and neither side numbers its datagrams;
* a TCP stream may be cut into reads anywhere.

What is hard to test is listed, line by line, under `hazards` in `PROJECT.json`.

What makes each part correct:

* store and handlers: no seat is sold twice or lost, both copies of a reservation
  agree, numbers are unique for ever, what the server prints about an event agrees
  with what it allows, only registered users are logged in;
* after a crash: the damage is confined to the event that was being written, no
  event is oversold, no login is left without an account;
* uploads: creates under way do not touch each other's events nor finished ones,
  and how the stream is cut makes no difference;
* select loop: bookkeeping per descriptor names live connections only, the count
  exceeds them never and falls short of them only for reasons that can be named, requests
  are read and connections accepted;
* client: while its commands are answered, its session is the server's;
* transfers: what the viewer stores is exactly what the server had.

## 2. The modules

| Module | Models | Builds on |
| --- | --- | --- |
| `Wire` | numeric ranges of the parsers; `write_event`'s verdict on a read | |
| `Ledger` | reservation files, and the seats they record | |
| `EventStore` | the store and every handler, one action each | `Wire`, `Ledger`, `EventLifecycle` (refined) |
| `EventLifecycle` | what the store promises about events | |
| `Listings` | the reply to LMR | `EventStore` |
| `CrashStore` | the handlers as sequences of file operations, with crashes | `Wire`, `Ledger`, `EventStore` (refined) |
| `SelectLoop` | the loop over TCP connections | |
| `Transfers` | one upload, one show and one list in bytes | `Wire` |
| `ClientSession` | client commands over an unreliable network | `EventStore` (its handlers) |
| `MC...` | the modules TLC is started on, with symmetry sets | |
| `...Proofs` | theorems about the module they are named after | |

`EventStore`. `passwd`, `loggedIn`, `userEvents` and `userRes` are the files under
`USERS`; `lastEvent` is the counter file; `event` maps the event directories that
exist to a record with their details, `sold` (total-res), `closed` (the `end`
file), `description` (bytes of it on disk) and the reservation files; `uploads`
is the loop's map of `CreState`s for creates past their header; `now` is the
clock, in seconds. The ladders of checks are operators with the source's names
(`logout_user`, `changePass`, `start_create_event`, `close_event`, `reserve`) that
return the reply of the code; an action takes place when its ladder says OK, and a
refused request changes nothing. Actions: `Login` (registering included),
`Logout`, `Unregister`, `ChangePass`, `CreateHeader` (the header and whatever part
of the description came with it), `CreateCannotOpen`, `UploadData` (one read:
`StoreMore`, `FinishUpload` or `DestroyUpload`, as `write_event` decides),
`Disconnect`, `Restart` (the process ends between two requests and forgets its
`CreState`s), `Close`, `Reserve`, `Tick`. An unfinished `ofstream` may have flushed
any prefix, so the bytes on disk are chosen between what was there and what has
been written. The clock may stand still between requests, so several reservations
in one second happen. Times of events and of reservations share one scale.

`EventLifecycle` — numbers are issued in order; an event is pending and then
settled or removed; seats are only taken; a closed or past event changes no more.
`Settle` takes a set, for a restart settles all pending events at once. A
pending event may be booked and then removed, which the code allows. `EventStore`
instantiates it as `Lifecycle`, with the refinement mapping `Phases`, `Opens`,
`Frees` and `PastEvents`; `ImplementsLifecycle` is its specification.

`Listings` — `Entries(u)` has one entry for each number of each of a user's reservation
files, and `Precedes` is the order in which the code meets them: later names first, the
numbers of one file in turn. Both loops end once `MAX_LISTED` numbers are in the reply, so
`myreservations(u)` is the entries that fewer than `MAX_LISTED` others precede.

`CrashStore` — `files` maps the paths of the tree to contents, a handler is a
sequence of operations (`todo`: create, truncate, fill, remove) in the order of the
code, and `Write` executes one. Opening a file for writing empties it, and its
content arrives when it is closed, so the two are separate operations. `fs::remove_all`
removes what a directory holds in any order before the directory. `Apply` is the tree
after one operation; `Tree(f, operations, k)` is the tree after the first `k` of them,
said path by path: a path holds what the last operation that `Concerns` it left there.
`ApplyAll` is the tree after all of them. `Crash` may come
anywhere and drops `todo` and the `CreState`s; `Start` does what `main` does on an
existing tree, which is to create a missing counter. `passwd` ... `event` are
EventStore's variables: what the server's readers make of the tree once the running
handler has ended, with missing and empty files read as the code reads them (no
creator, -1 seats, a past date). The handlers' guards are EventStore's ladders over
that view, and `ImplementsStore` shows that a handler with all its operations is one
step of `EventStore`, also on a tree that earlier crashes have damaged. It excepts two
kinds of step, and the property needs both exceptions. `Interrupts` is the crash that cuts
a handler short, after which part of a request has happened. `BooksHalfRemoved` is a
reservation of an event whose removal was cut short after its directory of reservations
went and before the event did: the code does not look whether the event's copy can be
opened, so the seats are counted and only the user's copy is written
(`server_tcp.cpp:330-337`). `AnsweredStays` says, with no step excepted, what survives of
the requests that were answered. The ghosts `hurt` and `torn` say which events an
interrupted handler was about; `Rest` is `EventStore` over the others. `CreateThrows` is
the uncaught exception of `stoi` on an empty counter.

`SelectLoop` — the loop's maps under their names (`tcp_clients`, the peers'
addresses, serves the logs and is left out), `phase` for where in an iteration it is,
`sock` and `files` for what each open descriptor is, `backlog` for connections the
kernel holds, `sent` and `gone` for the clients' side. The lowest free descriptor is
taken by `accept` and by the description file of a create, as POSIX has it; that is
what makes descriptor reuse visible. A read is told apart by what it does to the
connection only: part of a request, a request, a list, a header that opens a file, a
part or the end of an upload, end of stream, error, a request that outgrows the buffer.
A request's handler returns, for its reply fits in the connection's buffer or a child
writes it. A list need not fit: `ReadList` leaves the loop in phase `"write"`, inside
`safe_write`, which tries again on EAGAIN, until the client has taken the rest
(`ReplyTaken`) or has gone (`ReplyFails`). When a request outgrows the buffer the code goes on to look for a line in a string it has destroyed (undefined
behaviour); the model lets it find one or not.

`Transfers` — streams are byte counts. The create's stream is `Prefix` bytes, the
`Digits` of the size, a space, the file and a newline; `sent` of them have been
written, `got` have been read, and `ServerReads` takes any next piece up to `MaxRead`.
What `try_to_parse_create` does with it is one of: nothing yet, the refusal of a field or
of `start_create_event` (`Refuse`, chosen without looking at why), the exception of
`substr` (`ServerTerminates`), a description file that cannot be opened (`CannotOpen`),
and `write_event` on the rest (`StoreBytes`). `SessionAges` lets the create outlive
`SESSION_TIMEOUT` at any point, and `ServerAccepts` of another client then closes it, as
the clean-up before an accept does; the other two connections cannot be the ones that
have aged, because their clients send at once what they have to send. The file may have another size (`body`) when it is sent than was
announced. The viewer's request makes the server fork a child that opens the file
later than the parent tested it (`ChildOpens`), sends in pieces, and may hold the
create's connection (`holds`). The viewer's loop (`ViewerReads`) takes chunks of
`Chunk` bytes, the first with the header in it. The lister's reply is written by the
server itself, which retries when there is no room (`server = "listing"`) and returns
when the lister has gone; a lister need do neither. Timeouts of
two seconds (`CreatorTimesOut`, `ViewerTimesOut`) need that nothing more can be read.

`ClientSession` — `session` is `ClientState`; `waiting` the request a client is
blocked on; `requests`, `replies` and `inbox` are the network and the client's socket
queue. A UDP command takes the oldest datagram in its queue whatever it answers;
`After` is what the client makes of it. The server's side is EventStore's handlers
(`Store`), with no events. Requests carry an `id` in the model only, to say which reply
answers which. `Duplicate` puts a second copy of a datagram, request or reply, on its way;
copies are told apart by `copy` in the model only, and TCP has none. `doubt` collects the
clients one of whose commands was never answered, one of whose datagrams was duplicated or
that were stopped while logged in; `used` the users each client has named.

Operators named `Fault...` are not part of the models: each is a variant of the
definition that follows it with a plausible bug, which shows that a property notices
that bug.

## 3. The runs

| Run | Shows | States |
| --- | --- | --- |
| `bookings` | one event of ten seats, two users with two passwords who leave and come back, three seconds, requests for 0, 5 or 10 seats: seats are conserved, the two copies of each reservation file agree, logins have accounts, closed and sold out exclude each other, the three ladders agree, listings add up to what is sold and lose the oldest first, and the event's abstract life is followed through partial bookings | 212k |
| `uploads` | two connections, two numbers, descriptions of two bytes in reads of up to four: every cut, both sides of the boundary, failures, disconnections and restarts; numbers, creators' lists and uploads stay apart, and both events follow their abstract lives | 84k |
| `crash` | one user, two numbers, one crash between any two file operations or between requests, any requests before and after: uninterrupted handlers are steps of `EventStore` on any tree a crash leaves, logins keep accounts, nothing is oversold, damage stays local, numbers stay fresh, and what was answered for stays | 1.2M |
| `loop_served` | two clients within capacity, each with a create of its own, no timeouts, under fairness: requests are read, connections accepted, unless a client leaves a list untaken for ever | 8k |
| `loop_timeouts` | three clients at a capacity of two, timeouts and oversized requests, four descriptors (so that none may be left for a connection or a file): no map outlives its connection, the count errs on one side and for two reasons only, and while it is exact every create has an open file of its own | 1.2M |
| `transfers` | one create, one show and one list at a time, cut in every way, with refusals and session timeouts: stored and saved files are the announced ones; which create a child may hold; who waits, and for how long | 408k |
| `session` | two clients, two users with two passwords, three commands, one duplicated datagram: answered clients get their own replies and agree with the server | 1.0M (up to symmetry) |

Runs that TLC must find violated, each a place where the code does not do what
its documents or comments say:

| Run | What happens |
| --- | --- |
| `myevents_dangling` | a failed upload removes the event but not its creator's entry; `myevents` prints it as past (`server_tcp.cpp:193`) |
| `half_created` | a create that cannot open its file, or loses its connection, leaves a bookable event (`server_tcp.cpp:176`, `main.cpp:182`) |
| `loop_descriptor` | a description file that reuses a timed-out connection's number is written "ERR" to and closed (`main.cpp:164-170`) |
| `loop_starved` | refusals at capacity skip the reads (`main.cpp:136`) |
| `header_cut` | a read that ends inside the size of a create's header, or right after it, makes `substr` throw; nothing catches it and the server ends (`server_tcp.cpp:137`), although partial reads are to be handled (`src/README.md:119`) |

Smaller divergences seen in the code and not given a run: a reservation of 0 seats is
accepted, recorded and listed (`io.cpp:151`), where `src/Description.pdf` has "between 1 and
999" (3.2 i), 3.1 j)); the models let it through too, so what is checked and proved of the
store holds with such reservations; a timed-out
connection that has data is counted out twice, so `active_clients` is not the number of
"currently active clients" its comment promises (`main.cpp:57`, `:125`, `:171`;
`NeverOvercounts` shows that it errs on one side only, `CountSlipsOnlyWhenStale` where);
requests are logged under the
last accepted peer (`main.cpp:213`); the client parses an event number in a reply to
create before it looks at the status, so a refusal, which has none, is always reported
as an error (`client/main.cpp:191`); after a crash that leaves the counter empty every
create ends the server (`utils.cpp:108`, `CreateThrows`); a viewer whose event is
destroyed between the server's test and the child's open reads an ended stream for ever
(`client/main.cpp:359`, the exception stated in `ShowEnds`).

Bounds. `MaxTime` gives events that are past at creation, that become past and that stay
ahead. `Seats = {0, 5, 10}` with ten seats reaches no seats, half, exactly all, and more
than are left. `MaxRecords` limits the numbers in one reservation file to two in
`bookings`, which is the case append exists for. `MAX_LISTED = 3` is the server's 50
made small enough to be reached by the numbers of three seconds. `MaxEvents` is the
server's 999 made small, so that the limit itself is reached. `MaxRead` lets a read
bring the whole description, its newline and one byte too many. `MaxCrashes = 1` is one
interrupted handler with everything that may follow; a second crash would only add to
`hurt`. In `SelectLoop`, `MaxFd` counts descriptors beyond standard input and the two
sockets; `Timeouts` and `Oversize` turn two causes of miscounting on and off; `MaxDrift`
stops them once the count is off by one, after which nothing new can be seen. In
`Transfers`, with a chunk of 3 and a header of 1, the sizes 2 and 3 are a file whose
newline begins the second chunk and one whose last byte does; `body` and `announced` are
chosen apart, so a file may be longer and shorter than announced. `Window` is less than
the list and the longest reply to show, so both writers meet full buffers. In
`ClientSession`, `MaxCommands = 3` is a command that times out, one that takes its late
reply, and one more client's; `MaxCopies` is how many datagrams are duplicated. Clients, users, passwords and
connections are never compared or ordered, which makes symmetry sound; the runs with
liveness use none. A client of `SelectLoop` may connect again after its connection has
ended, so a few clients make any sequence of connections.

Deadlock is checked except in these runs, where the system really may stop:
`loop_timeouts` and `loop_descriptor` (when a watched descriptor has been closed under
it, `select` fails and `select_loop` returns), `crash` (a torn password file locks its
user out, and with time and crashes used up no request is left), `transfers` and
`header_cut` (each client asks once).

Fairness. `SelectLoop`: weak fairness of `ServerStep`, that is, a process with
something to do is scheduled. Descriptors are read in ascending order in one pass, so no
fairness among them is assumed. A loop inside `safe_write` can move only when the write
fails; that a client takes the rest of its list is `ReplyTaken`, for which there is no
fairness, and both properties make an exception for the run in which it never happens. Clients and the
clock promise nothing. `loop_starved`
violates the same property under the same fairness at capacity one: the missing
ingredient of `loop_served` is spare capacity. `ConnectionsAreAccepted` is checked where
a descriptor is always left; without one `accept` fails and the connection waits for
somebody to leave. `Transfers`: weak fairness of the server's reads of the create and of
its writing of a list, since one iteration of the loop handles every descriptor `select`
reports, and of the steps of the creating and the viewing client and of the child, which
are in a blocking call that ends with data or with the socket's timeout, or in a write
that is tried again. Nothing is assumed of the lister, who may stay without reading for
ever (`CreateIsServed` excepts exactly that run), of anybody's asking or quitting, nor of
the server's accepts, shows and lists, which no property waits for. `ClientSession`
has safety properties only.

## 4. The proofs

Every theorem is about the module's `Spec` for all values of its constants under the
module's assumptions: `LimitAssumption` and `RequestAssumption` (the limits are numbers,
requests are what the parsers let through), `CrashAssumption` and `MarkerAssumption` (the
bound on crashes is a number, the reader's "no creator" is not a user, and the two
values that stand for an empty file and for no file are not contents), `LoopAssumption`, `TransfersAssumption`
(sizes are positive, and the first chunk of a reply is longer than its header) and
`SessionAssumption`.

`LedgerProofs` has the lemmas about appending to a reservation file that both stores
need, `SeatsInRecorded` (below) above all.

`EventStoreProofs`

* `TypeCorrect`: `TypeOK` is inductive as it stands; one lemma per group of actions.
* `SeatsAreConserved`: the sum of the numbers in the reservation files is the
  cardinality of a set with one element per seat (`SeatsIn`), so the induction is over
  sets with the library's finite-set theorems and needs no recursive sum. The inductive
  invariant `AllCounted` adds that the set is finite. The key lemma is
  `SeatsInRecorded`: appending a number adds that many elements and disturbs none.
* `UploadsOwnTheirEvents`: the inductive invariant `Ownership` adds that every directory
  has an issued number; without it a new create might be given the number of an event in
  the making. `MoreFits` is what `write_event`'s boundary tests are for.
* `EidsAreNeverReborn`: an action property, from `StepIssues`, which says what any
  step does to the counter and the set of directories.
* `LoginsAreRegistered`: inductive as it stands.
* `BothLedgersAgree`: the inductive invariant adds `NothingAhead`, nobody holds a
  reservation for a number still to be issued, and uses `Ownership`: the user's copies
  outlive a destroyed event, so a new event may only get a number no copy names.
* `ClosedHaveSeats`: inductive together with `SeatsConserved`, since `close_event` tests
  for no seats left and not for fewer.
* `LaddersAlwaysAgree`: follows in every state from `LoggedInRegistered`,
  `SeatsConserved` and `NeverClosedAndSoldOut`, by cases on past and sold out.
* `EventsAlwaysListedOnce`: exactly the creator lists an event, from `Ownership`.
* `EndedCreatesAreFinal`: an event no upload owns is never removed nor rewritten, because
  uploads own distinct live events.
* `LifecycleIsImplemented`: the refinement. Initial states map to initial states, and
  each action of `EventStore`, for the number it is about, maps to one of
  `EventLifecycle` or to a stutter: account requests and reads in the middle of an upload
  to a stutter, a header to `Issue`, the end of an upload to `Settle` or `Remove`,
  `Restart` to `Settle` of all pending events, `Tick` to `TimePasses`.

`ListingsProofs`

* `ListingsAlwaysTell`: `ListingsTell` in every state, from `TypeOK`, `SeatsConserved` and
  `LedgersAgree`. A user's entries are finitely many and `Precedes` puts them in a line, so
  the number of entries that precede an entry is its position: no two entries share one
  (`PositionsApart`) and none from 0 on is left out (`PositionsTaken`, an injection between
  finite sets of one size). A listing that lacks an entry therefore has exactly
  `MAX_LISTED`, all of which precede it (`FullListing`), which is `NewestKept`. One that is
  not full has every entry; by `LedgersAgree` the seats the users are then told of are the
  very elements of the event's `SeatsIn` (`SeatsToldAreRecorded`), whose number
  `SeatsConserved` gives. No sum over a sequence is needed.

`SelectLoopProofs`

* `LoopTypeCorrect`, `MapsAlwaysFollowInputs`, `CountNeverRunsAhead`: the invariant
  `Mapped` adds `SocketsAreWatched`: every open connection is watched, but for the one
  just accepted. A request read enters the maps under its descriptor, so this is what
  keeps the maps within the watched connections; it survives reuse because an accepted
  connection takes a descriptor that is free.
* `CountSlipsOnlyThere`: an action property from `Mapped`. Every disconnect of a watched
  descriptor takes one from the count and one from the set, and the clean-up closes
  watched descriptors only because `connection_start` has the same domain as `inputs`;
  what is left is a read that fails on a descriptor no longer watched, and the oversize
  branch.
* `ExactCountVouches`: with timeouts and oversized requests. The invariant `Vouched` adds to
  `Mapped` that while no connection has been lost from the count, no descriptor is both a
  connection and a file and the connection just accepted is open (`Books`). A descriptor
  the clean-up has closed may become a file in the same iteration, and reading it then
  closes the file; but that step loses a connection from the count for good, since the
  count never comes nearer again (`StepDrifts`).

`TransfersProofs`, from the invariant `Stands`

* `CountersStayInBounds`, `UploadsSurviveAnyCut`: `CreateStands` says that what an open
  create has stored is at most what it has read after its header. `SumOfReads` is the
  heart: however the stream was cut, `write_event` judges the number of bytes of the file
  that have come, so its verdict depends on the total only.
* `SavedCopiesAreExact`: `ShowStands` gives the viewer's copy as a function of the bytes
  it has taken, for every length, header and chunk, and says that once a child exists the
  whole file is on disk.
* `HeldCreatesAreComplete`: a child is forked only when the file on disk has its announced
  size, and what is on disk is at most what has been read after the header, so a create
  whose connection it inherits lacks its last newline only. It stays true of a connection
  closed later, because nothing read is ever unread (`CutStands`, `AcceptStands`).

`ClientSessionProofs`, from the invariant `InOrder`

* `SessionsKeepTheirShape`: holds of clients in doubt too, so with every duplicate. `Sane` says that a request or
  reply with the number a client waits for is its own, and that a client still has the
  session it asked in, so that no late reply makes half a session.
* `ClientsAndServerAgree`, `NoReplyIsLateByOne`: `InStep` lists where the one message of
  an answered client can be: nowhere, on its way to the server, on its way back, in the
  socket's queue, or lost. The server agrees with the session the client has, or will have
  once it takes the reply on its way. `InStepStays` shows that other clients do not
  disturb this, because they only name other users.

`CrashStoreProofs`. A crash leaves the tree after some of a handler's operations, so an
invariant that must survive one is a statement about every cut: `IInv` says of
`Tree(files, todo, k)`, for every `k` up to the end, what it says of the tree on disk.

* `TreeHolds`, `OneApplied` and `FirstThenRest` are the lemmas about trees: one operation
  done and the rest applied to the result is the same as all of them applied. They rest on
  `LastOne`, that a bounded set of positions has a greatest one, which is the library's
  well-foundedness of the naturals; no induction over sequences is needed because `Tree` is
  not recursive.
* `Invariant`: of every such tree, its files are well formed, a login has its password
  (`LoginsHave`), nothing is about a number the counter has not reached (`Numbered`), and
  an event is `Booked` within its seats unless it is at a point where a crash would make it
  `torn` (`MayStop`). `Owned` adds that uploads have distinct events which have a directory
  and a description file. A handler's operations are of five kinds (accounts, a
  description, the removal of an event, a booking and a create), each with its lemma.
  `WriteKeeps` is the step inside a handler: it moves one operation from the future to the
  past, also while `remove_all` is half done.
* `Types`, `Logins` and `Sales` follow from it. `Numbers` is an action property: by
  `Numbered` nothing is about the next number, whatever has been interrupted.
* `UnhurtStays`: a second inductive invariant. Every event not in `hurt` is `Intact` in the
  tree the running handler will leave: whole files, seats conserved, copies equal, one
  entry with its creator. `Crash` adds to `hurt` whatever the lost operations were about,
  which is exactly what makes this inductive. `Damage` reads `DamageStaysLocal` off it.

`CrashRefinementProofs`, from `IInv`

* `Implements`: the refinement of `EventStore`. First what the readers make of two trees
  that agree where they look (`Same...`), then one lemma per handler: all its operations
  applied and read back are `EventStore`'s action for the request. `IInv` gives what the
  handlers take for granted: an upload has its description file; a new number has no
  remains that a create would take over; and an event that is not `torn` has a directory of
  reservations (`Booked`), so that a reservation without one is `BooksHalfRemoved`
  (`ReservedHalf`). A crash that interrupts nothing is `Restart`, or a stutter when no
  upload was open; `Start` and `Write` are stutters, `CreateThrows` is a stutter or
  `Restart`.
* `Answered`: `AnsweredStays`, step by step. An operation that is not about an event leaves
  what its readers see of it (`KeptElsewhere`, for handlers and crashes alike); that leaves
  the upload's own event, which the property excepts, a close, which adds a file
  (`CloseKeeps`), and a reservation, which adds seats to a file of an open event
  (`ReserveKeeps`, with `SeatsKept` of `LedgerProofs`). A create cannot meet an event that
  exists because its number is fresh (`CreateKeeps`, from `Numbered`).

Only model-checked:

* liveness (`RequestsAreRead`, `ConnectionsAreAccepted`, `CreateIsServed`, `HeldIsLetGo`,
  `ShowEnds`): the prover handles neither fairness nor `ENABLED`. Every other property of
  the passing runs is a theorem.

## 5. Limits of the models

* `EventStore` takes a handler as one step; `CrashStore` shows when that is right.
* `EventStore` starts a create at its completely received header, and does not know
  descriptors: that a description file can be closed through a reused number is shown in
  `SelectLoop` and has no effect in `EventStore`.
* The order of two datagrams or connections that reach the server together is any; the
  kernel's own limits on queued datagrams are not modelled.
* A description file named `.` or `..` is not distinguished from one that is missing:
  `fs::exists` is true of it and `fs::file_size` throws, which ends the server
  (`server_tcp.cpp:392`), where `Showable` says no.
* `reserve` reads the clock for the test of the date and again for the names of the files
  (`server_tcp.cpp:315`, `:325`); `Reserve` has one `now`.
* The names of reservation files are local time (`server_tcp.cpp:325-328`). `Listings`
  takes their order for the order of time, which the hour repeated at the end of daylight
  saving breaks.
* `Transfers` has one client of each kind; `SelectLoop` has many and no bytes.
* EINTR, after which `safe_read` and `safe_write` go on unchanged, is left out.
* In `ClientSession` events take no part, and LMR is not told apart from LME: neither
  changes a session.

## 6. Not modelled

* The wording and layout of replies and logs: no property is about them. A reply is
  modelled by the result it names. The address the log uses is wrong when another
  connection was accepted in the same iteration (`main.cpp:213`), which is read off the
  code directly.
* The character rules of the parsers (names, dates, passwords, file names): what they
  let through is an assumption on the constants.
* The client's `close` and `reserve`: one request, one printed reply, no state.
* Arguments, socket set-up and `getaddrinfo` of both programs: pure input and output.
* A descriptor beyond the size of `fd_set`: the process would have to be allowed more
  than 1024 open files, which it never asks for.
* Full disks, and files changed by somebody else.
* `destroy_all_events`, which nothing calls.
