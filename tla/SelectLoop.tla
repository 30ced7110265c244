----------------------------- MODULE SelectLoop -----------------------------
(***************************************************************************)
(* The server's select loop over its TCP connections: the descriptors the  *)
(* process holds, the set select() watches, the maps kept per descriptor,  *)
(* the count of clients and the order in which one iteration accepts,      *)
(* cleans up and reads.  What a request does to the store is EventStore;   *)
(* here a read is told apart only by what it does to the connection.  One   *)
(* request holds up the loop: the list is written on a non-blocking socket  *)
(* by a loop of its own, which waits for the client to take it.            *)
(*                                                                         *)
(* The process takes the lowest free descriptor for a connection and for   *)
(* the description file a create keeps open, so a number that is closed in *)
(* one half of an iteration can mean something else in the other half.     *)
(***************************************************************************)
EXTENDS Integers, Sequences, FiniteSets, Functions, FiniteSetsExt

CONSTANTS
    Clients,        \* remote ends, one connection at a time each
    MaxFd,          \* descriptors left to the process after 0, ufd and tfd
    MAX_CLIENTS,    \* connections the server admits (512)
    Timeouts,       \* bound: whether connections outlive SESSION_TIMEOUT
    Oversize,       \* bound: whether requests outgrow BUFFSIZE without a header
    MaxDrift        \* bound: neither happens once the count is this far off

ASSUME LoopAssumption ==
    /\ MaxFd \in Nat \ {0}
    /\ MAX_CLIENTS \in Nat
    /\ Timeouts \in BOOLEAN
    /\ Oversize \in BOOLEAN
    /\ MaxDrift \in Nat

FDs == 1..MaxFd

VARIABLES
    phase,              \* "select" | "cleanup" | "admit" | "read" | "write" | "stopped"
    current_fd,         \* the connection just accepted, 0 for none
    replying,           \* the connection safe_write is writing a list to, 0 for none
    testfds,            \* descriptors select() returned and the loop has not read yet
    inputs,             \* descriptors select() watches, without 0, ufd and tfd
    states,             \* creates past their header |-> descriptor of their file
    tcp_buffers,        \* descriptors with a request begun and not complete
    connection_start,   \* descriptor |-> whether SESSION_TIMEOUT has passed since
    active_clients,     \* the loop's count of connections
    sock,               \* descriptors that are open connections |-> their client
    files,              \* descriptors that are open description files
    backlog,            \* connections the kernel completed and nobody accepted
    sent,               \* clients with bytes the server has not read
    gone                \* clients that closed or reset their end

server == <<phase, current_fd, replying, testfds, inputs, states, tcp_buffers,
            connection_start, active_clients, sock, files>>
vars == <<phase, current_fd, replying, testfds, inputs, states, tcp_buffers,
          connection_start, active_clients, sock, files, backlog, sent, gone>>

Put(f, k, v) == [x \in DOMAIN f \cup {k} |-> IF x = k THEN v ELSE f[x]]
Without(f, S) == Restrict(f, DOMAIN f \ S)

Free == FDs \ (DOMAIN sock \cup files)
Connected == Range(sock)
Waiting == Range(backlog)

\* How many connections the count has lost.
drift == Cardinality(inputs) - active_clients

Init ==
    /\ phase = "select"
    /\ current_fd = 0
    /\ replying = 0
    /\ testfds = {}
    /\ inputs = {}
    /\ states = << >>
    /\ tcp_buffers = {}
    /\ connection_start = << >>
    /\ active_clients = 0
    /\ sock = << >>
    /\ files = {}
    /\ backlog = << >>
    /\ sent = {}
    /\ gone = {}

-----------------------------------------------------------------------------
(***************************************************************************)
(* The clients and the clock.                                              *)
(***************************************************************************)
Connect(c) ==
    /\ c \notin Connected \cup Waiting
    /\ backlog' = Append(backlog, c)
    /\ UNCHANGED <<server, sent, gone>>

Send(c) ==
    /\ c \in Connected \cup Waiting
    /\ c \notin sent \cup gone
    /\ sent' = sent \cup {c}
    /\ UNCHANGED <<server, backlog, gone>>

HangUp(c) ==
    /\ c \in Connected \cup Waiting
    /\ c \notin gone
    /\ gone' = gone \cup {c}
    /\ UNCHANGED <<server, backlog, sent>>

\* A connection's age is counted from its accept, busy or not.
Expire(fd) ==
    /\ Timeouts /\ drift < MaxDrift
    /\ fd \in DOMAIN connection_start /\ ~connection_start[fd]
    /\ connection_start' = [connection_start EXCEPT ![fd] = TRUE]
    /\ UNCHANGED <<phase, current_fd, replying, testfds, inputs, states, tcp_buffers,
                   active_clients, sock, files, backlog, sent, gone>>

time_out == {fd \in DOMAIN connection_start : connection_start[fd]}

-----------------------------------------------------------------------------
(***************************************************************************)
(* disconnect_tcp for a set of descriptors: the create's CreState goes with *)
(* its ofstream, whose destructor closes the descriptor it holds.          *)
(***************************************************************************)
Closed(S) == S \cup {states[fd] : fd \in S \cap DOMAIN states}

\* Fault: the request begun on the connection is not forgotten.
FaultKeepsBuffer(S) ==
    /\ inputs' = inputs \ S
    /\ sock' = Without(sock, Closed(S))
    /\ files' = files \ Closed(S)
    /\ states' = Without(states, S)
    /\ connection_start' = Without(connection_start, S)
    /\ sent' = sent \ {sock[fd] : fd \in Closed(S) \cap DOMAIN sock}
    /\ gone' = gone \ {sock[fd] : fd \in Closed(S) \cap DOMAIN sock}
    /\ UNCHANGED tcp_buffers

disconnect_tcp(S) ==
    /\ inputs' = inputs \ S
    /\ sock' = Without(sock, Closed(S))
    /\ files' = files \ Closed(S)
    /\ states' = Without(states, S)
    /\ tcp_buffers' = tcp_buffers \ S
    /\ connection_start' = Without(connection_start, S)
    /\ sent' = sent \ {sock[fd] : fd \in Closed(S) \cap DOMAIN sock}
    /\ gone' = gone \ {sock[fd] : fd \in Closed(S) \cap DOMAIN sock}

-----------------------------------------------------------------------------
(***************************************************************************)
(* select() and the accept half of an iteration.                           *)
(***************************************************************************)

\* Fault: the loop over the descriptors stops before the last of them.
FaultStopsEarly ==
    {fd \in inputs : fd < Max(inputs) /\ (fd \in files \/ sock[fd] \in sent \cup gone)}

Readable == {fd \in inputs : fd \in files \/ sock[fd] \in sent \cup gone}
After(S) == IF S = {} THEN "select" ELSE "read"

\* A watched descriptor that is no longer open makes select() fail, and the
\* loop, the server with it, returns.
SelectFails ==
    /\ phase = "select"
    /\ inputs \cap Free # {}
    /\ phase' = "stopped"
    /\ UNCHANGED <<current_fd, replying, testfds, inputs, states, tcp_buffers, connection_start,
                   active_clients, sock, files, backlog, sent, gone>>

\* Fault: while there are requests to read, the accept may be left out.
FaultReadsFirst ==
    /\ phase = "select"
    /\ inputs \cap Free = {}
    /\ Readable # {}
    /\ testfds' = Readable
    /\ phase' = "read"
    /\ UNCHANGED <<current_fd, replying, inputs, states, tcp_buffers, connection_start,
                   active_clients, sock, files, backlog, sent, gone>>

\* No connection waits, or none can be accepted for lack of a descriptor.
Select ==
    /\ phase = "select"
    /\ inputs \cap Free = {}
    /\ Readable # {}
    /\ backlog = << >> \/ Free = {}
    /\ testfds' = Readable
    /\ phase' = "read"
    /\ UNCHANGED <<current_fd, replying, inputs, states, tcp_buffers, connection_start,
                   active_clients, sock, files, backlog, sent, gone>>

\* tfd is ready: what else is ready is remembered, the connection taken.
SelectAndAccept ==
    /\ phase = "select"
    /\ inputs \cap Free = {}
    /\ backlog # << >> /\ Free # {}
    /\ testfds' = Readable
    /\ current_fd' = Min(Free)
    /\ sock' = Put(sock, Min(Free), Head(backlog))
    /\ backlog' = Tail(backlog)
    /\ phase' = "cleanup"
    /\ UNCHANGED <<replying, inputs, states, tcp_buffers, connection_start, active_clients,
                   files, sent, gone>>

\* Fault: the count is not kept when a connection is cleaned up.
FaultKeepsCount ==
    /\ phase = "cleanup"
    /\ disconnect_tcp(time_out)
    /\ phase' = "admit"
    /\ UNCHANGED <<active_clients, current_fd, replying, testfds, backlog>>

\* Connections that have timed out are closed; testfds still names them.
CleanUp ==
    /\ phase = "cleanup"
    /\ disconnect_tcp(time_out)
    /\ active_clients' = active_clients - Cardinality(time_out)
    /\ phase' = "admit"
    /\ UNCHANGED <<current_fd, replying, testfds, backlog>>

\* At capacity the new connection is closed and `continue` starts the next
\* iteration: nothing that select() returned is read in this one.
Refuse ==
    /\ phase = "admit"
    /\ active_clients >= MAX_CLIENTS
    /\ sock' = Without(sock, {current_fd})
    /\ sent' = sent \ {sock[current_fd]}
    /\ gone' = gone \ {sock[current_fd]}
    /\ current_fd' = 0
    /\ testfds' = {}
    /\ phase' = "select"
    /\ UNCHANGED <<replying, inputs, states, tcp_buffers, connection_start, active_clients,
                   files, backlog>>

\* Fault: the connection is counted twice when it is admitted.
FaultAdmitTwice ==
    /\ phase = "admit"
    /\ active_clients < MAX_CLIENTS
    /\ inputs' = inputs \cup {current_fd}
    /\ connection_start' = Put(connection_start, current_fd, FALSE)
    /\ active_clients' = active_clients + 2
    /\ current_fd' = 0
    /\ phase' = After(testfds)
    /\ UNCHANGED <<replying, testfds, states, tcp_buffers, sock, files,
                   backlog, sent, gone>>

Admit ==
    /\ phase = "admit"
    /\ active_clients < MAX_CLIENTS
    /\ inputs' = inputs \cup {current_fd}
    /\ connection_start' = Put(connection_start, current_fd, FALSE)
    /\ active_clients' = active_clients + 1
    /\ current_fd' = 0
    /\ phase' = After(testfds)
    /\ UNCHANGED <<replying, testfds, states, tcp_buffers, sock, files,
                   backlog, sent, gone>>

-----------------------------------------------------------------------------
(***************************************************************************)
(* The read half: the descriptors of testfds in ascending order.           *)
(***************************************************************************)
Turn(fd) ==
    /\ phase = "read"
    /\ fd \in testfds /\ fd = Min(testfds)
    /\ testfds' = testfds \ {fd}
    /\ UNCHANGED <<current_fd, backlog>>

\* The loop deals with the descriptor and goes on to the next.
Reading(fd) ==
    /\ Turn(fd)
    /\ phase' = After(testfds \ {fd})
    /\ UNCHANGED replying

HasBytes(fd) == fd \in DOMAIN sock /\ sock[fd] \in sent

Take(fd) == sent' = sent \ {sock[fd]}

\* Fault: a descriptor that is no longer watched is not counted out.
FaultCountsWatched(fd) ==
    /\ Reading(fd)
    /\ fd \in DOMAIN sock => sock[fd] \in gone
    /\ disconnect_tcp({fd})
    /\ active_clients' = active_clients - Cardinality({fd} \cap inputs)

\* read() fails: the connection was reset, or the descriptor is closed or has
\* become a description file, which is open for writing only.
ReadFails(fd) ==
    /\ Reading(fd)
    /\ fd \in DOMAIN sock => sock[fd] \in gone
    /\ disconnect_tcp({fd})
    /\ active_clients' = active_clients - 1

ReadEof(fd) ==
    /\ Reading(fd)
    /\ fd \in DOMAIN sock /\ sock[fd] \in gone \ sent
    /\ disconnect_tcp({fd})
    /\ active_clients' = active_clients - 1

\* The request is not complete yet.
ReadPart(fd) ==
    /\ Reading(fd)
    /\ HasBytes(fd) /\ fd \notin DOMAIN states
    /\ Take(fd)
    /\ tcp_buffers' = tcp_buffers \cup {fd}
    /\ UNCHANGED <<inputs, states, connection_start, active_clients, sock, files, gone>>

\* A request is complete: it is logged, answered and the connection closed.
\* So is a create that ends with its header, well or badly.  The handler returns:
\* these answers fit in the buffer of the connection, or a child writes them.
ReadRequest(fd) ==
    /\ Reading(fd)
    /\ HasBytes(fd) /\ fd \notin DOMAIN states
    /\ disconnect_tcp({fd})
    /\ active_clients' = active_clients - 1

\* A list that does not fit: the handler goes on writing, and the loop waits.
ReadList(fd) ==
    /\ Turn(fd)
    /\ HasBytes(fd) /\ fd \notin DOMAIN states
    /\ Take(fd)
    /\ replying' = fd /\ phase' = "write"
    /\ UNCHANGED <<inputs, states, tcp_buffers, connection_start, active_clients, sock, files, gone>>

\* safe_write returns, and the connection is closed as after any request.
EndReply ==
    /\ phase = "write"
    /\ disconnect_tcp({replying})
    /\ active_clients' = active_clients - 1
    /\ replying' = 0 /\ phase' = After(testfds)
    /\ UNCHANGED <<current_fd, testfds, backlog>>

\* The client has gone and write fails ...
ReplyFails == EndReply /\ sock[replying] \in gone

\* ... or it has taken what did not fit, which nothing obliges it to.
ReplyTaken == EndReply /\ sock[replying] \notin gone

\* The buffer outgrows BUFFSIZE: after the disconnect the loop looks for a line
\* in the string it has just destroyed, and may find one and disconnect again.
ReadOversize(fd) ==
    /\ Oversize /\ drift < MaxDrift
    /\ Reading(fd)
    /\ HasBytes(fd) /\ fd \notin DOMAIN states /\ fd \in tcp_buffers
    /\ disconnect_tcp({fd})
    /\ \E times \in {1, 2} : active_clients' = active_clients - times

\* Fault: a file that cannot be opened is not noticed.
FaultUnopenedFile(fd) ==
    /\ Reading(fd)
    /\ HasBytes(fd) /\ fd \notin DOMAIN states
    /\ Take(fd)
    /\ states' = Put(states, fd, IF Free = {} THEN 0 ELSE Min(Free))
    /\ files' = files \cup (IF Free = {} THEN {} ELSE {Min(Free)})
    /\ tcp_buffers' = tcp_buffers \cup {fd}
    /\ UNCHANGED <<inputs, connection_start, active_clients, sock, gone>>

\* A create's header is complete and accepted: its file takes a descriptor.
ReadHeader(fd) ==
    /\ Reading(fd)
    /\ HasBytes(fd) /\ fd \notin DOMAIN states
    /\ Free # {}
    /\ Take(fd)
    /\ states' = Put(states, fd, Min(Free))
    /\ files' = files \cup {Min(Free)}
    /\ tcp_buffers' = tcp_buffers \cup {fd}
    /\ UNCHANGED <<inputs, connection_start, active_clients, sock, gone>>

ReadUpload(fd) ==
    /\ Reading(fd)
    /\ HasBytes(fd) /\ fd \in DOMAIN states
    /\ Take(fd)
    /\ UNCHANGED <<inputs, states, tcp_buffers, connection_start, active_clients,
                   sock, files, gone>>

\* The description is complete, or does not fit: answered and closed.
ReadUploadEnd(fd) ==
    /\ Reading(fd)
    /\ HasBytes(fd) /\ fd \in DOMAIN states
    /\ disconnect_tcp({fd})
    /\ active_clients' = active_clients - 1

-----------------------------------------------------------------------------
ReadStep(fd) ==
    \/ ReadFails(fd) \/ ReadEof(fd)
    \/ ReadPart(fd) \/ ReadRequest(fd) \/ ReadList(fd) \/ ReadOversize(fd)
    \/ ReadHeader(fd) \/ ReadUpload(fd) \/ ReadUploadEnd(fd)

ServerStep ==
    \/ SelectFails \/ Select \/ SelectAndAccept
    \/ CleanUp \/ Refuse \/ Admit
    \/ (\E fd \in FDs : ReadStep(fd)) \/ ReplyFails

ClientStep == \E c \in Clients : Connect(c) \/ Send(c) \/ HangUp(c)

Next == ServerStep \/ ClientStep \/ ReplyTaken \/ \E fd \in FDs : Expire(fd)

Spec == Init /\ [][Next]_vars

\* The process is scheduled: a loop that can move does.  Clients and the clock
\* promise nothing, nor that a client ever takes the rest of a list.
FairSpec == Spec /\ WF_vars(ServerStep)

-----------------------------------------------------------------------------
(***************************************************************************)
(* Properties.                                                             *)
(***************************************************************************)

\* The shape of the loop's variables (main.cpp, select_loop).
TypeOK ==
    /\ phase \in {"select", "cleanup", "admit", "read", "write", "stopped"}
    /\ current_fd \in FDs \cup {0} /\ replying \in FDs \cup {0}
    /\ testfds \subseteq FDs /\ inputs \subseteq FDs
    /\ DOMAIN states \subseteq FDs /\ states \in [DOMAIN states -> FDs]
    /\ tcp_buffers \subseteq FDs
    /\ DOMAIN connection_start \subseteq FDs
    /\ connection_start \in [DOMAIN connection_start -> BOOLEAN]
    /\ active_clients \in Int
    /\ DOMAIN sock \subseteq FDs /\ sock \in [DOMAIN sock -> Clients]
    /\ files \subseteq FDs
    /\ backlog \in Seq(Clients)
    /\ sent \subseteq Clients /\ gone \subseteq Clients

\* The maps kept per descriptor name watched connections only, so nothing a
\* dead connection left (half a request, an upload, its start) is taken for the
\* next connection with the same number, timeouts and oversized requests
\* included.
MapsFollowInputs ==
    /\ DOMAIN connection_start = inputs
    /\ DOMAIN states \subseteq inputs
    /\ tcp_buffers \subseteq inputs
    /\ current_fd \notin inputs

\* Timeouts and oversized requests may count a client out twice but never in
\* twice: the server refuses no client while fewer than MAX_CLIENTS are served.
NeverOvercounts == active_clients <= Cardinality(inputs)

\* The count is lost one connection at a time, and only where the loop reads a
\* descriptor of testfds that the clean-up has closed before, or answers a
\* request that is too long.  It is never gained back: each loss lets the server
\* hold one connection more than MAX_CLIENTS.
CountSlipsOnlyWhenStale ==
    [][drift' # drift =>
          /\ drift' = drift + 1
          /\ \E fd \in testfds : (fd \notin inputs /\ ReadFails(fd)) \/ ReadOversize(fd)]_vars

\* As long as the count is exact nothing has been closed behind the loop's back,
\* whatever has timed out or grown too large: every watched descriptor is an
\* open connection, and every create under way holds a file of its own.
CountVouchesForBooks ==
    drift = 0 =>
        /\ inputs \subseteq DOMAIN sock
        /\ \A fd \in DOMAIN states : states[fd] \in files
        /\ \A fd, other \in DOMAIN states : states[fd] = states[other] => fd = other

\* Bytes sent on an admitted connection are read, or the connection is closed:
\* "Each received request should start being processed once it is received"
\* (Description.pdf 2.2).  The exception: a client that asks for the list and
\* neither takes it nor goes away keeps the loop for ever.
RequestsAreRead ==
    \/ \A c \in Clients :
          (c \in sent /\ c \in {sock[fd] : fd \in inputs \cap DOMAIN sock}) ~> c \notin sent
    \/ <>[](phase = "write")

\* A connection the kernel has completed is accepted, if only to be refused, with
\* the same exception.
ConnectionsAreAccepted ==
    \/ \A c \in Clients : c \in Waiting ~> c \notin Waiting
    \/ <>[](phase = "write")

\* main.cpp:48 "Maintains the state of file descriptors associated with Create
\* commands": the descriptor a create under way holds is its description file.
CreatesHoldTheirFiles == \A fd \in DOMAIN states : states[fd] \in files

=============================================================================
