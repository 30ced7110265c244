----------------------------- MODULE Transfers ------------------------------
(***************************************************************************)
(* One description on its way into the server and out again, byte by byte. *)
(* A client sends the header of a create, the bytes of its file and a      *)
(* newline; the server reads them in pieces of any length and re-parses    *)
(* what it has until the header is complete.  A second client asks to see  *)
(* the event: the server forks a child that streams the stored file and    *)
(* holds a copy of every connection open at that moment.  A third client   *)
(* asks for the list of events, which the server writes itself, waiting    *)
(* for room when that client does not read.                                *)
(*                                                                         *)
(* An upload lasts as long as its client takes.  When it is older than     *)
(* SESSION_TIMEOUT, the next connection the server accepts, the viewer's   *)
(* or the lister's, has it closed.                                         *)
(*                                                                         *)
(* The stream of a create is counted in bytes: Prefix of them come before  *)
(* the digits of the size, then the digits, one space, the file, and '\n'. *)
(***************************************************************************)
EXTENDS Integers, FiniteSets, FiniteSetsExt, Wire

CONSTANTS
    Prefix,         \* bytes of a create's header before the size
    Digits,         \* digits of the size
    Sizes,          \* sizes a file may have
    MaxRead,        \* most bytes the server takes in one read (sizeof msg)
    Chunk,          \* most bytes safe_read returns (256)
    ShowHeader,     \* bytes of the header of a reply to show
    ListSize,       \* bytes of a reply to list
    Window          \* bytes a connection holds for a peer that does not read

ASSUME TransfersAssumption ==
    /\ {Prefix, Digits, MaxRead, ShowHeader, ListSize, Window} \subseteq Nat \ {0}
    /\ Sizes \subseteq parse_filesize
    /\ Chunk \in Nat /\ ShowHeader < Chunk /\ Chunk <= Window

VARIABLES
    announced,      \* the file's size when the client wrote the header
    body,           \* its size when send_file opened it: the file may change
    creator,        \* the creating client: "sending" | "waiting" | "closed"
    report,         \* what it told its user: "none" | "OK" | "failed"
    sent,           \* bytes of the create it has written
    server,         \* "up" | "listing" | "terminated"
    accepted,       \* whose connections it has taken: "viewer", "lister"
    conn,           \* the server's end of the create: "open" | "closed"
    old,            \* SESSION_TIMEOUT has passed since its accept
    got,            \* bytes of the create the server has read
    answer,         \* its reply: "none" | "OK" | "NOK" (to the description) |
                    \* "refused" (to the header, whatever the status)
    event,          \* "none" | "pending" | "whole" | "partial" | "destroyed"
    flushed,        \* bytes of the description on disk
    child,          \* "none" | "forked" | "sending" | "ended" | "failed"
    holds,          \* the child has a copy of the create's connection
    out,            \* bytes of the reply to show written so far
    viewer,         \* "idle" | "asked" | "reading" | "saved" | "failed"
    request,        \* its request waits at the server
    taken,          \* bytes of that reply the viewer has taken
    saved,          \* bytes it has put in its copy of the file
    lister,         \* "idle" | "asked" | "reading" | "gone"
    listed, heard   \* bytes of the list written and taken

createVars == <<announced, body, creator, report, sent, conn, old, got, answer, event, flushed>>
showVars   == <<child, holds, out, viewer, request, taken, saved>>
listVars   == <<lister, listed, heard>>
serverVars == <<server, accepted>>
vars == <<createVars, showVars, listVars, serverVars>>

Header == Prefix + Digits + 1
Stream == Header + body + 1
written == Max({0, got - Header})

Init ==
    /\ announced \in Sizes /\ body \in Sizes
    /\ creator = "sending" /\ report = "none" /\ sent = 0
    /\ conn = "open" /\ old = FALSE /\ got = 0 /\ answer = "none"
    /\ event = "none" /\ flushed = 0
    /\ child = "none" /\ holds = FALSE /\ out = 0
    /\ viewer = "idle" /\ request = FALSE /\ taken = 0 /\ saved = 0
    /\ lister = "idle" /\ listed = 0 /\ heard = 0
    /\ server = "up" /\ accepted = {}

-----------------------------------------------------------------------------
(***************************************************************************)
(* The creating client.                                                    *)
(***************************************************************************)
\* safe_write brings the next bytes on their way.
CreatorSends ==
    /\ creator = "sending"
    /\ \E n \in sent + 1 .. Stream :
          /\ sent' = n
          /\ creator' = IF n = Stream THEN "waiting" ELSE "sending"
    /\ UNCHANGED <<announced, body, report, conn, old, got, answer, event, flushed, showVars, listVars, serverVars>>

\* The end of the stream reaches the client when nobody holds the other end, the
\* server's or the copy the child has of it.
Ended == conn = "closed" /\ ~(holds /\ child \in {"forked", "sending"})

CreatorCloses(r) ==
    /\ creator' = "closed" /\ report' = r
    /\ UNCHANGED <<announced, body, sent, conn, old, got, answer, event, flushed, showVars, listVars, serverVars>>

\* A reply is shorter than safe_read's buffer, so it goes on to the end.
CreatorHears ==
    /\ creator = "waiting" /\ Ended
    /\ CreatorCloses(IF answer = "OK" THEN "OK" ELSE "failed")

\* Two seconds go by without a byte (SO_RCVTIMEO); what has come is dropped.
CreatorTimesOut == creator = "waiting" /\ ~Ended /\ CreatorCloses("failed")

\* Both ends closed without everything having been read: the connection is reset.
CreatorReset ==
    creator \in {"sending", "waiting"} /\ Ended /\ got < sent /\ CreatorCloses("failed")

\* The client is stopped by its user.
CreatorQuits == creator = "sending" /\ CreatorCloses("failed")

-----------------------------------------------------------------------------
(***************************************************************************)
(* The server reads the create.                                            *)
(***************************************************************************)
ParentOnly == UNCHANGED <<announced, body, creator, report, sent, old, accepted, showVars, listVars>>

\* answer_create and disconnect_tcp.
AnswerAndClose(a) == answer' = a /\ conn' = "closed"

\* disconnect_tcp in the middle: the CreState goes and its file with it, the
\* event stays, and the client gets no reply.
Cut ==
    /\ conn' = "closed"
    /\ event' = IF event = "pending" THEN "partial" ELSE event
    /\ flushed' = written

\* A piece of the stream ends with '\n' if it ends the stream; a byte of the
\* file may be one too.
EndsWithNewline(n, newline) == n = Stream \/ (newline /\ n > Header)

\* Nine fields parse from the first digit of the size on.
FieldsParse(n) == n > Prefix

\* The rebuilt header ends with a space: before it has come, substr throws, and
\* nothing catches it.
ServerTerminates ==
    /\ conn' = "closed" /\ server' = "terminated"
    /\ UNCHANGED <<answer, event, flushed>>

\* A field the parsers refuse (ERR), or a user, login, password or number that
\* start_create_event refuses: nothing has been made for the create.
Refuse == AnswerAndClose("refused") /\ UNCHANGED <<event, flushed, server>>

\* The description file cannot be opened (ERR): the directories are there.
CannotOpen == AnswerAndClose("refused") /\ event' = "partial" /\ UNCHANGED <<flushed, server>>

\* write_event on the k bytes of the file that a read up to byte n brings.
StoreBytes(n, k, newline) ==
    LET r == write_event(Max({0, n - k - Header}), announced, k, EndsWithNewline(n, newline))
    IN  /\ \/ /\ r = "more"
              /\ \E b \in flushed .. n - Header : flushed' = b
              /\ event' = "pending"
              /\ UNCHANGED <<conn, answer>>
           \/ /\ r = "done"
              /\ flushed' = announced /\ event' = "whole"
              /\ AnswerAndClose("OK")
           \/ /\ r = "destroyed"
              /\ event' = "destroyed"
              /\ AnswerAndClose("NOK")
              /\ UNCHANGED flushed
        /\ UNCHANGED server

\* Fault: the rebuilt header lacks its last space.
FaultShortHeader(n) == IF got < Header THEN n - Header + 1 ELSE n - got

\* The bytes of the file among those a read up to byte n brings.
Rest(n) == n - Max({got, Header})

\* One read of the create's connection.  Until the header is complete there is no
\* event; the fields are tested before substr, the rest after it.
ServerReads ==
    /\ server = "up" /\ conn = "open"
    /\ \E n \in got + 1 .. sent, newline \in BOOLEAN :
          /\ n - got <= MaxRead
          /\ got' = n
          /\ \/ ~FieldsParse(n) /\ UNCHANGED <<conn, server, answer, event, flushed>>
             \/ FieldsParse(n) /\ event = "none" /\ Refuse
             \/ FieldsParse(n) /\ n < Header /\ ServerTerminates
             \/ n >= Header /\ event = "none" /\ CannotOpen
             \/ n >= Header /\ StoreBytes(n, Rest(n), newline)
    /\ ParentOnly

\* The client is gone and everything it sent has been read.
ServerReadsEof ==
    /\ server = "up" /\ conn = "open" /\ creator = "closed" /\ got = sent
    /\ Cut
    /\ UNCHANGED <<got, answer, server>>
    /\ ParentOnly

\* Fifteen minutes go by: nothing bounds the time between two bytes.
SessionAges ==
    /\ conn = "open" /\ ~old /\ old' = TRUE
    /\ UNCHANGED <<announced, body, creator, report, sent, conn, got, answer, event, flushed,
                   showVars, listVars, serverVars>>

time_out == old

\* accept, which first disconnects what has timed out.  The other two clients
\* send their request when they connect, and only one of them keeps the server
\* busy, so theirs cannot be the connection that has aged.
ServerAccepts(c) ==
    /\ server = "up" /\ c \notin accepted
    /\ c = "viewer" => request
    /\ c = "lister" => lister # "idle"
    /\ accepted' = accepted \cup {c}
    /\ IF conn = "open" /\ time_out THEN Cut ELSE UNCHANGED <<conn, event, flushed>>
    /\ UNCHANGED <<announced, body, creator, report, sent, old, got, answer, showVars, listVars, server>>

-----------------------------------------------------------------------------
(***************************************************************************)
(* Show.                                                                   *)
(***************************************************************************)
ShowOnly == UNCHANGED <<createVars, listVars, serverVars>>

ViewerAsks ==
    /\ viewer = "idle" /\ viewer' = "asked" /\ request' = TRUE
    /\ UNCHANGED <<child, holds, out, taken, saved>> /\ ShowOnly

\* Fault: the file's size is not compared with the one announced.
FaultShowsAnySize == event \in {"pending", "whole", "partial"}

\* The event's directory and details exist and its file has its size.
Showable == event \in {"pending", "whole", "partial"} /\ flushed = announced

\* show(): the child inherits the create's connection if it is still open.  The
\* parent closes its end of the viewer's connection in both cases, and does all
\* this for a viewer that has stopped waiting, too.
ServerShows ==
    /\ server = "up" /\ "viewer" \in accepted /\ request
    /\ request' = FALSE
    /\ \/ /\ Showable /\ child' = "forked" /\ holds' = (conn = "open")
          /\ viewer' = IF viewer = "asked" THEN "reading" ELSE viewer
       \/ ~Showable /\ viewer' = "failed" /\ UNCHANGED <<child, holds>>
    /\ UNCHANGED <<out, taken, saved>> /\ ShowOnly

\* The header, then send_file, which opens the file only now.
ChildOpens ==
    /\ child = "forked"
    /\ out' = ShowHeader
    /\ child' = IF event = "destroyed" THEN "failed" ELSE "sending"
    /\ UNCHANGED <<holds, viewer, request, taken, saved>> /\ ShowOnly

\* The file and a newline, in pieces; the removed file of an event destroyed in
\* the meantime can still be read.
ChildSends ==
    /\ child = "sending"
    /\ \E n \in out + 1 .. Min({taken + Window, ShowHeader + announced + 1}) :
          /\ out' = n
          /\ child' = IF n = ShowHeader + announced + 1 THEN "ended" ELSE "sending"
    /\ UNCHANGED <<holds, viewer, request, taken, saved>> /\ ShowOnly

\* Fault: the child tries again after any error of write.
FaultNeverEpipe == FALSE

\* The viewer has closed: write fails (EPIPE) and the child ends.
Epipe == viewer = "failed"

ChildGivesUp ==
    /\ child \in {"forked", "sending"} /\ Epipe
    /\ child' = "failed"
    /\ UNCHANGED <<holds, out, viewer, request, taken, saved>> /\ ShowOnly

\* Fault: the newline that ends the reply is not taken off the last piece.
FaultKeepsNewline(n) == saved + n

\* The piece that brings one byte too many loses its last (pop_back), and the
\* first piece is cut to the announced size.
SavedAfter(n) == Min({announced, saved + n})

\* safe_read returns a full chunk, or less at the end of the stream.
ChunkReady == out - taken >= Chunk \/ child \in {"ended", "failed"}

\* One call of read_tcp in show(): the first brings the header.  At an early end
\* it brings nothing, and the loop calls again.
ViewerReads ==
    /\ viewer = "reading" /\ ChunkReady
    /\ LET n == Min({Chunk, out - taken})
           bytes == IF taken = 0 THEN n - ShowHeader ELSE n
       IN  /\ taken' = taken + n
           /\ saved' = SavedAfter(bytes)
           /\ viewer' = IF saved + bytes >= announced THEN "saved" ELSE "reading"
    /\ UNCHANGED <<child, holds, out, request>> /\ ShowOnly

\* Fault: the socket has no SO_RCVTIMEO.
FaultNoTimeout == FALSE

ViewerTimesOut ==
    /\ \/ viewer = "asked"
       \/ viewer = "reading" /\ ~ChunkReady
    /\ viewer' = "failed"
    /\ UNCHANGED <<child, holds, out, request, taken, saved>> /\ ShowOnly

-----------------------------------------------------------------------------
(***************************************************************************)
(* List.  The server itself writes the reply, on a non-blocking connection: *)
(* while there is no room it tries again and does nothing else.            *)
(***************************************************************************)
ListerAsks ==
    /\ lister = "idle" /\ lister' = "asked"
    /\ UNCHANGED <<createVars, showVars, listed, heard, serverVars>>

ServerLists ==
    /\ server = "up" /\ "lister" \in accepted /\ lister = "asked"
    /\ lister' = "reading" /\ server' = "listing"
    /\ UNCHANGED <<createVars, showVars, listed, heard, accepted>>

\* Fault: any error of write is tried again.
FaultRetriesAll == FALSE

WriteFails == lister = "gone"

ServerWritesList ==
    /\ server = "listing"
    /\ \/ /\ lister = "reading" /\ listed - heard < Window
          /\ listed' = listed + 1
          /\ server' = IF listed' = ListSize THEN "up" ELSE "listing"
       \/ /\ WriteFails
          /\ server' = "up"
          /\ UNCHANGED listed
    /\ UNCHANGED <<createVars, showVars, lister, heard, accepted>>

ListerReads ==
    /\ lister = "reading" /\ heard < listed
    /\ heard' = heard + 1
    /\ lister' = IF heard' = ListSize THEN "gone" ELSE "reading"
    /\ UNCHANGED <<createVars, showVars, listed, serverVars>>

\* The client is stopped, or waits two seconds for the next byte.  One that is
\* suspended, or another program, need neither read nor quit.
ListerQuits ==
    /\ lister \in {"asked", "reading"} /\ lister' = "gone"
    /\ UNCHANGED <<createVars, showVars, listed, heard, serverVars>>

-----------------------------------------------------------------------------
ServerStep ==
    \/ ServerReads \/ ServerReadsEof \/ ServerShows \/ ServerLists \/ ServerWritesList
    \/ \E c \in {"viewer", "lister"} : ServerAccepts(c)
CreatorStep == CreatorSends \/ CreatorHears \/ CreatorTimesOut
ViewerStep == ViewerReads \/ ViewerTimesOut
ChildStep == ChildOpens \/ ChildSends \/ ChildGivesUp

Next ==
    \/ ServerStep \/ CreatorStep \/ ViewerStep \/ ChildStep \/ ListerReads
    \/ CreatorReset \/ CreatorQuits \/ SessionAges \/ ViewerAsks \/ ListerAsks \/ ListerQuits

Spec == Init /\ [][Next]_vars

\* The server reads the create when select reports it, and goes on writing a list
\* when there is room or the write fails.  The creator and the viewer are the
\* client program: it goes on, and a read without an answer times out.  Nothing
\* is assumed of the lister, of anybody's asking or of what else the server does.
FairSpec ==
    /\ Spec
    /\ WF_vars(ServerReads) /\ WF_vars(ServerReadsEof) /\ WF_vars(ServerWritesList)
    /\ WF_vars(CreatorStep) /\ WF_vars(ViewerStep) /\ WF_vars(ChildStep)

-----------------------------------------------------------------------------
\* Counters stay within what is sent, announced and asked for: neither the file
\* on the server nor the viewer's copy grows beyond the announced size.
TypeOK ==
    /\ announced \in Sizes /\ body \in Sizes
    /\ sent \in 0..Stream /\ got \in 0..sent
    /\ flushed \in 0..announced /\ saved \in 0..announced
    /\ taken \in 0..out /\ out \in 0 .. ShowHeader + announced + 1
    /\ heard \in 0..listed /\ listed \in 0..ListSize
    /\ creator \in {"sending", "waiting", "closed"} /\ report \in {"none", "OK", "failed"}
    /\ server \in {"up", "listing", "terminated"} /\ accepted \subseteq {"viewer", "lister"}
    /\ conn \in {"open", "closed"} /\ old \in BOOLEAN
    /\ answer \in {"none", "OK", "NOK", "refused"}
    /\ event \in {"none", "pending", "whole", "partial", "destroyed"}
    /\ child \in {"none", "forked", "sending", "ended", "failed"} /\ holds \in BOOLEAN
    /\ viewer \in {"idle", "asked", "reading", "saved", "failed"} /\ request \in BOOLEAN
    /\ lister \in {"idle", "asked", "reading", "gone"}

\* However the stream is cut into reads, write_event refuses no description that
\* has the announced size, a create that is accepted is stored whole, and the client
\* reports success only for a create that was accepted.
CutsDoNotMatter ==
    /\ body = announced => answer # "NOK" /\ event # "destroyed"
    /\ answer = "OK" => event = "whole" /\ flushed = announced
    /\ report = "OK" => answer = "OK"

\* A viewer that reports success has exactly the description: all its bytes and
\* not the newline that follows them, wherever its chunks begin and end and
\* whatever became of the event while the child was sending.
SavedIsTheDescription == viewer = "saved" => saved = announced /\ flushed = announced

\* A child holds a create's connection open only if it was forked when all of that
\* description had come and just the newline after it had not: the client that
\* waits for an end of stream in vain is told nothing of an event whose file is
\* complete (server_tcp.cpp, show).
OnlyFullFilesAreHeld == holds => flushed = announced /\ got >= Header + announced

\* Once the server has closed a create's connection, its end reaches the client:
\* the copy a child holds goes when the child has sent all or its viewer has gone.
HeldIsLetGo == conn = "closed" ~> Ended

\* A create its client is done with is closed in the end, whatever it was; one
\* sent completely and with the announced size has then been answered, unless a
\* cut header has ended the server or the upload was too old when somebody
\* connected.  The exception: a list written to a client that stays and does not
\* read keeps the server for ever.
CreateIsServed ==
    \/ creator # "sending"
          ~> /\ conn = "closed"
             /\ sent = Stream /\ body = announced => answer # "none" \/ old \/ server = "terminated"
    \/ <>[](server = "listing" /\ lister = "reading")

\* A show comes to an end, with the file or an error, unless the event was
\* destroyed before the child opened its file; then the viewer reads for ever.
ShowEnds ==
    viewer = "asked"
        ~> viewer \in {"saved", "failed"} \/ (child = "failed" /\ event = "destroyed")

\* src/README.md: "Handles partial reads and writes correctly"; so no way of
\* cutting a well-formed create into reads ends the server.
ServerSurvives == server # "terminated"

=============================================================================
