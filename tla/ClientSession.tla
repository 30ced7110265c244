--------------------------- MODULE ClientSession ----------------------------
(***************************************************************************)
(* The client program and its account commands, against EventStore's       *)
(* accounts.  A command over UDP is one datagram out and one datagram in,  *)
(* with two seconds' patience, no number and no retry: either may be lost, *)
(* late or duplicated by the network, and a reply that comes after the     *)
(* client has given up stays queued on its socket for the next command to  *)
(* find.  changePass has a connection of its own, on which no other reply  *)
(* can come, but may stay unanswered too.  The client's idea of its        *)
(* session (ClientState) follows the replies it takes, the server's        *)
(* follows the requests it gets.                                           *)
(***************************************************************************)
EXTENDS Integers, Sequences, FiniteSets

CONSTANTS
    Clients, UIDs, Passwords,
    MaxCommands,    \* bound: commands all clients send together
    MaxCopies       \* bound: datagrams the network duplicates

ASSUME SessionAssumption == MaxCommands \in Nat /\ MaxCopies \in Nat

VARIABLES
    passwd, loggedIn,   \* the server's accounts, as in EventStore
    session,            \* ClientState: [logged_in, username, password]
    waiting,            \* the request a client waits to be answered, or Nothing
    requests,           \* requests on their way to the server
    replies,            \* replies on their way to a client
    inbox,              \* datagrams queued on each client's socket
    commands,           \* commands sent so far; numbers the requests here only
    copies,             \* datagrams duplicated so far
    doubt,              \* ghost: clients with a command never answered or a duplicate
    used                \* ghost: users each client has sent a command for

accounts == <<passwd, loggedIn>>
network == <<requests, replies, inbox>>
ghosts == <<commands, copies, doubt, used>>
vars == <<accounts, session, waiting, network, ghosts>>

\* No event takes part.
Store == INSTANCE EventStore WITH
    Connections <- {}, Attendances <- {}, FileSizes <- {}, Seats <- {},
    MaxEvents <- 1, MaxTime <- 0, MaxRead <- 0, MaxRecords <- 0,
    userEvents <- [u \in UIDs |-> {}], userRes <- << >>, lastEvent <- 0,
    event <- << >>, uploads <- << >>, now <- 0

Commands == {"LIN", "LOU", "UNR", "CPS", "LME"}
Nobody == "nobody"
Nothing == [id |-> 0]
LoggedOut == [logged_in |-> FALSE, username |-> Nobody, password |-> Nobody]

Init ==
    /\ passwd = << >> /\ loggedIn = {}
    /\ session = [c \in Clients |-> LoggedOut]
    /\ waiting = [c \in Clients |-> Nothing]
    /\ requests = {} /\ replies = {}
    /\ inbox = [c \in Clients |-> << >>]
    /\ commands = 0 /\ copies = 0 /\ doubt = {}
    /\ used = [c \in Clients |-> {}]

-----------------------------------------------------------------------------
(***************************************************************************)
(* The client sends a command.                                             *)
(***************************************************************************)
Idle(c) == waiting[c] = Nothing

Request(c, command, u, p, new) ==
    [id |-> commands + 1, from |-> c, command |-> command, user |-> u, password |-> p, new |-> new,
     copy |-> FALSE]

\* Fault: the datagram is sent twice, against loss.
FaultSendsTwice(request) ==
    /\ commands' = commands + 2
    /\ requests' = requests \cup {request, [request EXCEPT !.id = @ + 1]}

Transmit(request) ==
    /\ commands' = commands + 1
    /\ requests' = requests \cup {request}

Send(c, command, u, p, new) ==
    /\ Idle(c) /\ commands < MaxCommands
    /\ LET request == Request(c, command, u, p, new)
       IN  Transmit(request) /\ waiting' = [waiting EXCEPT ![c] = request]
    /\ used' = [used EXCEPT ![c] = @ \cup {u}]
    /\ UNCHANGED <<accounts, session, replies, inbox, copies, doubt>>

handle_login(c, u, p) == ~session[c].logged_in /\ Send(c, "LIN", u, p, p)

\* logout, unregister, myevents and myreservations name the session's user.
handle_own(c, command) ==
    /\ session[c].logged_in
    /\ Send(c, command, session[c].username, session[c].password, Nobody)

\* The old password is the one the user types.
handle_changePass(c, old, new) ==
    session[c].logged_in /\ Send(c, "CPS", session[c].username, old, new)

-----------------------------------------------------------------------------
(***************************************************************************)
(* The server, by EventStore's handlers.                                   *)
(***************************************************************************)
login_user(u, p) ==
    IF ~Store!does_user_exist(u) THEN "REG" ELSE IF Store!check_password(u, p) THEN "OK" ELSE "NOK"

Handle(r) ==
    \/ r.command = "LIN" /\ Store!Login(r.user, r.password)
    \/ r.command = "LOU" /\ Store!Logout(r.user, r.password)
    \/ r.command = "UNR" /\ Store!Unregister(r.user, r.password)
    \/ r.command = "CPS" /\ Store!ChangePass(r.user, r.password, r.new)
    \/ /\ \/ r.command = "LIN" /\ login_user(r.user, r.password) = "NOK"
          \/ r.command \in {"LOU", "UNR"} /\ Store!logout_user(r.user, r.password) # "OK"
          \/ r.command = "CPS" /\ Store!changePass(r.user, r.password) # "OK"
          \/ r.command = "LME"
       /\ UNCHANGED accounts

Result(r) ==
    CASE r.command = "LIN" -> login_user(r.user, r.password)
      [] r.command \in {"LOU", "UNR"} -> Store!logout_user(r.user, r.password)
      [] r.command = "CPS" -> Store!changePass(r.user, r.password)
      [] OTHER -> "OK"

\* parse_client_msg_udp or parse_client_msg_tcp, then answer_udp or
\* answer_changePass, whose reply begins with the request's letters.
Serve(r) ==
    /\ r \in requests
    /\ Handle(r)
    /\ requests' = requests \ {r}
    /\ replies' = replies \cup {[id |-> r.id, to |-> r.from, command |-> r.command,
                                  result |-> Result(r), copy |-> r.copy]}
    /\ UNCHANGED <<session, waiting, inbox, ghosts>>

-----------------------------------------------------------------------------
(***************************************************************************)
(* The network.                                                            *)
(***************************************************************************)
\* A datagram, or a connection with the request or the reply on it, is lost.
Lose ==
    /\ \/ \E r \in requests : requests' = requests \ {r} /\ UNCHANGED replies
       \/ \E a \in replies : replies' = replies \ {a} /\ UNCHANGED requests
    /\ UNCHANGED <<accounts, session, waiting, inbox, ghosts>>

\* A datagram arrives a second time, at any time later.
Duplicate ==
    /\ copies < MaxCopies /\ copies' = copies + 1
    /\ \/ \E r \in requests :
             /\ r.command # "CPS" /\ ~r.copy
             /\ requests' = requests \cup {[r EXCEPT !.copy = TRUE]}
             /\ doubt' = doubt \cup {r.from}
             /\ UNCHANGED replies
       \/ \E a \in replies :
             /\ a.command # "CPS" /\ ~a.copy
             /\ replies' = replies \cup {[a EXCEPT !.copy = TRUE]}
             /\ doubt' = doubt \cup {a.to}
             /\ UNCHANGED requests
    /\ UNCHANGED <<accounts, session, waiting, inbox, commands, used>>

\* A reply reaches the client's UDP socket, in any order.
Deliver ==
    /\ \E a \in replies :
          /\ a.command # "CPS"
          /\ inbox' = [inbox EXCEPT ![a.to] = Append(@, a)]
          /\ replies' = replies \ {a}
    /\ UNCHANGED <<accounts, session, waiting, requests, ghosts>>

-----------------------------------------------------------------------------
(***************************************************************************)
(* The client takes a reply.                                               *)
(***************************************************************************)
\* Fault: the new password is not kept.
FaultKeepsOldPassword(s, request, reply) ==
    CASE reply.command # request.command -> s
      [] request.command = "LIN" /\ reply.result \in {"OK", "REG"} ->
            [logged_in |-> TRUE, username |-> request.user, password |-> request.password]
      [] request.command \in {"LOU", "UNR"} /\ reply.result = "OK" -> LoggedOut
      [] OTHER -> s

\* Fault: a user who is unregistered is forgotten, but not logged out.
FaultStaysLoggedIn(s, request, reply) ==
    CASE reply.command # request.command -> s
      [] request.command = "LIN" /\ reply.result \in {"OK", "REG"} ->
            [logged_in |-> TRUE, username |-> request.user, password |-> request.password]
      [] request.command = "LOU" /\ reply.result = "OK" -> LoggedOut
      [] request.command = "UNR" /\ reply.result = "OK" -> [LoggedOut EXCEPT !.logged_in = TRUE]
      [] request.command = "CPS" /\ reply.result = "OK" -> [s EXCEPT !.password = request.new]
      [] OTHER -> s

\* ClientState after a reply: its first letters must be those of the command,
\* and anything but success leaves the session as it was.
After(s, request, reply) ==
    CASE reply.command # request.command -> s
      [] request.command = "LIN" /\ reply.result \in {"OK", "REG"} ->
            [logged_in |-> TRUE, username |-> request.user, password |-> request.password]
      [] request.command \in {"LOU", "UNR"} /\ reply.result = "OK" -> LoggedOut
      [] request.command = "CPS" /\ reply.result = "OK" -> [s EXCEPT !.password = request.new]
      [] OTHER -> s

Take(c, reply) ==
    /\ session' = [session EXCEPT ![c] = After(@, waiting[c], reply)]
    /\ waiting' = [waiting EXCEPT ![c] = Nothing]
    /\ UNCHANGED <<accounts, requests, ghosts>>

\* recvfrom returns the oldest datagram, whatever it answers.
ReceiveUdp(c) ==
    /\ ~Idle(c) /\ waiting[c].command # "CPS" /\ inbox[c] # << >>
    /\ Take(c, Head(inbox[c]))
    /\ inbox' = [inbox EXCEPT ![c] = Tail(@)]
    /\ UNCHANGED replies

ReceiveTcp(c) ==
    \E a \in replies :
        /\ a.command = "CPS" /\ a.id = waiting[c].id
        /\ Take(c, a)
        /\ replies' = replies \ {a}
        /\ UNCHANGED inbox

\* Two seconds without a reply: the command fails.
TimesOut(c) ==
    /\ ~Idle(c)
    /\ waiting[c].command # "CPS" => inbox[c] = << >>
    /\ waiting' = [waiting EXCEPT ![c] = Nothing]
    /\ doubt' = doubt \cup {c}
    /\ UNCHANGED <<accounts, session, network, commands, copies, used>>

\* "exit" is refused while logged in.
exit(c) == Idle(c) /\ ~session[c].logged_in

\* The program ends, by exit or by an empty line, and is started again: it has
\* forgotten its session and has a new socket.
Restart(c) ==
    /\ \/ exit(c) /\ UNCHANGED doubt
       \/ Idle(c) /\ session[c].logged_in /\ doubt' = doubt \cup {c}
    /\ session' = [session EXCEPT ![c] = LoggedOut]
    /\ inbox' = [inbox EXCEPT ![c] = << >>]
    /\ replies' = {a \in replies : a.to # c}
    /\ UNCHANGED <<accounts, waiting, requests, commands, copies, used>>

-----------------------------------------------------------------------------
ClientStep(c) == ReceiveUdp(c) \/ ReceiveTcp(c) \/ TimesOut(c)

UserStep(c) ==
    \/ \E u \in UIDs, p \in Passwords : handle_login(c, u, p)
    \/ \E command \in {"LOU", "UNR", "LME"} : handle_own(c, command)
    \/ \E old, new \in Passwords : handle_changePass(c, old, new)
    \/ Restart(c)

Next ==
    \/ \E c \in Clients : UserStep(c) \/ ClientStep(c)
    \/ \E r \in requests : Serve(r)
    \/ Lose \/ Duplicate \/ Deliver

Spec == Init /\ [][Next]_vars

-----------------------------------------------------------------------------
Session == {LoggedOut} \cup [logged_in : {TRUE}, username : UIDs, password : Passwords]
Message == [id : Nat, from : Clients, command : Commands, user : UIDs,
            password : Passwords \cup {Nobody}, new : Passwords \cup {Nobody}, copy : BOOLEAN]
Reply == [id : Nat, to : Clients, command : Commands,
          result : {"OK", "REG", "NOK", "NLG", "NID", "UNR", "WRP"}, copy : BOOLEAN]

\* The shape of sessions and messages: a session that is logged in has a user
\* and a password, with which every later request is filled.
TypeOK ==
    /\ passwd \in [DOMAIN passwd -> Passwords] /\ DOMAIN passwd \subseteq UIDs
    /\ loggedIn \subseteq UIDs
    /\ session \in [Clients -> Session]
    /\ waiting \in [Clients -> {Nothing} \cup Message]
    /\ inbox \in [Clients -> Seq(Reply)]
    /\ used \in [Clients -> SUBSET UIDs]
    /\ requests \subseteq Message /\ replies \subseteq Reply
    /\ doubt \subseteq Clients /\ commands \in Nat /\ copies \in Nat

\* The users only client c has ever sent a command for.
Own(c) == {u \in used[c] : \A d \in Clients \ {c} : u \notin used[d]}

\* Between two commands, a client all of whose commands were answered, and none of
\* whose datagrams the network duplicated, and the server have the same idea of
\* the users nobody else uses: who is logged in, and with which password,
\* whatever other clients lose, get late or get twice.
SessionsAgree ==
    \A c \in Clients \ doubt :
        Idle(c) =>
            /\ Own(c) \cap loggedIn = IF session[c].logged_in THEN Own(c) \cap {session[c].username} ELSE {}
            /\ session[c].logged_in /\ session[c].username \in Own(c) =>
                  passwd[session[c].username] = session[c].password

\* A client all of whose commands were answered, and none of whose datagrams the
\* network duplicated, takes each reply for the command it answers: no reply is
\* late by one.
RepliesInStep ==
    [][\A c \in Clients \ doubt : ReceiveUdp(c) => Head(inbox[c]).id = waiting[c].id]_vars

=============================================================================
