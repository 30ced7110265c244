------------------------ MODULE ClientSessionProofs -------------------------
(***************************************************************************)
(* What is proved about ClientSession for any number of clients, users,    *)
(* passwords and commands, and whatever the network loses, delays or        *)
(* duplicates.                                                             *)
(***************************************************************************)
EXTENDS ClientSession, TLAPS

(***************************************************************************)
(* What holds of every client and message, also after replies were lost: a *)
(* request names a user its client has used, a request or reply with a     *)
(* waiting client's number is that client's own, and a client waits with   *)
(* the session it asked in.                                                *)
(***************************************************************************)
WellFormed(r) ==
    /\ r \in Message /\ r.id \in 1..commands /\ r.user \in used[r.from]
    /\ r.command = "LIN" => r.password \in Passwords
    /\ r.command = "CPS" => r.new \in Passwords

Asked(c) ==
    LET w == waiting[c] IN
    /\ WellFormed(w) /\ w.from = c
    /\ IF w.command = "LIN" THEN ~session[c].logged_in
       ELSE session[c].logged_in /\ w.user = session[c].username
    /\ w.command \in {"LOU", "UNR"} => w.password = session[c].password
    /\ \A r \in requests : r.id = w.id => r.from = c /\ r.command = w.command
    /\ \A a \in replies : a.id = w.id => a.to = c /\ a.command = w.command

Sane ==
    /\ loggedIn \subseteq DOMAIN passwd
    /\ \A u \in loggedIn : \E c \in Clients : u \in used[c]
    /\ \A r \in requests : WellFormed(r)
    /\ \A a \in replies : a.id \in 1..commands
    /\ \A c \in Clients : session[c].logged_in => session[c].username \in used[c]
    /\ \A c \in Clients : ~Idle(c) => Asked(c)

(***************************************************************************)
(* What holds of a client all of whose commands were answered and none of   *)
(* whose datagrams was duplicated: it has at most one message on its way,  *)
(* the request or its reply, and the server agrees with the session it     *)
(* has, or will have once it takes the reply.                              *)
(***************************************************************************)
Agree(c, s) ==
    /\ Own(c) \cap loggedIn = IF s.logged_in THEN Own(c) \cap {s.username} ELSE {}
    /\ s.logged_in /\ s.username \in Own(c) => passwd[s.username] = s.password

Unasked(c)    == \A r \in requests : r.from # c
Unanswered(c) == (\A a \in replies : a.to # c) /\ inbox[c] = << >>

Answers(c, a) ==
    /\ a.id = waiting[c].id /\ a.command = waiting[c].command
    /\ Agree(c, After(session[c], waiting[c], a))

InStep(c) ==
    \/ Idle(c) /\ Unasked(c) /\ Unanswered(c) /\ Agree(c, session[c])
    \/ ~Idle(c) /\ Unasked(c) /\ Unanswered(c)
    \/ /\ ~Idle(c) /\ Unanswered(c) /\ Agree(c, session[c])
       /\ \A r \in requests : r.from = c => r = waiting[c]
    \/ /\ ~Idle(c) /\ Unasked(c) /\ inbox[c] = << >>
       /\ \E a \in replies : Answers(c, a) /\ \A b \in replies : b.to = c => b = a
    \/ /\ ~Idle(c) /\ Unasked(c) /\ \A a \in replies : a.to # c
       /\ \E a \in Reply : inbox[c] = <<a>> /\ Answers(c, a)

InOrder == TypeOK /\ Sane /\ \A c \in Clients \ doubt : InStep(c)

-----------------------------------------------------------------------------
(***************************************************************************)
(* The handlers.  A request changes the accounts of its user only, and as  *)
(* its reply says.                                                         *)
(***************************************************************************)
\* What the reply to r says has become of its user.
Done(r) ==
    IF r.command = "LIN" /\ Result(r) \in {"OK", "REG"}
      THEN r.user \in loggedIn' /\ passwd'[r.user] = r.password
    ELSE IF r.command \in {"LOU", "UNR"} /\ Result(r) = "OK"
      THEN r.user \notin loggedIn'
    ELSE IF r.command = "CPS" /\ Result(r) = "OK"
      THEN UNCHANGED loggedIn /\ passwd'[r.user] = r.new
    ELSE UNCHANGED <<passwd, loggedIn>>

Registered == /\ passwd \in [DOMAIN passwd -> Passwords] /\ DOMAIN passwd \subseteq UIDs
              /\ loggedIn \subseteq DOMAIN passwd

LEMMA HandlerEffects ==
    ASSUME Registered, NEW r \in Message, Handle(r),
           r.command = "LIN" => r.password \in Passwords,
           r.command = "CPS" => r.new \in Passwords
    PROVE  /\ Registered'
           /\ \A u \in UIDs \ {r.user} :
                 (u \in loggedIn' <=> u \in loggedIn) /\ (u \in DOMAIN passwd => passwd'[u] = passwd[u])
           /\ Done(r)
           /\ Result(r) \in {"OK", "REG", "NOK", "NLG", "NID", "UNR", "WRP"}
<1> USE DEF Registered, Message, Commands
<1>1. CASE r.command = "LIN" /\ Store!Login(r.user, r.password)
  <2>1. /\ loggedIn' = loggedIn \cup {r.user} /\ r.password \in Passwords
        /\ login_user(r.user, r.password) \in {"OK", "REG"}
    BY <1>1 DEF Store!Login, login_user, Store!does_user_exist, Store!check_password
  <2>2. passwd' = Store!Put(passwd, r.user, r.password) \/ (Store!check_password(r.user, r.password) /\ UNCHANGED passwd)
    BY <1>1 DEF Store!Login
  <2>3. CASE passwd' = Store!Put(passwd, r.user, r.password)
    BY <1>1, <2>1, <2>3 DEF Store!Put, Done, Result
  <2>4. CASE Store!check_password(r.user, r.password) /\ UNCHANGED passwd
    BY <1>1, <2>1, <2>4 DEF Store!check_password, Done, Result
  <2>5. QED
    BY <2>2, <2>3, <2>4
<1>2. CASE r.command = "LOU" /\ Store!Logout(r.user, r.password)
  BY <1>2 DEF Store!Logout, Done, Result
<1>3. CASE r.command = "UNR" /\ Store!Unregister(r.user, r.password)
  <2>1. /\ Store!logout_user(r.user, r.password) = "OK" /\ loggedIn' = loggedIn \ {r.user}
        /\ passwd' = [x \in DOMAIN passwd \ {r.user} |-> passwd[x]]
    BY <1>3 DEF Store!Unregister, Store!Without, Store!Restrict
  <2>2. QED
    BY <1>3, <2>1 DEF Done, Result
<1>4. CASE r.command = "CPS" /\ Store!ChangePass(r.user, r.password, r.new)
  <2>1. /\ Store!changePass(r.user, r.password) = "OK" /\ UNCHANGED loggedIn
        /\ passwd' = [passwd EXCEPT ![r.user] = r.new] /\ r.new \in Passwords
    BY <1>4 DEF Store!ChangePass
  <2>2. r.user \in DOMAIN passwd
    BY <2>1 DEF Store!changePass, Store!does_user_exist
  <2>3. QED
    BY <1>4, <2>1, <2>2 DEF Done, Result
<1>5. CASE /\ \/ r.command = "LIN" /\ login_user(r.user, r.password) = "NOK"
              \/ r.command \in {"LOU", "UNR"} /\ Store!logout_user(r.user, r.password) # "OK"
              \/ r.command = "CPS" /\ Store!changePass(r.user, r.password) # "OK"
              \/ r.command = "LME"
           /\ UNCHANGED accounts
  <2>1. UNCHANGED <<passwd, loggedIn>>
    BY <1>5 DEF accounts
  <2>2. Result(r) \in {"OK", "REG", "NOK", "NLG", "NID", "UNR", "WRP"}
    BY DEF Result, login_user, Store!logout_user, Store!changePass
  <2>3. Done(r)
    BY <1>5, <2>1 DEF Done, Result
  <2>4. QED
    BY <2>1, <2>2, <2>3
<1>6. QED
  BY <1>1, <1>2, <1>3, <1>4, <1>5 DEF Handle

-----------------------------------------------------------------------------
(***************************************************************************)
(* What one client does and the network loses does not disturb the others. *)
(***************************************************************************)
LEMMA InStepStays ==
    ASSUME NEW d \in Clients, InStep(d), Own(d)' \subseteq Own(d),
           \A u \in Own(d) : (u \in loggedIn' <=> u \in loggedIn) /\ (u \in loggedIn => passwd'[u] = passwd[u]),
           session'[d] = session[d], waiting'[d] = waiting[d], inbox'[d] = inbox[d],
           \A r \in requests' : r.from = d => r \in requests,
           \A a \in replies' : a.to = d => a \in replies
    PROVE  InStep(d)'
<1>1. \A s : Agree(d, s) =>
        /\ Own(d)' \cap loggedIn' = IF s.logged_in THEN Own(d)' \cap {s.username} ELSE {}
        /\ s.logged_in /\ s.username \in Own(d)' => passwd'[s.username] = s.password
  <2> SUFFICES ASSUME NEW s, Agree(d, s)
               PROVE  /\ Own(d)' \cap loggedIn' = IF s.logged_in THEN Own(d)' \cap {s.username} ELSE {}
                      /\ s.logged_in /\ s.username \in Own(d)' => passwd'[s.username] = s.password
    OBVIOUS
  <2>1. Own(d)' \cap loggedIn' = Own(d)' \cap (Own(d) \cap loggedIn)
    OBVIOUS
  <2>2. CASE s.logged_in
    <3>1. Own(d) \cap loggedIn = Own(d) \cap {s.username}
      BY <2>2 DEF Agree
    <3>2. Own(d)' \cap loggedIn' = Own(d)' \cap {s.username}
      BY <2>1, <3>1
    <3>3. s.username \in Own(d)' => s.username \in Own(d) /\ s.username \in loggedIn
      BY <3>1
    <3>4. s.username \in Own(d)' => passwd'[s.username] = s.password
      BY <2>2, <3>3 DEF Agree
    <3>5. QED
      BY <2>2, <3>2, <3>4
  <2>3. CASE ~s.logged_in
    BY <2>1, <2>3 DEF Agree
  <2>4. QED
    BY <2>2, <2>3
<1>2. (Unasked(d) => Unasked(d)') /\ (Unanswered(d) => Unanswered(d)') /\ (Idle(d) <=> Idle(d)')
  BY DEF Unasked, Unanswered, Idle, Nothing
<1>3. Agree(d, session[d]) => Agree(d, session[d])'
  BY <1>1 DEF Agree
<1>4. \A a : Answers(d, a) => Answers(d, a)'
  BY <1>1 DEF Answers, Agree
<1>5. CASE Idle(d) /\ Unasked(d) /\ Unanswered(d) /\ Agree(d, session[d])
  BY <1>2, <1>3, <1>5 DEF InStep
<1>6. CASE ~Idle(d) /\ Unasked(d) /\ Unanswered(d)
  BY <1>2, <1>6 DEF InStep
<1>7. CASE /\ ~Idle(d) /\ Unanswered(d) /\ Agree(d, session[d])
           /\ \A r \in requests : r.from = d => r = waiting[d]
  <2>1. \A r \in requests' : r.from = d => r = waiting'[d]
    BY <1>7
  <2>2. QED
    BY <1>2, <1>3, <1>7, <2>1 DEF InStep
<1>8. CASE /\ ~Idle(d) /\ Unasked(d) /\ inbox[d] = << >>
           /\ \E a \in replies : Answers(d, a) /\ \A b \in replies : b.to = d => b = a
  <2>1. PICK a \in replies : Answers(d, a) /\ \A b \in replies : b.to = d => b = a
    BY <1>8
  <2>2. \A b \in replies' : b.to = d => b = a
    BY <2>1
  <2>3. CASE a \in replies'
    BY <1>2, <1>4, <1>8, <2>1, <2>2, <2>3 DEF InStep
  <2>4. CASE a \notin replies'
    BY <1>2, <1>8, <2>2, <2>4 DEF InStep, Unanswered
  <2>5. QED
    BY <2>3, <2>4
<1>9. CASE /\ ~Idle(d) /\ Unasked(d) /\ \A a \in replies : a.to # d
           /\ \E a \in Reply : inbox[d] = <<a>> /\ Answers(d, a)
  BY <1>2, <1>4, <1>9 DEF InStep, Reply, Commands
<1>10. QED
  BY <1>5, <1>6, <1>7, <1>8, <1>9 DEF InStep

LEMMA AskedStays ==
    ASSUME NEW c \in Clients, Asked(c), waiting'[c] = waiting[c], session'[c] = session[c],
           commands \in Nat, commands' \in Nat, commands <= commands',
           \A d \in Clients : used[d] \subseteq used'[d],
           \A r \in requests' : r \in requests
                \/ (r.id = waiting[c].id => r.from = c /\ r.command = waiting[c].command),
           \A a \in replies' : a \in replies
                \/ (a.id = waiting[c].id => a.to = c /\ a.command = waiting[c].command)
    PROVE  Asked(c)'
<1>1. WellFormed(waiting[c])'
  BY DEF Asked, WellFormed, Message
<1>2. QED
  BY <1>1 DEF Asked

LEMMA LoggedInSession ==
    ASSUME NEW s \in Session, s.logged_in
    PROVE  s \in [logged_in : {TRUE}, username : UIDs, password : Passwords]
<1>1. CASE s = LoggedOut
  <2>1. LoggedOut.logged_in = FALSE
    BY DEF LoggedOut
  <2>2. QED
    BY <1>1, <2>1
<1>2. QED
  BY <1>1 DEF Session

LEMMA InitOrder == Init => InOrder
<1> SUFFICES ASSUME Init PROVE InOrder
  OBVIOUS
<1>1. TypeOK
  BY SessionAssumption DEF Init, TypeOK, Session
<1>2. Sane
  BY DEF Init, Sane, Idle, LoggedOut
<1>3. ASSUME NEW c \in Clients PROVE InStep(c)
  BY DEF Init, InStep, Idle, Unasked, Unanswered, Agree, Own, LoggedOut
<1>4. QED
  BY <1>1, <1>2, <1>3 DEF InOrder

-----------------------------------------------------------------------------
(***************************************************************************)
(* The client's commands.                                                  *)
(***************************************************************************)
LEMMA SendOrder ==
    ASSUME InOrder, NEW c \in Clients, NEW command \in Commands, NEW u \in UIDs,
           NEW p \in Passwords \cup {Nobody}, NEW new \in Passwords \cup {Nobody},
           command = "LIN" => p \in Passwords,
           command = "CPS" => new \in Passwords,
           IF command = "LIN" THEN ~session[c].logged_in
           ELSE session[c].logged_in /\ u = session[c].username,
           command \in {"LOU", "UNR"} => p = session[c].password,
           Send(c, command, u, p, new)
    PROVE  InOrder'
<1>1. PICK r : r = Request(c, command, u, p, new)
  OBVIOUS
<1>2. /\ r \in Message /\ r.id = commands + 1 /\ r.from = c /\ r.command = command
      /\ r.user = u /\ r.password = p /\ r.new = new /\ commands \in Nat
  BY <1>1 DEF Request, Message, InOrder, TypeOK
<1>3. /\ commands' = commands + 1 /\ requests' = requests \cup {r}
      /\ waiting' = [waiting EXCEPT ![c] = r] /\ used' = [used EXCEPT ![c] = @ \cup {u}]
      /\ UNCHANGED <<passwd, loggedIn, session, replies, inbox, copies, doubt>> /\ Idle(c)
  BY <1>1 DEF Send, Transmit, accounts
<1>4. /\ \A d \in Clients : used[d] \subseteq used'[d]
      /\ used'[c] = used[c] \cup {u}
      /\ \A d \in Clients \ {c} : used'[d] = used[d] /\ waiting'[d] = waiting[d]
      /\ waiting'[c] = r
  BY <1>3 DEF InOrder, TypeOK
<1>5. TypeOK'
  BY <1>2, <1>3 DEF InOrder, TypeOK
<1>6. Sane'
  <2>1. WellFormed(r)'
    BY <1>2, <1>3, <1>4 DEF WellFormed
  <2>2. ASSUME NEW x \in requests PROVE WellFormed(x)'
    <3>1. WellFormed(x) /\ x.from \in Clients
      BY DEF InOrder, Sane, WellFormed, Message
    <3>2. QED
      BY <1>2, <1>3, <1>4, <3>1 DEF WellFormed
  <2>3. \A a \in replies : a.id \in 1..commands /\ a.id \in 1..commands'
    BY <1>2, <1>3 DEF InOrder, Sane
  <2>4. \A v \in loggedIn' : \E d \in Clients : v \in used'[d]
    BY <1>3, <1>4 DEF InOrder, Sane
  <2>5. \A d \in Clients : session'[d].logged_in => session'[d].username \in used'[d]
    BY <1>3, <1>4 DEF InOrder, Sane
  <2>6. Asked(c)'
    <3>1. \A x \in requests : x.id # r.id
      BY <1>2 DEF InOrder, Sane, WellFormed
    <3>2. \A a \in replies : a.id # r.id
      BY <1>2, <2>3
    <3>3. QED
      BY <1>2, <1>3, <1>4, <2>1, <3>1, <3>2 DEF Asked
  <2>7. ASSUME NEW d \in Clients \ {c}, ~Idle(d)' PROVE Asked(d)'
    <3>1. ~Idle(d)
      BY <1>4, <2>7 DEF Idle, Nothing
    <3>2. Asked(d)
      BY <3>1 DEF InOrder, Sane
    <3>3. waiting[d].id # r.id
      BY <1>2, <3>2 DEF Asked, WellFormed
    <3>4. QED
      BY <1>2, <1>3, <1>4, <3>2, <3>3, AskedStays
  <2>8. QED
    BY <1>3, <2>1, <2>2, <2>3, <2>4, <2>5, <2>6, <2>7 DEF InOrder, Sane
<1>7. ASSUME NEW d \in Clients \ doubt, d # c PROVE InStep(d)'
  <2>1. Own(d)' \subseteq Own(d)
    BY <1>4, <1>7 DEF Own
  <2>2. QED
    BY <1>2, <1>3, <1>4, <1>7, <2>1, InStepStays DEF InOrder
<1>8. ASSUME c \notin doubt PROVE InStep(c)'
  <2>1. Unasked(c) /\ Unanswered(c) /\ Agree(c, session[c])
    BY <1>3, <1>8 DEF InOrder, InStep
  <2>2. ~Idle(c)'
    BY <1>2, <1>4 DEF Idle, Nothing
  <2>3. Unanswered(c)'
    BY <1>3, <2>1 DEF Unanswered
  <2>4. \A x \in requests' : x.from = c => x = waiting'[c]
    BY <1>3, <1>4, <2>1 DEF Unasked
  <2>5. Own(c)' \subseteq Own(c) \cup {u}
    BY <1>4 DEF Own
  <2>6. Agree(c, session[c])'
    <3>1. CASE command = "LIN"
      <4>1. ~session[c].logged_in /\ Own(c) \cap loggedIn = {}
        BY <2>1, <3>1 DEF Agree
      <4>2. u \in Own(c)' => u \in Own(c) \/ u \notin loggedIn
        <5>1. SUFFICES ASSUME u \in Own(c)', u \in loggedIn PROVE u \in Own(c)
          OBVIOUS
        <5>2. \A d \in Clients \ {c} : u \notin used[d]
          BY <1>4, <5>1 DEF Own
        <5>3. u \in used[c]
          BY <5>1, <5>2 DEF InOrder, Sane
        <5>4. QED
          BY <5>2, <5>3 DEF Own
      <4>3. Own(c)' \cap loggedIn' = {}
        BY <1>3, <2>5, <4>1, <4>2
      <4>4. QED
        BY <1>3, <4>1, <4>3 DEF Agree
    <3>2. CASE command # "LIN"
      <4>1. u \in used[c]
        BY <3>2 DEF InOrder, Sane
      <4>2. Own(c)' = Own(c)
        BY <1>4, <4>1 DEF Own
      <4>3. QED
        BY <1>3, <2>1, <4>2 DEF Agree
    <3>3. QED
      BY <3>1, <3>2
  <2>7. QED
    BY <2>2, <2>3, <2>4, <2>6 DEF InStep
<1>9. QED
  BY <1>3, <1>5, <1>6, <1>7, <1>8 DEF InOrder

LEMMA UserOrder ==
    ASSUME InOrder, NEW c \in Clients, UserStep(c)
    PROVE  InOrder'
<1>1. session[c].logged_in => session[c].username \in UIDs /\ session[c].password \in Passwords
  <2>1. PICK s : s = session[c]
    OBVIOUS
  <2>2. s \in Session
    BY <2>1 DEF InOrder, TypeOK
  <2>3. s.logged_in => s.username \in UIDs /\ s.password \in Passwords
    BY <2>2, LoggedInSession
  <2>4. QED
    BY <2>1, <2>3
<1>2. CASE \E u \in UIDs, p \in Passwords : handle_login(c, u, p)
  BY <1>2, SendOrder DEF handle_login, Commands
<1>3. CASE \E command \in {"LOU", "UNR", "LME"} : handle_own(c, command)
  <2>1. PICK command \in {"LOU", "UNR", "LME"} : handle_own(c, command)
    BY <1>3
  <2>2. PICK u, p : u = session[c].username /\ p = session[c].password
    OBVIOUS
  <2>3. Send(c, command, u, p, Nobody) /\ session[c].logged_in
    BY <2>1, <2>2 DEF handle_own
  <2>4. u \in UIDs /\ p \in Passwords \cup {Nobody}
    BY <1>1, <2>2, <2>3
  <2>5. command \in Commands /\ Nobody \in Passwords \cup {Nobody} /\ command # "LIN" /\ command # "CPS"
    BY <2>1 DEF Commands
  <2>6. QED
    BY <2>2, <2>3, <2>4, <2>5, SendOrder
<1>4. CASE \E old, new \in Passwords : handle_changePass(c, old, new)
  <2>1. PICK old \in Passwords, new \in Passwords : handle_changePass(c, old, new)
    BY <1>4
  <2>2. PICK u : u = session[c].username
    OBVIOUS
  <2>3. Send(c, "CPS", u, old, new) /\ session[c].logged_in
    BY <2>1, <2>2 DEF handle_changePass
  <2>4. QED
    BY <1>1, <2>2, <2>3, SendOrder DEF Commands
<1>5. CASE Restart(c)
  <2>1. /\ session' = [session EXCEPT ![c] = LoggedOut] /\ inbox' = [inbox EXCEPT ![c] = << >>]
        /\ replies' = {a \in replies : a.to # c}
        /\ UNCHANGED <<passwd, loggedIn, waiting, requests, commands, copies, used>>
        /\ \/ exit(c) /\ UNCHANGED doubt
           \/ doubt' = doubt \cup {c}
        /\ Idle(c)
    BY <1>5 DEF Restart, accounts, exit
  <2>2. session'[c] = LoggedOut /\ inbox'[c] = << >>
    BY <2>1 DEF InOrder, TypeOK
  <2>3. TypeOK'
    <3>1. session' \in [Clients -> Session]
      BY <2>1 DEF InOrder, TypeOK, Session
    <3>2. << >> \in Seq(Reply)
      OBVIOUS
    <3>3. inbox' \in [Clients -> Seq(Reply)]
      BY <2>1, <3>2 DEF InOrder, TypeOK
    <3>4. replies' \subseteq Reply /\ doubt' \subseteq Clients
      BY <2>1 DEF InOrder, TypeOK
    <3>5. QED
      BY <2>1, <3>1, <3>3, <3>4 DEF InOrder, TypeOK
  <2>4. \A d \in Clients \ {c} : session'[d] = session[d] /\ inbox'[d] = inbox[d] /\ waiting'[d] = waiting[d]
    BY <2>1 DEF InOrder, TypeOK
  <2>5. Sane'
    <3>1. \A r \in requests' : WellFormed(r)'
      BY <2>1 DEF InOrder, Sane, WellFormed
    <3>2. ASSUME NEW d \in Clients, ~Idle(d)' PROVE Asked(d)'
      <4>1. ~Idle(d) /\ d # c
        BY <2>1, <3>2 DEF Idle, Nothing
      <4>2. Asked(d) /\ commands \in Nat
        BY <4>1 DEF InOrder, Sane, TypeOK
      <4>3. QED
        BY <2>1, <2>4, <4>1, <4>2, AskedStays
    <3>3. \A d \in Clients : session'[d].logged_in => session'[d].username \in used'[d]
      BY <2>1, <2>2, <2>4 DEF InOrder, Sane, LoggedOut
    <3>4. QED
      BY <2>1, <3>1, <3>2, <3>3 DEF InOrder, Sane
  <2>6. ASSUME NEW d \in Clients \ doubt, d # c PROVE InStep(d)'
    <3>1. Own(d)' = Own(d)
      BY <2>1 DEF Own
    <3>2. QED
      BY <2>1, <2>4, <2>6, <3>1, InStepStays DEF InOrder
  <2>7. ASSUME c \notin doubt, exit(c) PROVE InStep(c)'
    <3>1. Unasked(c) /\ Agree(c, session[c]) /\ ~session[c].logged_in
      BY <2>1, <2>7 DEF InOrder, InStep, exit
    <3>2. Idle(c)' /\ Unasked(c)' /\ Unanswered(c)'
      BY <2>1, <2>2, <3>1 DEF Idle, Nothing, Unasked, Unanswered
    <3>3. Own(c)' = Own(c)
      BY <2>1 DEF Own
    <3>4. Agree(c, session[c])'
      BY <2>1, <2>2, <3>1, <3>3 DEF Agree, LoggedOut
    <3>5. QED
      BY <3>2, <3>4 DEF InStep
  <2>8. QED
    BY <2>1, <2>3, <2>5, <2>6, <2>7 DEF InOrder
<1>6. QED
  BY <1>2, <1>3, <1>4, <1>5 DEF UserStep

-----------------------------------------------------------------------------
(***************************************************************************)
(* The server and the network.                                             *)
(***************************************************************************)
LEMMA ServeOrder ==
    ASSUME InOrder, NEW r \in requests, Serve(r)
    PROVE  InOrder'
<1> DEFINE a == [id |-> r.id, to |-> r.from, command |-> r.command,
                 result |-> Result(r), copy |-> r.copy]
<1>1. WellFormed(r) /\ r \in Message
  BY DEF InOrder, Sane, WellFormed
<1>2. Registered
  BY DEF InOrder, Sane, TypeOK, Registered
<1>3. /\ Handle(r) /\ requests' = requests \ {r} /\ replies' = replies \cup {a}
      /\ UNCHANGED <<session, waiting, inbox, commands, copies, doubt, used>>
  BY DEF Serve, ghosts
<1>4. /\ Registered'
      /\ \A u \in UIDs \ {r.user} :
            (u \in loggedIn' <=> u \in loggedIn) /\ (u \in DOMAIN passwd => passwd'[u] = passwd[u])
      /\ Done(r)
      /\ Result(r) \in {"OK", "REG", "NOK", "NLG", "NID", "UNR", "WRP"}
  BY <1>1, <1>2, <1>3, HandlerEffects DEF WellFormed
<1>5. r.from \in Clients /\ r.user \in UIDs /\ r.user \in used[r.from] /\ r.id \in 1..commands
  BY <1>1 DEF WellFormed, Message
<1>6. a \in Reply
  BY <1>1, <1>4 DEF Reply, Message
<1>7. TypeOK'
  BY <1>3, <1>4, <1>6 DEF InOrder, TypeOK, Registered
<1>8. Sane'
  <2>1. \A x \in requests' : WellFormed(x)'
    BY <1>3 DEF InOrder, Sane, WellFormed
  <2>2. \A b \in replies' : b.id \in 1..commands'
    BY <1>3, <1>5 DEF InOrder, Sane
  <2>3. \A u \in loggedIn' : \E d \in Clients : u \in used'[d]
    <3>1. loggedIn' \subseteq UIDs
      BY <1>4 DEF Registered
    <3>2. QED
      BY <1>3, <1>4, <1>5, <3>1 DEF InOrder, Sane
  <2>4. \A d \in Clients : session'[d].logged_in => session'[d].username \in used'[d]
    BY <1>3 DEF InOrder, Sane
  <2>5. ASSUME NEW d \in Clients, ~Idle(d)' PROVE Asked(d)'
    <3>1. Asked(d) /\ commands \in Nat
      BY <1>3, <2>5 DEF Idle, Nothing, InOrder, Sane, TypeOK
    <3>2. a.id = waiting[d].id => a.to = d /\ a.command = waiting[d].command
      BY <3>1 DEF Asked
    <3>3. QED
      BY <1>3, <3>1, <3>2, AskedStays
  <2>6. QED
    BY <1>4, <2>1, <2>2, <2>3, <2>4, <2>5 DEF Sane, Registered
<1>9. ASSUME NEW d \in Clients \ doubt, d # r.from PROVE InStep(d)'
  <2>1. Own(d)' = Own(d)
    BY <1>3 DEF Own
  <2>2. ASSUME NEW u \in Own(d)
        PROVE  (u \in loggedIn' <=> u \in loggedIn) /\ (u \in loggedIn => passwd'[u] = passwd[u])
    <3>1. u # r.user /\ u \in UIDs
      BY <1>5, <1>9 DEF Own, InOrder, TypeOK
    <3>2. u \in loggedIn => u \in DOMAIN passwd
      BY <1>2 DEF Registered
    <3>3. QED
      BY <1>4, <3>1, <3>2
  <2>3. \A b \in replies' : b.to = d => b \in replies
    BY <1>3, <1>9
  <2>4. QED
    BY <1>3, <1>9, <2>1, <2>2, <2>3, InStepStays DEF InOrder
<1>10. ASSUME NEW c \in Clients \ doubt, c = r.from PROVE InStep(c)'
  <2>1. /\ ~Idle(c) /\ Unanswered(c) /\ Agree(c, session[c])
        /\ \A x \in requests : x.from = c => x = waiting[c]
    BY <1>10 DEF InOrder, InStep, Unasked
  <2>2. r = waiting[c]
    BY <1>10, <2>1
  <2>3. ~Idle(c)' /\ Unasked(c)' /\ inbox'[c] = << >>
    BY <1>3, <2>1, <2>2 DEF Idle, Nothing, Unasked, Unanswered
  <2>4. \A b \in replies' : b.to = c => b = a
    BY <1>3, <2>1 DEF Unanswered
  <2>5. Own(c)' = Own(c) /\ Own(c) \subseteq UIDs
    BY <1>3 DEF Own, InOrder, TypeOK
  <2>6. PICK s : s = session[c]
    OBVIOUS
  <2>7. PICK t : t = After(s, r, a)
    OBVIOUS
  <2>8. IF r.command = "LIN" THEN ~s.logged_in ELSE s.logged_in /\ r.user = s.username
    BY <2>1, <2>2, <2>6 DEF InOrder, Sane, Asked
  <2>9. /\ Own(c) \cap loggedIn = IF s.logged_in THEN Own(c) \cap {s.username} ELSE {}
        /\ s.logged_in /\ s.username \in Own(c) => passwd[s.username] = s.password
    BY <2>1, <2>6 DEF Agree
  <2>10. /\ Own(c) \cap loggedIn' = IF t.logged_in THEN Own(c) \cap {t.username} ELSE {}
         /\ t.logged_in /\ t.username \in Own(c) => passwd'[t.username] = t.password
    <3>1. CASE r.command = "LIN" /\ Result(r) \in {"OK", "REG"}
      <4>1. t = [logged_in |-> TRUE, username |-> r.user, password |-> r.password]
        BY <2>7, <3>1 DEF After
      <4>2. r.user \in loggedIn' /\ passwd'[r.user] = r.password
        BY <1>4, <3>1 DEF Done
      <4>3. Own(c) \cap loggedIn = {}
        BY <2>8, <2>9, <3>1
      <4>4. Own(c) \cap loggedIn' = Own(c) \cap {r.user}
        BY <1>4, <2>5, <4>2, <4>3
      <4>5. QED
        BY <4>1, <4>2, <4>4
    <3>2. CASE r.command \in {"LOU", "UNR"} /\ Result(r) = "OK"
      <4>1. t = LoggedOut
        BY <2>7, <3>2 DEF After
      <4>2. r.user \notin loggedIn' /\ s.logged_in /\ r.user = s.username
        BY <1>4, <2>8, <3>2 DEF Done
      <4>3. Own(c) \cap loggedIn' = {}
        BY <1>4, <2>5, <2>9, <4>2
      <4>4. QED
        BY <4>1, <4>3 DEF LoggedOut
    <3>3. CASE r.command = "CPS" /\ Result(r) = "OK"
      <4>1. t = [s EXCEPT !.password = r.new]
        BY <2>7, <3>3 DEF After
      <4>2. s.logged_in /\ s.username = r.user /\ loggedIn' = loggedIn /\ passwd'[r.user] = r.new
        BY <1>4, <2>8, <3>3 DEF Done
      <4>3. s \in Session /\ s # LoggedOut
        BY <2>6, <4>2 DEF InOrder, TypeOK, LoggedOut
      <4>4. t.logged_in /\ t.username = s.username /\ t.password = r.new
        BY <4>1, <4>2, <4>3 DEF Session
      <4>5. QED
        BY <2>9, <4>2, <4>4
    <3>4. CASE /\ ~(r.command = "LIN" /\ Result(r) \in {"OK", "REG"})
               /\ ~(r.command \in {"LOU", "UNR"} /\ Result(r) = "OK")
               /\ ~(r.command = "CPS" /\ Result(r) = "OK")
      <4>1. t = s
        BY <2>7, <3>4 DEF After
      <4>2. UNCHANGED <<passwd, loggedIn>>
        BY <1>4, <3>4 DEF Done
      <4>3. QED
        BY <2>9, <4>1, <4>2
    <3>5. QED
      BY <3>1, <3>2, <3>3, <3>4
  <2>11. ASSUME NEW b, b = a PROVE Answers(c, b)'
    <3>1. After(session'[c], waiting'[c], b) = t
      BY <1>3, <2>2, <2>6, <2>7, <2>11
    <3>2. b.id = waiting'[c].id /\ b.command = waiting'[c].command
      BY <1>3, <2>2, <2>11
    <3>3. QED
      BY <2>5, <2>10, <3>1, <3>2 DEF Answers, Agree
  <2>12. PICK b : b = a
    OBVIOUS
  <2>13. QED
    BY <1>3, <2>3, <2>4, <2>11, <2>12 DEF InStep
<1>11. QED
  BY <1>3, <1>5, <1>7, <1>8, <1>9, <1>10 DEF InOrder

LEMMA LoseOrder ==
    ASSUME InOrder, Lose
    PROVE  InOrder'
<1>1. /\ requests' \subseteq requests /\ replies' \subseteq replies
      /\ UNCHANGED <<passwd, loggedIn, session, waiting, inbox, commands, copies, doubt, used>>
  BY DEF Lose, accounts, ghosts
<1>2. TypeOK'
  BY <1>1 DEF InOrder, TypeOK
<1>3. Sane'
  <2>1. \A r \in requests' : WellFormed(r)'
    BY <1>1 DEF InOrder, Sane, WellFormed
  <2>2. ASSUME NEW c \in Clients, ~Idle(c)' PROVE Asked(c)'
    <3>1. Asked(c) /\ commands \in Nat
      BY <1>1, <2>2 DEF InOrder, Sane, TypeOK, Idle, Nothing
    <3>2. QED
      BY <1>1, <3>1, AskedStays
  <2>3. QED
    BY <1>1, <2>1, <2>2 DEF InOrder, Sane
<1>4. ASSUME NEW c \in Clients \ doubt PROVE InStep(c)'
  <2>1. Own(c)' = Own(c)
    BY <1>1 DEF Own
  <2>2. QED
    BY <1>1, <2>1, InStepStays DEF InOrder
<1>5. QED
  BY <1>1, <1>2, <1>3, <1>4 DEF InOrder

\* A duplicate is a message of the same client with the same number and command;
\* the client it concerns is in doubt from then on.
LEMMA DuplicateOrder ==
    ASSUME InOrder, Duplicate
    PROVE  InOrder'
<1>1. PICK d \in Clients :
        /\ doubt' = doubt \cup {d}
        /\ \/ /\ UNCHANGED replies
              /\ \E r \in requests : r.from = d /\ requests' = requests \cup {[r EXCEPT !.copy = TRUE]}
           \/ /\ UNCHANGED requests
              /\ \E a \in replies : a.to = d /\ replies' = replies \cup {[a EXCEPT !.copy = TRUE]}
  <2>1. \A r \in requests : r.from \in Clients
    BY DEF InOrder, TypeOK, Message
  <2>2. \A a \in replies : a.to \in Clients
    BY DEF InOrder, TypeOK, Reply
  <2>3. QED
    BY <2>1, <2>2 DEF Duplicate
<1>2. /\ copies' \in Nat /\ commands \in Nat
      /\ UNCHANGED <<passwd, loggedIn, session, waiting, inbox, commands, used>>
  BY DEF Duplicate, accounts, InOrder, TypeOK
<1>3. /\ requests' \subseteq Message /\ \A r \in requests' : WellFormed(r)'
      /\ \A r \in requests' : r \in requests \/
            \E x \in requests : r.from = d /\ r.id = x.id /\ r.command = x.command /\ x.from = d
  <2>1. CASE requests' = requests
    BY <1>2, <2>1 DEF InOrder, TypeOK, Sane, WellFormed
  <2>2. CASE \E x \in requests : x.from = d /\ requests' = requests \cup {[x EXCEPT !.copy = TRUE]}
    <3> PICK x \in requests : x.from = d /\ requests' = requests \cup {[x EXCEPT !.copy = TRUE]}
      BY <2>2
    <3>1. PICK y : y = [x EXCEPT !.copy = TRUE]
      OBVIOUS
    <3>2. x \in Message /\ WellFormed(x)
      BY DEF InOrder, Sane, WellFormed
    <3>3. /\ y \in Message /\ y.id = x.id /\ y.from = x.from /\ y.command = x.command
          /\ y.user = x.user /\ y.password = x.password /\ y.new = x.new
      BY <3>1, <3>2 DEF Message
    <3>4. WellFormed(y)'
      BY <1>2, <3>2, <3>3 DEF WellFormed
    <3>5. \A r \in requests : WellFormed(r)'
      BY <1>2 DEF InOrder, Sane, WellFormed
    <3>6. requests \subseteq Message
      BY DEF InOrder, TypeOK
    <3>7. QED
      BY <3>1, <3>3, <3>4, <3>5, <3>6
  <2>3. QED
    BY <1>1, <2>1, <2>2
<1>4. /\ replies' \subseteq Reply /\ \A a \in replies' : a.id \in 1..commands
      /\ \A a \in replies' : a \in replies \/
            \E x \in replies : a.to = d /\ a.id = x.id /\ a.command = x.command /\ x.to = d
  <2>1. CASE replies' = replies
    BY <2>1 DEF InOrder, TypeOK, Sane
  <2>2. CASE \E x \in replies : x.to = d /\ replies' = replies \cup {[x EXCEPT !.copy = TRUE]}
    <3> PICK x \in replies : x.to = d /\ replies' = replies \cup {[x EXCEPT !.copy = TRUE]}
      BY <2>2
    <3>1. PICK y : y = [x EXCEPT !.copy = TRUE]
      OBVIOUS
    <3>2. x \in Reply /\ x.id \in 1..commands
      BY DEF InOrder, TypeOK, Sane
    <3>3. y \in Reply /\ y.id = x.id /\ y.to = x.to /\ y.command = x.command
      BY <3>1, <3>2 DEF Reply
    <3>4. replies \subseteq Reply /\ \A a \in replies : a.id \in 1..commands
      BY DEF InOrder, TypeOK, Sane
    <3>5. QED
      BY <3>1, <3>2, <3>3, <3>4
  <2>3. QED
    BY <1>1, <2>1, <2>2
<1>5. TypeOK'
  BY <1>1, <1>2, <1>3, <1>4 DEF InOrder, TypeOK
<1>6. Sane'
  <2>1. ASSUME NEW c \in Clients, ~Idle(c)' PROVE Asked(c)'
    <3>1. Asked(c)
      BY <1>2, <2>1 DEF InOrder, Sane, Idle, Nothing
    <3>2. \A r \in requests' : r \in requests
                \/ (r.id = waiting[c].id => r.from = c /\ r.command = waiting[c].command)
      BY <1>3, <3>1 DEF Asked
    <3>3. \A a \in replies' : a \in replies
                \/ (a.id = waiting[c].id => a.to = c /\ a.command = waiting[c].command)
      BY <1>4, <3>1 DEF Asked
    <3>4. QED
      BY <1>2, <3>1, <3>2, <3>3, AskedStays
  <2>2. QED
    BY <1>2, <1>3, <1>4, <2>1 DEF InOrder, Sane
<1>7. ASSUME NEW c \in Clients \ doubt, c # d PROVE InStep(c)'
  <2>1. Own(c)' = Own(c)
    BY <1>2 DEF Own
  <2>2. QED
    BY <1>2, <1>3, <1>4, <1>7, <2>1, InStepStays DEF InOrder
<1>8. QED
  BY <1>1, <1>5, <1>6, <1>7 DEF InOrder

LEMMA DeliverOrder ==
    ASSUME InOrder, Deliver
    PROVE  InOrder'
<1>1. PICK a \in replies : /\ inbox' = [inbox EXCEPT ![a.to] = Append(@, a)]
                           /\ replies' = replies \ {a}
  BY DEF Deliver
<1>2. UNCHANGED <<passwd, loggedIn, session, waiting, requests, commands, copies, doubt, used>>
  BY DEF Deliver, accounts, ghosts
<1>3. a \in Reply /\ a.to \in Clients
  BY DEF InOrder, TypeOK, Reply
<1>4. TypeOK'
  <2>1. Append(inbox[a.to], a) \in Seq(Reply)
    BY <1>3 DEF InOrder, TypeOK
  <2>2. inbox' \in [Clients -> Seq(Reply)]
    BY <1>1, <2>1 DEF InOrder, TypeOK
  <2>3. QED
    BY <1>1, <1>2, <2>2 DEF InOrder, TypeOK
<1>5. Sane'
  <2>1. \A r \in requests' : WellFormed(r)'
    BY <1>2 DEF InOrder, Sane, WellFormed
  <2>2. ASSUME NEW c \in Clients, ~Idle(c)' PROVE Asked(c)'
    <3>1. Asked(c) /\ commands \in Nat
      BY <1>2, <2>2 DEF InOrder, Sane, TypeOK, Idle, Nothing
    <3>2. QED
      BY <1>1, <1>2, <3>1, AskedStays
  <2>3. QED
    BY <1>1, <1>2, <2>1, <2>2 DEF InOrder, Sane
<1>6. ASSUME NEW c \in Clients \ doubt, c # a.to PROVE InStep(c)'
  <2>1. Own(c)' = Own(c) /\ inbox'[c] = inbox[c]
    BY <1>1, <1>2, <1>6 DEF Own, InOrder, TypeOK
  <2>2. QED
    BY <1>1, <1>2, <2>1, InStepStays DEF InOrder
<1>7. ASSUME NEW c \in Clients \ doubt, c = a.to PROVE InStep(c)'
  <2>1. /\ ~Idle(c) /\ Unasked(c) /\ inbox[c] = << >>
        /\ Answers(c, a) /\ \A b \in replies : b.to = c => b = a
    BY <1>7 DEF InOrder, InStep, Unanswered
  <2>2. inbox'[c] = <<a>>
    <3>1. inbox'[c] = Append(<< >>, a)
      BY <1>1, <1>7, <2>1 DEF InOrder, TypeOK
    <3>2. QED
      BY <3>1
  <2>3. ~Idle(c)' /\ Unasked(c)' /\ \A b \in replies' : b.to # c
    BY <1>1, <1>2, <2>1 DEF Idle, Nothing, Unasked
  <2>4. Own(c)' = Own(c)
    BY <1>2 DEF Own
  <2>5. Answers(c, a)'
    BY <1>2, <2>1, <2>4 DEF Answers, Agree
  <2>6. QED
    BY <1>3, <2>2, <2>3, <2>5 DEF InStep, Reply, Commands
<1>8. QED
  BY <1>2, <1>4, <1>5, <1>6, <1>7 DEF InOrder

-----------------------------------------------------------------------------
(***************************************************************************)
(* The client takes a reply, or gives up.                                  *)
(***************************************************************************)
\* What any reply makes of a session is a session, of a user the client used.
LEMMA SessionAfter ==
    ASSUME InOrder, NEW c \in Clients, ~Idle(c), NEW a \in Reply,
           NEW t, t = After(session[c], waiting[c], a)
    PROVE  t \in Session /\ (t.logged_in => t.username \in used[c])
<1>1. PICK s, w : s = session[c] /\ w = waiting[c]
  OBVIOUS
<1>2. /\ w \in Message /\ w.user \in used[c]
      /\ w.command = "LIN" => w.password \in Passwords
      /\ w.command = "CPS" => w.new \in Passwords /\ s.logged_in
      /\ s \in Session /\ (s.logged_in => s.username \in used[c])
  BY <1>1 DEF InOrder, TypeOK, Sane, Asked, WellFormed
<1>3. t = After(s, w, a)
  BY <1>1
<1>4. CASE t = s
  BY <1>2, <1>4
<1>5. CASE w.command = "LIN" /\ t = [logged_in |-> TRUE, username |-> w.user, password |-> w.password]
  BY <1>2, <1>5 DEF Session, Message
<1>6. CASE t = LoggedOut
  BY <1>6 DEF Session, LoggedOut
<1>7. CASE w.command = "CPS" /\ t = [s EXCEPT !.password = w.new]
  <2>1. s \in [logged_in : {TRUE}, username : UIDs, password : Passwords]
    BY <1>2, <1>7, LoggedInSession
  <2>2. t \in [logged_in : {TRUE}, username : UIDs, password : Passwords] /\ t.username = s.username
    BY <1>2, <1>7, <2>1
  <2>3. QED
    BY <1>2, <1>7, <2>2 DEF Session
<1>8. QED
  BY <1>3, <1>4, <1>5, <1>6, <1>7 DEF After

LEMMA TakeOrder ==
    ASSUME InOrder, NEW c \in Clients, ~Idle(c), NEW a \in Reply, Take(c, a),
           replies' \subseteq replies, inbox' \in [Clients -> Seq(Reply)],
           \A d \in Clients \ {c} : inbox'[d] = inbox[d],
           c \notin doubt => Answers(c, a) /\ Unasked(c) /\ Unanswered(c)'
    PROVE  InOrder'
<1>1. PICK t : t = After(session[c], waiting[c], a)
  OBVIOUS
<1>2. /\ session' = [session EXCEPT ![c] = t] /\ waiting' = [waiting EXCEPT ![c] = Nothing]
      /\ UNCHANGED <<passwd, loggedIn, requests, commands, copies, doubt, used>>
  BY <1>1 DEF Take, accounts, ghosts
<1>3. t \in Session /\ (t.logged_in => t.username \in used[c])
  BY <1>1, SessionAfter
<1>4. session'[c] = t /\ waiting'[c] = Nothing
  BY <1>2 DEF InOrder, TypeOK
<1>5. \A d \in Clients \ {c} : session'[d] = session[d] /\ waiting'[d] = waiting[d]
  BY <1>2 DEF InOrder, TypeOK
<1>6. TypeOK'
  <2>1. session' \in [Clients -> Session]
    BY <1>2, <1>3 DEF InOrder, TypeOK
  <2>2. waiting' \in [Clients -> {Nothing} \cup Message]
    BY <1>2 DEF InOrder, TypeOK
  <2>3. QED
    BY <1>2, <2>1, <2>2 DEF InOrder, TypeOK
<1>7. Sane'
  <2>1. \A r \in requests' : WellFormed(r)'
    BY <1>2 DEF InOrder, Sane, WellFormed
  <2>2. ASSUME NEW d \in Clients, ~Idle(d)' PROVE Asked(d)'
    <3>1. d # c
      BY <1>4, <2>2 DEF Idle, Nothing
    <3>2. Asked(d) /\ commands \in Nat
      BY <1>5, <2>2, <3>1 DEF InOrder, Sane, TypeOK, Idle, Nothing
    <3>3. QED
      BY <1>2, <1>5, <3>1, <3>2, AskedStays
  <2>3. \A d \in Clients : session'[d].logged_in => session'[d].username \in used'[d]
    BY <1>2, <1>3, <1>4, <1>5 DEF InOrder, Sane
  <2>4. QED
    BY <1>2, <2>1, <2>2, <2>3 DEF InOrder, Sane
<1>8. ASSUME NEW d \in Clients \ doubt, d # c PROVE InStep(d)'
  <2>1. Own(d)' = Own(d)
    BY <1>2 DEF Own
  <2>2. QED
    BY <1>2, <1>5, <1>8, <2>1, InStepStays DEF InOrder
<1>9. ASSUME c \notin doubt PROVE InStep(c)'
  <2>1. Idle(c)' /\ Unasked(c)' /\ Unanswered(c)'
    BY <1>2, <1>4, <1>9 DEF Idle, Nothing, Unasked
  <2>2. Own(c)' = Own(c)
    BY <1>2 DEF Own
  <2>3. Agree(c, t)
    BY <1>1, <1>9 DEF Answers
  <2>4. Agree(c, session[c])'
    BY <1>2, <1>4, <2>2, <2>3 DEF Agree
  <2>5. QED
    BY <2>1, <2>4 DEF InStep
<1>10. QED
  BY <1>2, <1>6, <1>7, <1>8, <1>9 DEF InOrder

LEMMA ClientOrder ==
    ASSUME InOrder, NEW c \in Clients, ClientStep(c)
    PROVE  InOrder'
<1>1. CASE ReceiveUdp(c)
  <2>1. /\ ~Idle(c) /\ inbox[c] # << >> /\ inbox[c] \in Seq(Reply)
        /\ inbox' = [inbox EXCEPT ![c] = Tail(@)] /\ UNCHANGED replies
    BY <1>1 DEF ReceiveUdp, InOrder, TypeOK
  <2>2. PICK a : a = Head(inbox[c])
    OBVIOUS
  <2>3. a \in Reply /\ Tail(inbox[c]) \in Seq(Reply)
    BY <2>1, <2>2
  <2>4. Take(c, a)
    BY <1>1, <2>2 DEF ReceiveUdp
  <2>5. /\ inbox' \in [Clients -> Seq(Reply)] /\ inbox'[c] = Tail(inbox[c])
        /\ \A d \in Clients \ {c} : inbox'[d] = inbox[d]
    BY <2>1, <2>3 DEF InOrder, TypeOK
  <2>6. ASSUME c \notin doubt PROVE Answers(c, a) /\ Unasked(c) /\ Unanswered(c)'
    <3>1. PICK b \in Reply : inbox[c] = <<b>> /\ Answers(c, b)
      BY <2>1, <2>6 DEF InOrder, InStep, Unanswered
    <3>2. a = b /\ Tail(inbox[c]) = << >>
      BY <2>2, <3>1
    <3>3. Unasked(c) /\ \A x \in replies : x.to # c
      BY <2>1, <2>6 DEF InOrder, InStep, Unanswered
    <3>4. QED
      BY <2>1, <2>5, <3>1, <3>2, <3>3 DEF Unanswered
  <2>7. QED
    BY <2>1, <2>3, <2>4, <2>5, <2>6, TakeOrder
<1>2. CASE ReceiveTcp(c)
  <2>1. PICK a \in replies : /\ a.command = "CPS" /\ a.id = waiting[c].id
                             /\ Take(c, a) /\ replies' = replies \ {a} /\ UNCHANGED inbox
    BY <1>2 DEF ReceiveTcp
  <2>2. a \in Reply /\ a.id \in 1..commands /\ commands \in Nat
    BY DEF InOrder, Sane, TypeOK
  <2>3. ~Idle(c)
    BY <2>1, <2>2 DEF Idle, Nothing
  <2>4. a.to = c
    BY <2>1, <2>3 DEF InOrder, Sane, Asked
  <2>5. inbox' \in [Clients -> Seq(Reply)]
    BY <2>1 DEF InOrder, TypeOK
  <2>6. ASSUME c \notin doubt PROVE Answers(c, a) /\ Unasked(c) /\ Unanswered(c)'
    <3>1. /\ Unasked(c) /\ inbox[c] = << >>
          /\ Answers(c, a) /\ \A b \in replies : b.to = c => b = a
      BY <2>3, <2>4, <2>6 DEF InOrder, InStep, Unanswered
    <3>2. QED
      BY <2>1, <3>1 DEF Unanswered
  <2>7. QED
    BY <2>1, <2>2, <2>3, <2>5, <2>6, TakeOrder
<1>3. CASE TimesOut(c)
  <2>1. /\ waiting' = [waiting EXCEPT ![c] = Nothing] /\ doubt' = doubt \cup {c}
        /\ UNCHANGED <<passwd, loggedIn, session, requests, replies, inbox, commands, copies, used>>
    BY <1>3 DEF TimesOut, accounts, network
  <2>2. waiting'[c] = Nothing /\ \A d \in Clients \ {c} : waiting'[d] = waiting[d]
    BY <2>1 DEF InOrder, TypeOK
  <2>3. TypeOK'
    <3>1. waiting' \in [Clients -> {Nothing} \cup Message]
      BY <2>1 DEF InOrder, TypeOK
    <3>2. QED
      BY <2>1, <3>1 DEF InOrder, TypeOK
  <2>4. Sane'
    <3>1. \A r \in requests' : WellFormed(r)'
      BY <2>1 DEF InOrder, Sane, WellFormed
    <3>2. ASSUME NEW d \in Clients, ~Idle(d)' PROVE Asked(d)'
      <4>1. d # c /\ Asked(d) /\ commands \in Nat
        BY <2>2, <3>2 DEF InOrder, Sane, TypeOK, Idle, Nothing
      <4>2. QED
        BY <2>1, <2>2, <4>1, AskedStays
    <3>3. QED
      BY <2>1, <3>1, <3>2 DEF InOrder, Sane
  <2>5. ASSUME NEW d \in Clients \ doubt, d # c PROVE InStep(d)'
    <3>1. Own(d)' = Own(d)
      BY <2>1 DEF Own
    <3>2. QED
      BY <2>1, <2>2, <2>5, <3>1, InStepStays DEF InOrder
  <2>6. QED
    BY <2>1, <2>3, <2>4, <2>5 DEF InOrder
<1>4. QED
  BY <1>1, <1>2, <1>3 DEF ClientStep

-----------------------------------------------------------------------------
LEMMA StepOrder == InOrder /\ [Next]_vars => InOrder'
<1> SUFFICES ASSUME InOrder, [Next]_vars PROVE InOrder'
  OBVIOUS
<1>1. CASE \E c \in Clients : UserStep(c) \/ ClientStep(c)
  BY <1>1, UserOrder, ClientOrder
<1>2. CASE \E r \in requests : Serve(r)
  BY <1>2, ServeOrder
<1>3. CASE Lose \/ Duplicate \/ Deliver
  BY <1>3, LoseOrder, DuplicateOrder, DeliverOrder
<1>4. CASE UNCHANGED vars
  <2>1. UNCHANGED <<passwd, loggedIn, session, waiting, requests, replies, inbox, commands, copies, doubt, used>>
    BY <1>4 DEF vars, accounts, network, ghosts
  <2>2. TypeOK'
    BY <2>1 DEF InOrder, TypeOK
  <2>3. \A c \in Clients : Asked(c) => Asked(c)'
    BY <2>1 DEF Asked, WellFormed
  <2>4. Sane'
    BY <2>1, <2>3 DEF InOrder, Sane, Idle, Nothing, WellFormed
  <2>5. ASSUME NEW c \in Clients \ doubt PROVE InStep(c)'
    <3>1. Own(c)' = Own(c)
      BY <2>1 DEF Own
    <3>2. QED
      BY <2>1, <3>1, InStepStays DEF InOrder
  <2>6. QED
    BY <2>1, <2>2, <2>4, <2>5 DEF InOrder
<1>5. QED
  BY <1>1, <1>2, <1>3, <1>4 DEF Next

LEMMA AlwaysInOrder == Spec => []InOrder
BY InitOrder, StepOrder, PTL DEF Spec

\* A session that has logged_in set has a well-formed user and password: no reply,
\* late, lost or duplicated, makes ClientState half a session.
THEOREM SessionsKeepTheirShape == Spec => []TypeOK
<1>1. InOrder => TypeOK
  BY DEF InOrder
<1>2. QED
  BY <1>1, AlwaysInOrder, PTL

\* Between two commands, ClientState and the server's files agree on every user
\* that is this client's alone, for a client all of whose commands were answered
\* and none of whose datagrams the network duplicated.
THEOREM ClientsAndServerAgree == Spec => []SessionsAgree
<1>1. InOrder => SessionsAgree
  <2> SUFFICES ASSUME InOrder, NEW c \in Clients \ doubt, Idle(c)
               PROVE  Agree(c, session[c])
    BY DEF SessionsAgree, Agree
  <2>1. QED
    BY DEF InOrder, InStep
<1>2. QED
  BY <1>1, AlwaysInOrder, PTL

\* Without numbers in the datagrams, a client whose commands were all answered, and
\* whose datagrams the network did not duplicate, still takes each reply for the
\* command it answers (client/udp.cpp, send_command_udp).
THEOREM NoReplyIsLateByOne == Spec => RepliesInStep
<1>1. InOrder /\ [Next]_vars
        => [\A c \in Clients \ doubt : ReceiveUdp(c) => Head(inbox[c]).id = waiting[c].id]_vars
  <2> SUFFICES ASSUME InOrder, NEW c \in Clients \ doubt, ReceiveUdp(c)
               PROVE  Head(inbox[c]).id = waiting[c].id
    OBVIOUS
  <2>1. PICK a \in Reply : inbox[c] = <<a>> /\ Answers(c, a)
    BY DEF InOrder, InStep, Unanswered, ReceiveUdp
  <2>2. QED
    BY <2>1 DEF Answers
<1>2. QED
  BY <1>1, AlwaysInOrder, PTL DEF Spec, RepliesInStep

=============================================================================
