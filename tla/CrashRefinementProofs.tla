----------------------- MODULE CrashRefinementProofs ------------------------
(***************************************************************************)
(* CrashStore implements EventStore as long as no handler is cut short:    *)
(* what the readers make of the tree after all file operations of a        *)
(* handler is what EventStore's action for it says.  And what the server   *)
(* has answered for stays, also where a handler is cut short.              *)
(***************************************************************************)
EXTENDS CrashStoreProofs

-----------------------------------------------------------------------------
(***************************************************************************)
(* What the readers make of trees that agree where they look.              *)
(***************************************************************************)
LEMMA SameAccountsRead ==
    ASSUME NEW f, NEW g, SameAccounts(f, g)
    PROVE  Accounts(f) = Accounts(g) /\ LoggedIn(f) = LoggedIn(g)
<1>1. \A u \in UIDs : /\ password_path(u) \in DOMAIN f <=> password_path(u) \in DOMAIN g
                      /\ password_path(u) \in DOMAIN f => f[password_path(u)] = g[password_path(u)]
                      /\ logged_in_path(u) \in DOMAIN f <=> logged_in_path(u) \in DOMAIN g
  BY DEF SameAccounts, SameAt
<1> DEFINE S == {v \in UIDs : password_path(v) \in DOMAIN f}
<1>2. S = {v \in UIDs : password_path(v) \in DOMAIN g}
  BY <1>1
<1>3. \A u \in S : f[password_path(u)] = g[password_path(u)]
  BY <1>1
<1>4. Accounts(f) = Accounts(g)
  BY <1>2, <1>3 DEF Accounts
<1>5. LoggedIn(f) = LoggedIn(g)
  BY <1>1 DEF LoggedIn
<1>6. QED
  BY <1>4, <1>5

LEMMA SameListsRead ==
    ASSUME NEW f, NEW g, \A e \in EIDs : SameLists(f, g, e)
    PROVE  UserEvents(f) = UserEvents(g)
<1>1. \A u \in UIDs, e \in EIDs : user_event_path(u, e) \in DOMAIN f <=> user_event_path(u, e) \in DOMAIN g
  BY DEF SameLists, SameAt
<1>2. \A u \in UIDs : {e \in EIDs : user_event_path(u, e) \in DOMAIN f}
                         = {e \in EIDs : user_event_path(u, e) \in DOMAIN g}
  BY <1>1
<1>3. QED
  BY <1>2 DEF UserEvents

LEMMA SameBookingsRead ==
    ASSUME NEW f, NEW g, \A e \in EIDs : SameBookings(f, g, e)
    PROVE  UserRes(f) = UserRes(g)
<1>1. \A u \in UIDs, t \in Times, e \in EIDs :
         Content(f, user_res_path(u, t, e), << >>) = Content(g, user_res_path(u, t, e), << >>)
  BY SameContent DEF SameBookings
<1>2. \A u \in UIDs : [k \in Times \X EIDs |-> Content(f, user_res_path(u, k[1], k[2]), << >>)]
                         = [k \in Times \X EIDs |-> Content(g, user_res_path(u, k[1], k[2]), << >>)]
  BY <1>1
<1>3. QED
  BY <1>2 DEF UserRes

LEMMA SameCount ==
    ASSUME NEW f, NEW g, SameAt(f, g, event_count_path)
    PROVE  LastEvent(f) = LastEvent(g)
BY SameContent DEF LastEvent

LEMMA SameEventsRead ==
    ASSUME NEW f, NEW g, \A e \in EIDs : SameEvent(f, g, e)
    PROVE  Events(f) = Events(g)
<1>1. \A e \in EIDs : /\ EventRecord(f, e) = EventRecord(g, e)
                      /\ event_dir(e) \in DOMAIN f <=> event_dir(e) \in DOMAIN g
  BY SameRecord
<1> DEFINE S == {e \in EIDs : event_dir(e) \in DOMAIN f}
<1>2. S = {e \in EIDs : event_dir(e) \in DOMAIN g}
  BY <1>1
<1>3. \A e \in S : EventRecord(f, e) = EventRecord(g, e)
  BY <1>1
<1>4. QED
  BY <1>2, <1>3 DEF Events

\* Trees that differ in no path about an event and not in the counter.
LEMMA OnlyAccounts ==
    ASSUME NEW f, NEW g, \A x \in Paths : x[1] \notin {"passwd", "logged_in"} => SameAt(f, g, x)
    PROVE  /\ UserEvents(f) = UserEvents(g) /\ UserRes(f) = UserRes(g)
           /\ LastEvent(f) = LastEvent(g) /\ Events(f) = Events(g)
<1>1. \A e \in EIDs : SameEvent(f, g, e)
  BY DEF SameEvent, InEventDir
<1>2. \A e \in EIDs : SameLists(f, g, e) /\ SameBookings(f, g, e)
  <2> SUFFICES ASSUME NEW e \in EIDs
               PROVE  SameLists(f, g, e) /\ SameBookings(f, g, e)
    OBVIOUS
  <2>1. SameLists(f, g, e)
    BY PathsOfEvents, FirstParts DEF SameLists
  <2>2. SameBookings(f, g, e)
    BY PathsOfEvents, FirstParts DEF SameBookings
  <2>3. QED
    BY <2>1, <2>2
<1>3. SameAt(f, g, event_count_path)
  BY PathsOfUsers, FirstParts
<1>4. QED
  BY <1>1, <1>2, <1>3, SameEventsRead, SameListsRead, SameBookingsRead, SameCount

-----------------------------------------------------------------------------
(***************************************************************************)
(* Accounts.                                                               *)
(***************************************************************************)
LEMMA PasswordWritten ==
    ASSUME NEW f, NEW g, NEW u \in UIDs, NEW p, p # Gone, LeftAt(g, password_path(u), p),
           \A v \in UIDs : v # u => SameAt(f, g, password_path(v))
    PROVE  /\ Accounts(g) = Store!Put(Accounts(f), u, p)
           /\ u \in DOMAIN Accounts(f) => Accounts(g) = [Accounts(f) EXCEPT ![u] = p]
<1>1. password_path(u) \in DOMAIN g /\ g[password_path(u)] = p
  BY DEF LeftAt
<1>2. \A v \in UIDs : v # u => /\ password_path(v) \in DOMAIN f <=> password_path(v) \in DOMAIN g
                               /\ password_path(v) \in DOMAIN f => f[password_path(v)] = g[password_path(v)]
  BY DEF SameAt
<1>3. DOMAIN Accounts(g) = DOMAIN Accounts(f) \cup {u}
  BY <1>1, <1>2 DEF Accounts
<1>4. \A v \in DOMAIN Accounts(g) : Accounts(g)[v] = IF v = u THEN p ELSE Accounts(f)[v]
  BY <1>1, <1>2 DEF Accounts
<1>5. Accounts(g) = [v \in DOMAIN Accounts(g) |-> Accounts(g)[v]]
  BY DEF Accounts
<1>6. Accounts(f) = [v \in DOMAIN Accounts(f) |-> Accounts(f)[v]]
  BY DEF Accounts
<1>7. Accounts(g) = Store!Put(Accounts(f), u, p)
  BY <1>3, <1>4, <1>5 DEF Store!Put
<1>8. ASSUME u \in DOMAIN Accounts(f)
      PROVE  Accounts(g) = [Accounts(f) EXCEPT ![u] = p]
  BY <1>3, <1>4, <1>5, <1>6, <1>8
<1>9. QED
  BY <1>7, <1>8

LEMMA AccountsOnlyPasswords ==
    ASSUME NEW f, NEW g, NEW u \in UIDs, SameAt(f, g, password_path(u)),
           \A v \in UIDs : v # u => SameAt(f, g, password_path(v))
    PROVE  Accounts(g) = Accounts(f)
<1>1. \A v \in UIDs : /\ password_path(v) \in DOMAIN f <=> password_path(v) \in DOMAIN g
                      /\ password_path(v) \in DOMAIN f => f[password_path(v)] = g[password_path(v)]
  BY DEF SameAt
<1>2. DOMAIN Accounts(g) = DOMAIN Accounts(f)
  BY <1>1 DEF Accounts
<1>3. \A v \in DOMAIN Accounts(g) : Accounts(g)[v] = Accounts(f)[v]
  BY <1>1 DEF Accounts
<1>4. /\ Accounts(g) = [v \in DOMAIN Accounts(g) |-> Accounts(g)[v]]
      /\ Accounts(f) = [v \in DOMAIN Accounts(f) |-> Accounts(f)[v]]
  BY DEF Accounts
<1>5. QED
  BY <1>2, <1>3, <1>4

LEMMA PasswordRemoved ==
    ASSUME NEW f, NEW g, NEW u \in UIDs, password_path(u) \notin DOMAIN g,
           \A v \in UIDs : v # u => SameAt(f, g, password_path(v))
    PROVE  Accounts(g) = Store!Without(Accounts(f), u)
<1>1. \A v \in UIDs : v # u => /\ password_path(v) \in DOMAIN f <=> password_path(v) \in DOMAIN g
                               /\ password_path(v) \in DOMAIN f => f[password_path(v)] = g[password_path(v)]
  BY DEF SameAt
<1>2. DOMAIN Accounts(g) = DOMAIN Accounts(f) \ {u}
  BY <1>1 DEF Accounts
<1>3. \A v \in DOMAIN Accounts(g) : Accounts(g)[v] = Accounts(f)[v]
  BY <1>1 DEF Accounts
<1>4. Accounts(g) = [v \in DOMAIN Accounts(g) |-> Accounts(g)[v]]
  BY DEF Accounts
<1>5. QED
  BY <1>2, <1>3, <1>4 DEF Store!Without, Store!Restrict

LEMMA LoginWritten ==
    ASSUME NEW f, NEW g, NEW u \in UIDs, \A v \in UIDs : v # u => SameAt(f, g, logged_in_path(v))
    PROVE  /\ logged_in_path(u) \in DOMAIN g => LoggedIn(g) = LoggedIn(f) \cup {u}
           /\ logged_in_path(u) \notin DOMAIN g => LoggedIn(g) = LoggedIn(f) \ {u}
BY DEF SameAt, LoggedIn

\* Operations on the files of user u leave all others.
LEMMA OneUser ==
    ASSUME NEW f, NEW u \in UIDs, NEW ops, Len(ops) \in Nat,
           \A i \in 1..Len(ops) : ops[i].path \in {password_path(u), logged_in_path(u)}
    PROVE  LET g == ApplyAll(f, ops)
           IN  /\ \A x : x \notin {password_path(u), logged_in_path(u)} => SameAt(f, g, x)
               /\ \A v \in UIDs : v # u => /\ SameAt(f, g, password_path(v))
                                           /\ SameAt(f, g, logged_in_path(v))
               /\ UserEvents(f) = UserEvents(g) /\ UserRes(f) = UserRes(g)
               /\ LastEvent(f) = LastEvent(g) /\ Events(f) = Events(g)
<1> DEFINE g == ApplyAll(f, ops)
<1>1. ASSUME NEW x, x \notin {password_path(u), logged_in_path(u)}
      PROVE  SameAt(f, g, x)
  <2>1. \A i \in 1..Len(ops) : ~Concerns(ops[i], x)
    BY <1>1, FirstParts DEF Concerns
  <2>2. QED
    BY <2>1, Untouched DEF ApplyAll
<1>2. ASSUME NEW v \in UIDs, v # u
      PROVE  SameAt(f, g, password_path(v)) /\ SameAt(f, g, logged_in_path(v))
  <2>1. password_path(v)[2] # password_path(u)[2] /\ logged_in_path(v)[2] # logged_in_path(u)[2]
    BY <1>2, OtherParts
  <2>2. password_path(v)[1] # logged_in_path(u)[1] /\ logged_in_path(v)[1] # password_path(u)[1]
    BY FirstParts
  <2>3. QED
    BY <1>1, <2>1, <2>2
<1> HIDE DEF g
<1>3. \A x \in Paths : x[1] \notin {"passwd", "logged_in"} => SameAt(f, g, x)
  BY <1>1, FirstParts
<1>4. /\ UserEvents(f) = UserEvents(g) /\ UserRes(f) = UserRes(g)
      /\ LastEvent(f) = LastEvent(g) /\ Events(f) = Events(g)
  BY <1>3, OnlyAccounts
<1>5. QED
  BY <1>1, <1>2, <1>4 DEF g

\* What the last operation leaves, if none or one comes before it.
LEMMA OneOperation ==
    ASSUME NEW f, NEW op, NEW x
    PROVE  LET g == ApplyAll(f, <<op>>)
           IN  IF Concerns(op, x) THEN LeftAt(g, x, op.content) ELSE SameAt(f, g, x)
<1> DEFINE ops == <<op>>
<1>1. Len(ops) = 1 /\ ops[1] = op /\ 1 \in 1..1 /\ 1 \in Nat /\ \A j \in 1..1 : j = 1 /\ ~(j > 1)
  OBVIOUS
<1> HIDE DEF ops
<1>2. ApplyAll(f, ops) = Tree(f, ops, 1)
  BY <1>1 DEF ApplyAll
<1>3. CASE Concerns(op, x)
  <2>1. LeftAt(Tree(f, ops, 1), x, ops[1].content)
    BY <1>1, <1>3, LastLeft
  <2>2. QED
    BY <1>1, <1>2, <1>3, <2>1 DEF ops
<1>4. CASE ~Concerns(op, x)
  <2>1. SameAt(f, Tree(f, ops, 1), x)
    BY <1>1, <1>4, Untouched
  <2>2. QED
    BY <1>2, <1>4, <2>1 DEF ops
<1>5. QED
  BY <1>3, <1>4

LEMMA TwoOperations ==
    ASSUME NEW f, NEW o1, NEW o2, NEW x
    PROVE  LET g == ApplyAll(f, <<o1, o2>>)
           IN  IF Concerns(o2, x) THEN LeftAt(g, x, o2.content)
               ELSE IF Concerns(o1, x) THEN LeftAt(g, x, o1.content)
               ELSE SameAt(f, g, x)
<1> DEFINE ops == <<o1, o2>>
<1>1. /\ Len(ops) = 2 /\ ops[1] = o1 /\ ops[2] = o2 /\ 1 \in 1..2 /\ 2 \in 1..2 /\ 2 \in Nat
      /\ \A j \in 1..2 : (j = 1 \/ j = 2) /\ ~(j > 2) /\ (j > 1 => j = 2)
  OBVIOUS
<1> HIDE DEF ops
<1>2. ApplyAll(f, ops) = Tree(f, ops, 2)
  BY <1>1 DEF ApplyAll
<1>3. CASE Concerns(o2, x)
  <2>1. LeftAt(Tree(f, ops, 2), x, ops[2].content)
    BY <1>1, <1>3, LastLeft
  <2>2. QED
    BY <1>1, <1>2, <1>3, <2>1 DEF ops
<1>4. CASE ~Concerns(o2, x) /\ Concerns(o1, x)
  <2>1. LeftAt(Tree(f, ops, 2), x, ops[1].content)
    BY <1>1, <1>4, LastLeft
  <2>2. QED
    BY <1>1, <1>2, <1>4, <2>1 DEF ops
<1>5. CASE ~Concerns(o2, x) /\ ~Concerns(o1, x)
  <2>1. SameAt(f, Tree(f, ops, 2), x)
    BY <1>1, <1>5, Untouched
  <2>2. QED
    BY <1>2, <1>5, <2>1 DEF ops
<1>6. QED
  BY <1>3, <1>4, <1>5

\* create_user leaves a password and a login.
LEMMA Registered ==
    ASSUME NEW f, NEW u \in UIDs, NEW p \in Passwords
    PROVE  LET g == ApplyAll(f, create_user(u, p))
           IN  LeftAt(g, password_path(u), p) /\ LeftAt(g, logged_in_path(u), Empty)
<1> DEFINE ops == create_user(u, p)
           x == password_path(u)
           y == logged_in_path(u)
<1>1. p # Gone /\ Empty # Gone /\ x # y
  BY MarkersApart, FirstParts
<1>2. Len(ops) = 3 /\ ops[1] = put(x, Empty) /\ ops[2] = put(x, p) /\ ops[3] = put(y, Empty)
  BY DEF create_user
<1> HIDE DEF ops, x, y
<1>3. /\ Concerns(ops[2], x) /\ ops[2].content = p /\ Concerns(ops[3], y) /\ ops[3].content = Empty
      /\ ~Concerns(ops[3], x)
  BY <1>1, <1>2, ConcernsPut, PutParts
<1>4. \A j \in 1..3 : (j > 2 => j = 3) /\ ~(j > 3)
  OBVIOUS
<1>5. 2 \in 1..3 /\ 3 \in 1..3 /\ 3 \in Nat
  OBVIOUS
<1>6. LeftAt(Tree(f, ops, 3), x, p) /\ LeftAt(Tree(f, ops, 3), y, Empty)
  BY <1>3, <1>4, <1>5, LastLeft
<1>7. QED
  BY <1>2, <1>6 DEF ApplyAll, ops, x, y

-----------------------------------------------------------------------------
(***************************************************************************)
(* The account handlers are EventStore's.                                  *)
(***************************************************************************)
\* After the handler's operations, as EventStore's variables have it.
LEMMA AfterAccounts ==
    ASSUME IInv, Idle, NEW u \in UIDs, NEW ops, Begin(ops), UNCHANGED uploads,
           Len(ops) \in Nat, \A i \in 1..Len(ops) : ops[i].path \in {password_path(u), logged_in_path(u)}
    PROVE  LET g == ApplyAll(files, ops)
           IN  /\ passwd = Accounts(files) /\ passwd' = Accounts(g)
               /\ loggedIn = LoggedIn(files) /\ loggedIn' = LoggedIn(g)
               /\ UNCHANGED <<userEvents, userRes, lastEvent, event, uploads, now>>
               /\ \A v \in UIDs : v # u => /\ SameAt(files, g, password_path(v))
                                           /\ SameAt(files, g, logged_in_path(v))
<1> DEFINE g == ApplyAll(files, ops)
<1>1. Sees(files)
  BY Found DEF Idle
<1>2. SeesNext(g) /\ now' = now
  BY DEF Begin
<1>3. /\ UserEvents(files) = UserEvents(g) /\ UserRes(files) = UserRes(g)
      /\ LastEvent(files) = LastEvent(g) /\ Events(files) = Events(g)
      /\ \A v \in UIDs : v # u => /\ SameAt(files, g, password_path(v))
                                  /\ SameAt(files, g, logged_in_path(v))
  BY OneUser
<1> HIDE DEF g
<1>4. QED
  BY <1>1, <1>2, <1>3 DEF Sees, SeesNext, g

LEMMA LoginImplements ==
    ASSUME IInv, Idle, NEW u \in UIDs, NEW p \in Passwords, Login(u, p)
    PROVE  Store!Login(u, p)
<1> DEFINE x == password_path(u)
           y == logged_in_path(u)
<1>1. UNCHANGED uploads /\ Empty # Gone /\ p # Gone
  BY MarkersApart DEF Login
<1>2. CASE ~Store!does_user_exist(u) /\ Begin(create_user(u, p))
  <2> DEFINE ops == create_user(u, p)
             g == ApplyAll(files, ops)
  <2>1. Len(ops) \in Nat /\ \A i \in 1..Len(ops) : ops[i].path \in {x, y}
    <3>1. \A i \in 1..3 : i = 1 \/ i = 2 \/ i = 3
      OBVIOUS
    <3>2. QED
      BY <3>1, PutParts DEF create_user
  <2>2. LeftAt(g, x, p) /\ LeftAt(g, y, Empty)
    BY Registered
  <2>3. Begin(ops)
    BY <1>2
  <2> HIDE DEF ops
  <2>4. /\ passwd = Accounts(files) /\ passwd' = Accounts(g)
        /\ loggedIn = LoggedIn(files) /\ loggedIn' = LoggedIn(g)
        /\ UNCHANGED <<userEvents, userRes, lastEvent, event, uploads, now>>
        /\ \A v \in UIDs : v # u => /\ SameAt(files, g, password_path(v))
                                    /\ SameAt(files, g, logged_in_path(v))
    BY <1>1, <2>1, <2>3, AfterAccounts
  <2> HIDE DEF g
  <2>5. passwd' = Store!Put(passwd, u, p)
    <3>1. \A v \in UIDs : v # u => SameAt(files, g, password_path(v))
      BY <2>4
    <3>2. Accounts(g) = Store!Put(Accounts(files), u, p)
      <4>1. p # Gone /\ LeftAt(g, password_path(u), p)
        BY <1>1, <2>2
      <4>2. QED
        BY <3>1, <4>1, PasswordWritten
    <3>3. QED
      BY <2>4, <3>2
  <2>6. loggedIn' = loggedIn \cup {u}
    BY <1>1, <2>2, <2>4, LoginWritten DEF LeftAt
  <2>7. QED
    BY <1>2, <2>4, <2>5, <2>6 DEF Store!Login
<1>3. CASE Store!check_password(u, p) /\ Begin(<<put(y, Empty)>>)
  <2> DEFINE op == put(y, Empty)
             ops == <<op>>
             g == ApplyAll(files, ops)
  <2>1. Len(ops) \in Nat /\ \A i \in 1..Len(ops) : ops[i].path \in {x, y}
    BY PutParts
  <2>2. SameAt(files, g, x) /\ LeftAt(g, y, Empty)
    <3>1. Concerns(op, y) /\ ~Concerns(op, x) /\ op.content = Empty
      BY <1>1, ConcernsPut, PutParts, FirstParts
    <3> HIDE DEF op
    <3>2. QED
      BY <3>1, OneOperation
  <2>3. Begin(ops)
    BY <1>3
  <2> HIDE DEF ops
  <2>4. /\ passwd = Accounts(files) /\ passwd' = Accounts(g)
        /\ loggedIn = LoggedIn(files) /\ loggedIn' = LoggedIn(g)
        /\ UNCHANGED <<userEvents, userRes, lastEvent, event, uploads, now>>
        /\ \A v \in UIDs : v # u => /\ SameAt(files, g, password_path(v))
                                    /\ SameAt(files, g, logged_in_path(v))
    BY <1>1, <2>1, <2>3, AfterAccounts
  <2> HIDE DEF g
  <2>5. passwd' = passwd
    BY <2>2, <2>4, AccountsOnlyPasswords
  <2>6. loggedIn' = loggedIn \cup {u}
    BY <1>1, <2>2, <2>4, LoginWritten DEF LeftAt
  <2>7. QED
    BY <1>3, <2>4, <2>5, <2>6 DEF Store!Login
<1>4. QED
  BY <1>2, <1>3 DEF Login

LEMMA LogoutImplements ==
    ASSUME IInv, Idle, NEW u \in UIDs, NEW p \in Passwords, Logout(u, p)
    PROVE  Store!Logout(u, p)
<1> DEFINE x == password_path(u)
           y == logged_in_path(u)
           op == remove(y)
           ops == <<op>>
           g == ApplyAll(files, ops)
<1>1. UNCHANGED uploads /\ Begin(ops) /\ Store!logout_user(u, p) = "OK"
  BY DEF Logout
<1>2. Len(ops) \in Nat /\ \A i \in 1..Len(ops) : ops[i].path \in {x, y}
  BY PutParts
<1>3. SameAt(files, g, x) /\ LeftAt(g, y, Gone)
  <2>1. Concerns(op, y) /\ ~Concerns(op, x) /\ op.content = Gone
    <3>1. y[1] # "dir" /\ x # y
      BY FirstParts
    <3> HIDE DEF x, y
    <3>2. QED
      BY <3>1, ConcernsRemove, PutParts
  <2> HIDE DEF op
  <2>2. QED
    BY <2>1, OneOperation
<1> HIDE DEF ops
<1>4. /\ passwd = Accounts(files) /\ passwd' = Accounts(g)
      /\ loggedIn = LoggedIn(files) /\ loggedIn' = LoggedIn(g)
      /\ UNCHANGED <<userEvents, userRes, lastEvent, event, uploads, now>>
      /\ \A v \in UIDs : v # u => /\ SameAt(files, g, password_path(v))
                                  /\ SameAt(files, g, logged_in_path(v))
  BY <1>1, <1>2, AfterAccounts
<1> HIDE DEF g
<1>5. passwd' = passwd
  BY <1>3, <1>4, AccountsOnlyPasswords
<1>6. loggedIn' = loggedIn \ {u}
  BY <1>3, <1>4, LoginWritten DEF LeftAt
<1>7. QED
  BY <1>1, <1>4, <1>5, <1>6 DEF Store!Logout

LEMMA UnregisterImplements ==
    ASSUME IInv, Idle, NEW u \in UIDs, NEW p \in Passwords, Unregister(u, p)
    PROVE  Store!Unregister(u, p)
<1> DEFINE x == password_path(u)
           y == logged_in_path(u)
           o1 == remove(y)
           o2 == remove(x)
           ops == <<o1, o2>>
           g == ApplyAll(files, ops)
<1>1. UNCHANGED uploads /\ Begin(ops) /\ Store!logout_user(u, p) = "OK"
  BY DEF Unregister, unregister
<1>2. Len(ops) \in Nat /\ \A i \in 1..Len(ops) : ops[i].path \in {x, y}
  <2>1. \A i \in 1..2 : i = 1 \/ i = 2
    OBVIOUS
  <2>2. QED
    BY <2>1, PutParts
<1>3. LeftAt(g, x, Gone) /\ LeftAt(g, y, Gone)
  <2>1. Concerns(o1, y) /\ Concerns(o2, x) /\ ~Concerns(o2, y) /\ o1.content = Gone /\ o2.content = Gone
    <3>1. x[1] # "dir" /\ y[1] # "dir" /\ x # y
      BY FirstParts
    <3> HIDE DEF x, y
    <3>2. QED
      BY <3>1, ConcernsRemove, PutParts
  <2> HIDE DEF o1, o2
  <2>2. QED
    BY <2>1, TwoOperations
<1> HIDE DEF ops
<1>4. /\ passwd = Accounts(files) /\ passwd' = Accounts(g)
      /\ loggedIn = LoggedIn(files) /\ loggedIn' = LoggedIn(g)
      /\ UNCHANGED <<userEvents, userRes, lastEvent, event, uploads, now>>
      /\ \A v \in UIDs : v # u => /\ SameAt(files, g, password_path(v))
                                  /\ SameAt(files, g, logged_in_path(v))
  BY <1>1, <1>2, AfterAccounts
<1> HIDE DEF g
<1>5. passwd' = Store!Without(passwd, u)
  BY <1>3, <1>4, PasswordRemoved DEF LeftAt
<1>6. loggedIn' = loggedIn \ {u}
  BY <1>3, <1>4, LoginWritten DEF LeftAt
<1>7. QED
  BY <1>1, <1>4, <1>5, <1>6 DEF Store!Unregister

LEMMA ChangePassImplements ==
    ASSUME IInv, Idle, NEW u \in UIDs, NEW old \in Passwords, NEW new \in Passwords,
           ChangePass(u, old, new)
    PROVE  Store!ChangePass(u, old, new)
<1> DEFINE x == password_path(u)
           y == logged_in_path(u)
           o1 == put(x, Empty)
           o2 == put(x, new)
           ops == <<o1, o2>>
           g == ApplyAll(files, ops)
<1>1. UNCHANGED uploads /\ Begin(ops) /\ Store!changePass(u, old) = "OK"
  BY DEF ChangePass
<1>2. Len(ops) \in Nat /\ \A i \in 1..Len(ops) : ops[i].path \in {x, y}
  <2>1. \A i \in 1..2 : i = 1 \/ i = 2
    OBVIOUS
  <2>2. QED
    BY <2>1, PutParts
<1>3. new # Gone /\ LeftAt(g, x, new) /\ SameAt(files, g, y)
  <2>1. /\ new # Gone /\ Empty # Gone
        /\ Concerns(o2, x) /\ ~Concerns(o2, y) /\ ~Concerns(o1, y) /\ o2.content = new
    BY ConcernsPut, PutParts, FirstParts, MarkersApart
  <2> HIDE DEF o1, o2
  <2>2. QED
    BY <2>1, TwoOperations
<1> HIDE DEF ops
<1>4. /\ passwd = Accounts(files) /\ passwd' = Accounts(g)
      /\ loggedIn = LoggedIn(files) /\ loggedIn' = LoggedIn(g)
      /\ UNCHANGED <<userEvents, userRes, lastEvent, event, uploads, now>>
      /\ \A v \in UIDs : v # u => /\ SameAt(files, g, password_path(v))
                                  /\ SameAt(files, g, logged_in_path(v))
  BY <1>1, <1>2, AfterAccounts
<1> HIDE DEF g
<1>5. u \in DOMAIN passwd
  BY <1>1 DEF Store!changePass, Store!does_user_exist
<1>6. passwd' = [passwd EXCEPT ![u] = new]
  BY <1>3, <1>4, <1>5, PasswordWritten
<1>7. loggedIn' = loggedIn
  <2>1. \A v \in UIDs : SameAt(files, g, logged_in_path(v))
    BY <1>3, <1>4
  <2>2. QED
    BY <1>4, <2>1 DEF LoggedIn, SameAt
<1>8. QED
  BY <1>1, <1>4, <1>6, <1>7 DEF Store!ChangePass

LEMMA AccountsImplement ==
    ASSUME IInv, Idle, NEW u \in UIDs, NEW p \in Passwords,
           \/ Login(u, p) \/ Logout(u, p) \/ Unregister(u, p)
           \/ \E new \in Passwords : ChangePass(u, p, new)
    PROVE  Store!Next
<1>1. Store!AccountStep
  BY LoginImplements, LogoutImplements, UnregisterImplements, ChangePassImplements DEF Store!AccountStep
<1>2. QED
  BY <1>1 DEF Store!Next
-----------------------------------------------------------------------------
(***************************************************************************)
(* One event.                                                              *)
(***************************************************************************)
LEMMA EventChanged ==
    ASSUME NEW f, NEW g, NEW e \in EIDs, \A n \in EIDs : n # e => SameEvent(f, g, n)
    PROVE  /\ event_dir(e) \in DOMAIN f /\ event_dir(e) \in DOMAIN g
                 => Events(g) = [Events(f) EXCEPT ![e] = EventRecord(g, e)]
           /\ event_dir(e) \in DOMAIN g => Events(g) = Store!Put(Events(f), e, EventRecord(g, e))
           /\ event_dir(e) \notin DOMAIN g => Events(g) = Store!Without(Events(f), e)
           /\ event_dir(e) \notin DOMAIN f /\ event_dir(e) \notin DOMAIN g => Events(g) = Events(f)
<1>1. \A n \in EIDs : n # e => /\ EventRecord(f, n) = EventRecord(g, n)
                               /\ event_dir(n) \in DOMAIN f <=> event_dir(n) \in DOMAIN g
  BY SameRecord
<1>2. /\ DOMAIN Events(f) = {n \in EIDs : event_dir(n) \in DOMAIN f}
      /\ DOMAIN Events(g) = {n \in EIDs : event_dir(n) \in DOMAIN g}
      /\ \A n \in DOMAIN Events(f) : Events(f)[n] = EventRecord(f, n)
      /\ \A n \in DOMAIN Events(g) : Events(g)[n] = EventRecord(g, n)
      /\ Events(f) = [n \in DOMAIN Events(f) |-> Events(f)[n]]
      /\ Events(g) = [n \in DOMAIN Events(g) |-> Events(g)[n]]
  BY DEF Events
<1>3. \A n \in DOMAIN Events(g) : n # e => n \in DOMAIN Events(f) /\ Events(g)[n] = Events(f)[n]
  BY <1>1, <1>2
<1>4. \A n \in DOMAIN Events(f) : n # e => n \in DOMAIN Events(g)
  BY <1>1, <1>2
<1>5. ASSUME event_dir(e) \in DOMAIN g
      PROVE  /\ DOMAIN Events(g) = DOMAIN Events(f) \cup {e} /\ Events(g)[e] = EventRecord(g, e)
             /\ event_dir(e) \in DOMAIN f => DOMAIN Events(g) = DOMAIN Events(f)
  BY <1>2, <1>3, <1>4, <1>5
<1>6. ASSUME event_dir(e) \notin DOMAIN g
      PROVE  /\ DOMAIN Events(g) = DOMAIN Events(f) \ {e}
             /\ event_dir(e) \notin DOMAIN f => DOMAIN Events(g) = DOMAIN Events(f)
  BY <1>2, <1>3, <1>4, <1>6
<1>7. ASSUME event_dir(e) \in DOMAIN f, event_dir(e) \in DOMAIN g
      PROVE  Events(g) = [Events(f) EXCEPT ![e] = EventRecord(g, e)]
  BY <1>2, <1>3, <1>5, <1>7
<1>8. ASSUME event_dir(e) \in DOMAIN g
      PROVE  Events(g) = Store!Put(Events(f), e, EventRecord(g, e))
  BY <1>2, <1>3, <1>5, <1>8 DEF Store!Put
<1>9. ASSUME event_dir(e) \notin DOMAIN g
      PROVE  Events(g) = Store!Without(Events(f), e)
  BY <1>2, <1>3, <1>6, <1>9 DEF Store!Without, Store!Restrict
<1>10. ASSUME event_dir(e) \notin DOMAIN f, event_dir(e) \notin DOMAIN g
       PROVE  Events(g) = Events(f)
  BY <1>2, <1>3, <1>6, <1>10
<1>11. QED
  BY <1>7, <1>8, <1>9, <1>10

\* Trees that differ below one event's directory only.
LEMMA InsideEvent ==
    ASSUME NEW f, NEW g, NEW e \in EIDs, \A x : ~InEventDir(x, e) => SameAt(f, g, x)
    PROVE  /\ Accounts(f) = Accounts(g) /\ LoggedIn(f) = LoggedIn(g)
           /\ UserEvents(f) = UserEvents(g) /\ UserRes(f) = UserRes(g)
           /\ LastEvent(f) = LastEvent(g)
           /\ \A n \in EIDs : n # e => SameEvent(f, g, n)
<1>1. SameAccounts(f, g)
  BY FirstParts DEF SameAccounts, InEventDir
<1>2. ASSUME NEW n \in EIDs
      PROVE  SameLists(f, g, n) /\ SameBookings(f, g, n)
  <2>1. SameLists(f, g, n)
    BY FirstParts DEF SameLists, InEventDir
  <2>2. SameBookings(f, g, n)
    BY FirstParts DEF SameBookings, InEventDir
  <2>3. QED
    BY <2>1, <2>2
<1>3. SameAt(f, g, event_count_path)
  BY FirstParts DEF InEventDir
<1>4. \A n \in EIDs : n # e => SameEvent(f, g, n)
  BY DEF SameEvent, InEventDir
<1>5. QED
  BY <1>1, <1>2, <1>3, <1>4, SameAccountsRead, SameListsRead, SameBookingsRead, SameCount

\* Records that differ in what a handler changes of an event.
Record(c, d, a, s, b, n, end, r) ==
    [creator |-> c, date |-> d, attendance |-> a, filesize |-> s,
     description |-> b, sold |-> n, closed |-> end, reservations |-> r]

LEMMA SameFields ==
    ASSUME NEW q, NEW r,
           DOMAIN q = {"creator", "date", "attendance", "filesize",
                       "description", "sold", "closed", "reservations"},
           DOMAIN r = DOMAIN q, q = [x \in DOMAIN q |-> q[x]], r = [x \in DOMAIN r |-> r[x]],
           q.creator = r.creator, q.date = r.date, q.attendance = r.attendance,
           q.filesize = r.filesize, q.description = r.description, q.sold = r.sold,
           q.closed = r.closed, q.reservations = r.reservations
    PROVE  q = r
OBVIOUS

\* What Reserve does to a record.
Rebooked(q, n, r) == [q EXCEPT !.sold = n, !.reservations = r]

LEMMA BookedRecord ==
    ASSUME NEW c, NEW d, NEW a, NEW s, NEW b, NEW n, NEW end, NEW r, NEW n2, NEW r2,
           NEW q, q = Record(c, d, a, s, b, n, end, r)
    PROVE  Rebooked(q, n2, r2) = Record(c, d, a, s, b, n2, end, r2)
<1> DEFINE x == [q EXCEPT !.sold = n2, !.reservations = r2]
           y == Record(c, d, a, s, b, n2, end, r2)
<1>1. /\ DOMAIN x = {"creator", "date", "attendance", "filesize",
                     "description", "sold", "closed", "reservations"}
      /\ DOMAIN y = DOMAIN x
  BY DEF Record
<1>2. x = [z \in DOMAIN x |-> x[z]] /\ y = [z \in DOMAIN y |-> y[z]]
  BY DEF Record
<1>3. x.creator = c /\ x.date = d
  BY DEF Record
<1>4. x.attendance = a /\ x.filesize = s
  BY DEF Record
<1>5. x.description = b
  BY DEF Record
<1>6. x.sold = n2
  BY DEF Record
<1>7. x.closed = end
  BY DEF Record
<1>8. x.reservations = r2
  BY DEF Record
<1>9. y.creator = c /\ y.date = d /\ y.attendance = a /\ y.filesize = s
  BY DEF Record
<1>10. y.description = b /\ y.sold = n2
  BY DEF Record
<1>11. y.closed = end
  BY DEF Record
<1>12. y.reservations = r2
  BY DEF Record
<1> HIDE DEF x, y
<1>13. x = y
  BY <1>1, <1>2, <1>3, <1>4, <1>5, <1>6, <1>7, <1>8, <1>9, <1>10, <1>11, <1>12, SameFields
<1>14. QED
  BY <1>13 DEF x, y, Rebooked

LEMMA DescribedRecord ==
    ASSUME NEW c, NEW d, NEW a, NEW s, NEW b, NEW n, NEW end, NEW r, NEW b2, NEW end2,
           NEW q, q = Record(c, d, a, s, b, n, end, r)
    PROVE  /\ [q EXCEPT !.description = b2] = Record(c, d, a, s, b2, n, end, r)
           /\ [q EXCEPT !.closed = end2] = Record(c, d, a, s, b, n, end2, r)
<1>1. [q EXCEPT !.description = b2] = Record(c, d, a, s, b2, n, end, r)
  BY DEF Record
<1>2. [q EXCEPT !.closed = end2] = Record(c, d, a, s, b, n, end2, r)
  BY DEF Record
<1>3. QED
  BY <1>1, <1>2

\* What EventRecord reads of an event besides its description and its end file.
ReadDetails(f, e) ==
    IF Whole(f, event_details_path(e)) THEN f[event_details_path(e)]
    ELSE [creator |-> NoUser, date |-> 0, attendance |-> -1, filesize |-> -1]
ReadTotal(f, e) == IF Whole(f, event_total_res_path(e)) THEN f[event_total_res_path(e)] ELSE -1

LEMMA RecordRead ==
    ASSUME NEW f, NEW e
    PROVE  EventRecord(f, e) =
              Record(ReadDetails(f, e).creator, ReadDetails(f, e).date, ReadDetails(f, e).attendance,
                     ReadDetails(f, e).filesize, Content(f, event_description_path(e), 0),
                     ReadTotal(f, e), event_end_path(e) \in DOMAIN f, Reservations(f, e))
BY DEF EventRecord, Record, ReadDetails, ReadTotal, Reservations

LEMMA RestRead ==
    ASSUME NEW f, NEW g, NEW e,
           SameAt(f, g, event_details_path(e)), SameAt(f, g, event_total_res_path(e)),
           \A t \in Times, u \in UIDs : SameAt(f, g, event_res_path(e, t, u))
    PROVE  ReadDetails(f, e) = ReadDetails(g, e) /\ ReadTotal(f, e) = ReadTotal(g, e)
           /\ Reservations(f, e) = Reservations(g, e)
<1>1. \A x \in {event_details_path(e), event_total_res_path(e)} :
          /\ Whole(f, x) <=> Whole(g, x)
          /\ Whole(f, x) => f[x] = g[x]
  BY SameContent DEF Whole, SameAt
<1>2. \A k \in Times \X UIDs : Content(f, event_res_path(e, k[1], k[2]), << >>)
                                 = Content(g, event_res_path(e, k[1], k[2]), << >>)
  BY SameContent
<1>3. Reservations(f, e) = Reservations(g, e)
  BY <1>2 DEF Reservations
<1>4. ReadDetails(f, e) = ReadDetails(g, e)
  BY <1>1 DEF ReadDetails
<1>5. ReadTotal(f, e) = ReadTotal(g, e)
  BY <1>1 DEF ReadTotal
<1>6. QED
  BY <1>3, <1>4, <1>5

\* Its record, if what differs is its description or its end file.
LEMMA RecordDescribed ==
    ASSUME NEW f, NEW g, NEW e \in EIDs, \A x : x # event_description_path(e) => SameAt(f, g, x)
    PROVE  EventRecord(g, e) = [EventRecord(f, e) EXCEPT !.description = Content(g, event_description_path(e), 0)]
<1>1. /\ ReadDetails(f, e) = ReadDetails(g, e) /\ ReadTotal(f, e) = ReadTotal(g, e)
      /\ Reservations(f, e) = Reservations(g, e)
  BY FirstParts, RestRead
<1>2. event_end_path(e) \in DOMAIN f <=> event_end_path(e) \in DOMAIN g
  BY FirstParts DEF SameAt
<1> DEFINE d == ReadDetails(f, e)
           closed == event_end_path(e) \in DOMAIN f
           b == Content(g, event_description_path(e), 0)
<1>3. (event_end_path(e) \in DOMAIN g) = closed
  BY <1>2
<1>4. EventRecord(g, e) = Record(d.creator, d.date, d.attendance, d.filesize, b, ReadTotal(f, e), closed, Reservations(f, e))
  BY <1>1, <1>3, RecordRead
<1>5. EventRecord(f, e) = Record(d.creator, d.date, d.attendance, d.filesize,
                                 Content(f, event_description_path(e), 0), ReadTotal(f, e), closed, Reservations(f, e))
  BY RecordRead
<1> HIDE DEF d, closed
<1>6. QED
  BY <1>4, <1>5, DescribedRecord

LEMMA RecordClosed ==
    ASSUME NEW f, NEW g, NEW e \in EIDs, \A x : x # event_end_path(e) => SameAt(f, g, x),
           event_end_path(e) \in DOMAIN g
    PROVE  EventRecord(g, e) = [EventRecord(f, e) EXCEPT !.closed = TRUE]
<1>1. /\ ReadDetails(f, e) = ReadDetails(g, e) /\ ReadTotal(f, e) = ReadTotal(g, e)
      /\ Reservations(f, e) = Reservations(g, e)
  BY FirstParts, RestRead
<1>2. Content(g, event_description_path(e), 0) = Content(f, event_description_path(e), 0)
  BY FirstParts, SameContent
<1> DEFINE d == ReadDetails(f, e)
           closed == event_end_path(e) \in DOMAIN f
           ended == event_end_path(e) \in DOMAIN g
           b == Content(f, event_description_path(e), 0)
<1>3. EventRecord(g, e) = Record(d.creator, d.date, d.attendance, d.filesize, b, ReadTotal(f, e), ended, Reservations(f, e))
  BY <1>1, <1>2, RecordRead
<1>4. EventRecord(f, e) = Record(d.creator, d.date, d.attendance, d.filesize, b, ReadTotal(f, e), closed, Reservations(f, e))
  BY RecordRead
<1>5. ended = TRUE
  OBVIOUS
<1> HIDE DEF d, closed, b, ended
<1>6. EventRecord(g, e) = [EventRecord(f, e) EXCEPT !.closed = ended]
  BY <1>3, <1>4, DescribedRecord
<1>7. QED
  BY <1>5, <1>6

\* A handler that has written below one event's directory only.
LEMMA AfterInside ==
    ASSUME IInv, Idle, NEW e \in EIDs, NEW ops, Begin(ops), event_dir(e) \in DOMAIN files,
           \A x : ~InEventDir(x, e) => SameAt(files, ApplyAll(files, ops), x)
    PROVE  LET g == ApplyAll(files, ops)
           IN  /\ UNCHANGED <<passwd, loggedIn, userEvents, userRes, lastEvent, now>>
               /\ e \in DOMAIN event /\ event[e] = EventRecord(files, e)
               /\ event_dir(e) \in DOMAIN g => event' = [event EXCEPT ![e] = EventRecord(g, e)]
               /\ event_dir(e) \notin DOMAIN g => event' = Store!Without(event, e)
<1> DEFINE g == ApplyAll(files, ops)
<1>1. Sees(files)
  BY Found DEF Idle
<1>2. SeesNext(g) /\ now' = now
  BY DEF Begin
<1>3. /\ Accounts(files) = Accounts(g) /\ LoggedIn(files) = LoggedIn(g)
      /\ UserEvents(files) = UserEvents(g) /\ UserRes(files) = UserRes(g)
      /\ LastEvent(files) = LastEvent(g)
      /\ \A n \in EIDs : n # e => SameEvent(files, g, n)
  BY InsideEvent
<1> HIDE DEF g
<1>4. event = Events(files) /\ event' = Events(g)
  BY <1>1, <1>2 DEF Sees, SeesNext
<1>5. UNCHANGED <<passwd, loggedIn, userEvents, userRes, lastEvent, now>>
  BY <1>1, <1>2, <1>3 DEF Sees, SeesNext
<1>6. e \in DOMAIN event /\ event[e] = EventRecord(files, e)
  BY <1>4 DEF Events
<1>7. /\ event_dir(e) \in DOMAIN g => event' = [event EXCEPT ![e] = EventRecord(g, e)]
      /\ event_dir(e) \notin DOMAIN g => event' = Store!Without(event, e)
  BY <1>3, <1>4, EventChanged
<1>8. QED
  BY <1>5, <1>6, <1>7 DEF g

\* One file below the event's directory, other than the directory, is written.
LEMMA OneWritten ==
    ASSUME NEW f, NEW e \in EIDs, NEW x, InEventDir(x, e), x # event_dir(e), NEW c, c # Gone
    PROVE  LET g == ApplyAll(f, <<put(x, c)>>)
           IN  /\ LeftAt(g, x, c) /\ \A y : y # x => SameAt(f, g, y)
               /\ \A y : ~InEventDir(y, e) => SameAt(f, g, y)
               /\ event_dir(e) \in DOMAIN f => event_dir(e) \in DOMAIN g
<1> DEFINE op == put(x, c)
           g == ApplyAll(f, <<op>>)
<1>1. op.content = c /\ \A y : Concerns(op, y) <=> x = y
  BY ConcernsPut, PutParts
<1> HIDE DEF op
<1>2. LeftAt(g, x, c) /\ \A y : y # x => SameAt(f, g, y)
  BY <1>1, OneOperation
<1> HIDE DEF g
<1>3. \A y : ~InEventDir(y, e) => SameAt(f, g, y)
  BY <1>2
<1>4. event_dir(e) \in DOMAIN f => event_dir(e) \in DOMAIN g
  BY <1>2 DEF SameAt
<1>5. QED
  BY <1>2, <1>3, <1>4 DEF g, op

LEMMA CloseImplements ==
    ASSUME IInv, Idle, NEW u, NEW p, NEW e \in EIDs, Close(u, p, e)
    PROVE  Store!Close(u, p, e)
<1> DEFINE x == event_end_path(e)
           ops == <<put(x, Empty)>>
           g == ApplyAll(files, ops)
<1>1. Begin(ops) /\ UNCHANGED uploads /\ Store!close_event(u, p, e) = "OK"
  BY DEF Close
<1>2. event_dir(e) \in DOMAIN files
  <2>1. e \in DOMAIN event
    BY <1>1 DEF Store!close_event, Store!does_event_exist
  <2>2. event = Events(files)
    BY Found DEF Idle, Sees
  <2>3. QED
    BY <2>1, <2>2 DEF Events
<1>3. Empty # Gone /\ InEventDir(x, e) /\ x # event_dir(e)
  BY MarkersApart, PathsBelow, FirstParts
<1>4. /\ LeftAt(g, x, Empty) /\ \A y : y # x => SameAt(files, g, y)
      /\ \A y : ~InEventDir(y, e) => SameAt(files, g, y)
      /\ event_dir(e) \in DOMAIN g
  BY <1>2, <1>3, OneWritten
<1> HIDE DEF ops
<1>5. /\ UNCHANGED <<passwd, loggedIn, userEvents, userRes, lastEvent, now>>
      /\ e \in DOMAIN event /\ event[e] = EventRecord(files, e)
      /\ event' = [event EXCEPT ![e] = EventRecord(g, e)]
  BY <1>1, <1>2, <1>4, AfterInside
<1> HIDE DEF g
<1>6. EventRecord(g, e) = [EventRecord(files, e) EXCEPT !.closed = TRUE]
  BY <1>3, <1>4, RecordClosed DEF LeftAt
<1>7. event' = [event EXCEPT ![e].closed = TRUE]
  BY <1>5, <1>6
<1>8. QED
  BY <1>1, <1>5, <1>7 DEF Store!Close, Store!accounts

-----------------------------------------------------------------------------
(***************************************************************************)
(* Creates under way.                                                      *)
(***************************************************************************)
LEMMA StoreWrites ==
    ASSUME NEW written, NEW size, NEW k, NEW newline
    PROVE  Store!write_event(written, size, k, newline) = write_event(written, size, k, newline)
BY DEF Store!write_event, write_event

\* What the create on connection c has in the tree.
LEMMA UnderWay ==
    ASSUME IInv, Idle, NEW c \in DOMAIN uploads
    PROVE  LET n == uploads[c].eid
           IN  /\ n \in EIDs /\ event_dir(n) \in DOMAIN files
               /\ event_description_path(n) \in DOMAIN files /\ files[event_description_path(n)] \in Nat
               /\ uploads[c].written \in Nat /\ uploads[c].filesize \in Nat
<1> DEFINE n == uploads[c].eid
           x == event_description_path(n)
<1>1. Owned(files, uploads) /\ Uploading(uploads) /\ WellFormed(files)
  BY Found DEF Idle, IInv
<1>2. /\ n \in EIDs /\ uploads[c].filesize \in FileSizes /\ uploads[c].written \in Nat
      /\ event_dir(n) \in DOMAIN files /\ x \in DOMAIN files
  BY <1>1 DEF Owned, Described, Uploading, Store!Upload, Store!EIDs, EIDs
<1>3. uploads[c].filesize \in Nat
  <2>1. uploads[c].filesize \in parse_filesize /\ MAX_FILESIZE \in Nat
    BY <1>2, RequestAssumption DEF MAX_FILESIZE
  <2>2. QED
    BY <2>1 DEF parse_filesize
<1>4. files[x] \in Nat
  BY <1>1, <1>2, KindsOfContent DEF WellFormed
<1>5. QED
  BY <1>2, <1>3, <1>4

\* The description of the create's event is what EventStore says it is.
LEMMA DescriptionImplements ==
    ASSUME IInv, Idle, NEW c \in DOMAIN uploads, NEW b \in Nat,
           Begin(<<put(event_description_path(uploads[c].eid), b)>>)
    PROVE  LET n == uploads[c].eid
           IN  /\ UNCHANGED <<passwd, loggedIn, userEvents, userRes, lastEvent, now>>
               /\ event[n].description = files[event_description_path(n)]
               /\ event' = [event EXCEPT ![n].description = b]
<1> DEFINE n == uploads[c].eid
           x == event_description_path(n)
           ops == <<put(x, b)>>
           g == ApplyAll(files, ops)
<1>1. n \in EIDs /\ event_dir(n) \in DOMAIN files /\ x \in DOMAIN files
  BY UnderWay
<1> HIDE DEF n
<1>2. b # Gone /\ InEventDir(x, n) /\ x # event_dir(n)
  BY <1>1, DescriptionPut, PathsBelow, FirstParts
<1>3. /\ LeftAt(g, x, b) /\ \A y : y # x => SameAt(files, g, y)
      /\ \A y : ~InEventDir(y, n) => SameAt(files, g, y)
      /\ event_dir(n) \in DOMAIN g
  BY <1>1, <1>2, OneWritten
<1>4. Begin(ops)
  BY DEF n
<1> HIDE DEF ops
<1>5. /\ UNCHANGED <<passwd, loggedIn, userEvents, userRes, lastEvent, now>>
      /\ n \in DOMAIN event /\ event[n] = EventRecord(files, n)
      /\ event' = [event EXCEPT ![n] = EventRecord(g, n)]
  BY <1>1, <1>3, <1>4, AfterInside
<1> HIDE DEF g
<1>6. Content(g, x, 0) = b /\ Content(files, x, 0) = files[x]
  BY <1>1, <1>2, <1>3 DEF LeftAt, Content
<1>7. EventRecord(g, n) = [EventRecord(files, n) EXCEPT !.description = b]
  <2>1. EventRecord(g, n) = [EventRecord(files, n) EXCEPT !.description = Content(g, x, 0)]
    BY <1>1, <1>3, RecordDescribed
  <2>2. QED
    BY <1>6, <2>1
<1>8. event' = [event EXCEPT ![n].description = b]
  BY <1>5, <1>7
<1>9. event[n].description = files[x]
  <2>1. EventRecord(files, n).description = Content(files, x, 0)
    BY DEF EventRecord
  <2>2. QED
    BY <1>5, <1>6, <2>1
<1>10. QED
  BY <1>5, <1>8, <1>9 DEF n

LEMMA UploadImplements ==
    ASSUME IInv, Idle, NEW c, NEW k \in 1..MaxRead, NEW newline \in BOOLEAN, UploadData(c, k, newline)
    PROVE  Store!UploadData(c, k, newline)
<1> DEFINE n == uploads[c].eid
           x == event_description_path(n)
           r == write_event(uploads[c].written, uploads[c].filesize, k, newline)
<1>1. c \in DOMAIN uploads
  BY DEF UploadData
<1>2. /\ n \in EIDs /\ event_dir(n) \in DOMAIN files /\ x \in DOMAIN files /\ files[x] \in Nat
      /\ uploads[c].written \in Nat /\ uploads[c].filesize \in Nat /\ k \in Nat
  BY <1>1, UnderWay, LimitAssumption
<1>3. Store!write_event(uploads[c].written, uploads[c].filesize, k, newline) = r
  BY StoreWrites
<1>4. CASE /\ r = "more"
           /\ \E b \in files[x] .. uploads[c].written + k : Begin(<<put(x, b)>>)
           /\ uploads' = [uploads EXCEPT ![c].written = @ + k]
  <2>1. PICK b \in files[x] .. uploads[c].written + k : Begin(<<put(x, b)>>)
    BY <1>4
  <2>2. b \in Nat
    BY <1>2, <2>1
  <2>3. /\ UNCHANGED <<passwd, loggedIn, userEvents, userRes, lastEvent, now>>
        /\ event[n].description = files[x] /\ event' = [event EXCEPT ![n].description = b]
    BY <1>1, <2>1, <2>2, DescriptionImplements
  <2>4. Store!StoreMore(c, k)
    BY <1>4, <2>1, <2>3 DEF Store!StoreMore
  <2>5. QED
    BY <1>1, <1>3, <1>4, <2>3, <2>4 DEF Store!UploadData, Store!accounts
<1>5. CASE r = "done" /\ Begin(<<put(x, uploads[c].filesize)>>) /\ uploads' = Store!Without(uploads, c)
  <2>1. /\ UNCHANGED <<passwd, loggedIn, userEvents, userRes, lastEvent, now>>
        /\ event' = [event EXCEPT ![n].description = uploads[c].filesize]
    BY <1>1, <1>2, <1>5, DescriptionImplements
  <2>2. Store!FinishUpload(c)
    BY <1>5, <2>1 DEF Store!FinishUpload
  <2>3. QED
    BY <1>1, <1>3, <1>5, <2>1, <2>2 DEF Store!UploadData, Store!accounts
<1>6. CASE r = "destroyed" /\ Begin(<<remove(event_dir(n))>>) /\ uploads' = Store!Without(uploads, c)
  <2> DEFINE op == remove(event_dir(n))
             g == ApplyAll(files, <<op>>)
  <2>1. op.content = Gone /\ \A y : Concerns(op, y) <=> InEventDir(y, n)
    BY <1>2, ConcernsRemoveAll, PutParts
  <2>2. InEventDir(event_dir(n), n)
    BY <1>2, PathsBelow
  <2>3. Begin(<<op>>)
    BY <1>6
  <2> HIDE DEF op
  <2>4. LeftAt(g, event_dir(n), Gone) /\ \A y : ~InEventDir(y, n) => SameAt(files, g, y)
    BY <2>1, <2>2, OneOperation
  <2>5. UNCHANGED <<passwd, loggedIn, userEvents, userRes, lastEvent, now>> /\ event' = Store!Without(event, n)
    BY <1>2, <2>3, <2>4, AfterInside DEF LeftAt
  <2>6. Store!DestroyUpload(c)
    BY <1>6, <2>5 DEF Store!DestroyUpload
  <2>7. QED
    BY <1>1, <1>3, <1>6, <2>5, <2>6 DEF Store!UploadData, Store!accounts
<1>7. QED
  BY <1>4, <1>5, <1>6 DEF UploadData

LEMMA DisconnectImplements ==
    ASSUME IInv, Idle, NEW c, Disconnect(c)
    PROVE  Store!Disconnect(c)
<1> DEFINE n == uploads[c].eid
<1>1. /\ c \in DOMAIN uploads /\ Begin(<<put(event_description_path(n), uploads[c].written)>>)
      /\ uploads' = Store!Without(uploads, c)
  BY DEF Disconnect
<1>2. uploads[c].written \in Nat
  BY <1>1, UnderWay
<1>3. /\ UNCHANGED <<passwd, loggedIn, userEvents, userRes, lastEvent, now>>
      /\ event' = [event EXCEPT ![n].description = uploads[c].written]
  BY <1>1, <1>2, DescriptionImplements
<1>4. QED
  BY <1>1, <1>3 DEF Store!Disconnect, Store!accounts

-----------------------------------------------------------------------------
(***************************************************************************)
(* Creating an event.                                                      *)
(***************************************************************************)
\* What a create leaves of its event, whether or not it destroys it again.
LEMMA CreatedAnyway ==
    ASSUME NEW f, NEW n \in EIDs, \A x \in DOMAIN f : ~About(x, n),
           NEW u \in UIDs, NEW d \in Times, NEW a \in Attendances, NEW s \in FileSizes,
           NEW ops, Creates(ops, n, u, d, a, s)
    PROVE  LET g == ApplyAll(f, ops)
           IN  /\ \A t, v : user_res_path(v, t, n) \notin DOMAIN g
               /\ \A v : user_event_path(v, n) \in DOMAIN g <=> v = u
               /\ event_end_path(n) \notin DOMAIN g
               /\ Len(ops) = 9 => event_description_path(n) \notin DOMAIN g
               /\ ops[Len(ops)] = remove(event_dir(n)) => event_dir(n) \notin DOMAIN g
<1> DEFINE details == [creator |-> u, date |-> d, attendance |-> a, filesize |-> s]
           g == Tree(f, ops, Len(ops))
<1>1. details \in Details
  BY DEF Details
<1>2. /\ ops \in Seq(Fitting) /\ Len(ops) \in Nat /\ Len(ops) >= 9
      /\ ops[9] = put(user_event_path(u, n), Empty)
  BY DEF Creates
<1>3. ASSUME NEW i \in 1..Len(ops)
      PROVE  /\ i <= 2 => ops[i].path = event_count_path
             /\ i > 2 => About(ops[i].path, n) /\ ops[i].path[1] \notin {"event_res", "user_res"}
             /\ ops[i].path[1] = "user_event" => i = 9
             /\ ops[i].content = Gone => ops[i] = remove(event_dir(n)) /\ i = Len(ops) /\ i > 9
  BY <1>1, CreatePaths
<1>4. ASSUME NEW i \in 1..Len(ops)
      PROVE  ops[i].path[1] # "end" /\ (i <= 9 => ops[i].path[1] # "description")
  <2>1. \/ i = 1 \/ i = 2 \/ i = 3 \/ i = 4 \/ i = 5 \/ i = 6 \/ i = 7 \/ i = 8 \/ i = 9
        \/ i > 9 /\ ~(i <= 9)
    BY <1>2
  <2>2. CASE i > 9 /\ ~(i <= 9)
    BY <2>2, FirstParts, PutParts DEF Creates
  <2>3. CASE i = 1 \/ i = 2 \/ i = 3 \/ i = 4
    BY <2>3, FirstParts, PutParts DEF Creates
  <2>4. CASE i = 5 \/ i = 6 \/ i = 7
    BY <2>4, FirstParts, PutParts DEF Creates
  <2>5. CASE i = 8 \/ i = 9
    BY <2>5, FirstParts, PutParts DEF Creates
  <2>6. QED
    BY <2>1, <2>2, <2>3, <2>4, <2>5
<1> HIDE DEF details
<1>5. ASSUME NEW x, About(x, n), \A i \in 1..Len(ops) : ops[i].path # x
      PROVE  x \notin DOMAIN g
  BY <1>2, <1>5, TreeHolds
<1>6. \A i \in 1..Len(ops) : ops[i].path[1] \notin {"event_res", "user_res"}
  <2>1. \A i \in 1..Len(ops) : i <= 2 \/ i > 2
    OBVIOUS
  <2>2. QED
    BY <1>3, <2>1, FirstParts
<1>7. ASSUME NEW t, NEW v
      PROVE  user_res_path(v, t, n) \notin DOMAIN g
  <2>1. About(user_res_path(v, t, n), n) /\ user_res_path(v, t, n)[1] = "user_res"
    BY FirstParts, OtherParts DEF About, InEventDir
  <2>2. QED
    BY <1>5, <1>6, <2>1
<1>8. event_end_path(n) \notin DOMAIN g
  BY <1>4, <1>5, FirstParts, PathsBelow, PathsApart
<1>9. Len(ops) = 9 => event_description_path(n) \notin DOMAIN g
  <2>1. Len(ops) = 9 => \A i \in 1..Len(ops) : i <= 9
    OBVIOUS
  <2>2. QED
    BY <1>4, <1>5, <2>1, FirstParts, PathsBelow, PathsApart
<1>10. Len(ops) \in 1..Len(ops) /\ 9 \in 1..Len(ops) /\ \A j \in 1..Len(ops) : ~(j > Len(ops))
  BY <1>2
<1>11. ops[Len(ops)] = remove(event_dir(n)) => event_dir(n) \notin DOMAIN g
  <2>1. ASSUME ops[Len(ops)] = remove(event_dir(n))
        PROVE  event_dir(n) \notin DOMAIN g
    <3>1. Concerns(ops[Len(ops)], event_dir(n)) /\ ops[Len(ops)].content = Gone
      BY <2>1, PutParts DEF Concerns
    <3>2. LeftAt(g, event_dir(n), ops[Len(ops)].content)
      BY <1>2, <1>10, <3>1, LastLeft
    <3>3. QED
      BY <3>1, <3>2 DEF LeftAt
  <2>2. QED
    BY <2>1
<1>12. user_event_path(u, n) \in DOMAIN g
  <2>1. \A i \in 1..Len(ops) : Concerns(ops[i], user_event_path(u, n)) => ops[i].content # Gone
    <3>1. ASSUME NEW i \in 1..Len(ops), Concerns(ops[i], user_event_path(u, n)), ops[i].content = Gone
          PROVE  FALSE
      <4>1. ops[i] = remove(event_dir(n))
        BY <1>3, <3>1
      <4>2. InEventDir(user_event_path(u, n), n)
        BY <3>1, <4>1, ConcernsRemoveAll
      <4>3. QED
        BY <4>2, FirstParts DEF InEventDir
    <3>2. QED
      BY <3>1
  <2>2. Concerns(ops[9], user_event_path(u, n))
    BY <1>2, PutParts DEF Concerns
  <2>3. QED
    BY <1>2, <1>10, <2>1, <2>2, Stays
<1>13. ASSUME NEW v, user_event_path(v, n) \in DOMAIN g
       PROVE  v = u
  <2>1. About(user_event_path(v, n), n)
    BY FirstParts, OtherParts DEF About, InEventDir
  <2>2. PICK i \in 1..Len(ops) : ops[i].path = user_event_path(v, n)
    BY <1>5, <1>13, <2>1
  <2>3. i = 9
    BY <1>3, <2>2, FirstParts
  <2>4. user_event_path(v, n) = user_event_path(u, n)
    BY <1>2, <2>2, <2>3, PutParts
  <2>5. user_event_path(v, n)[3] = v /\ user_event_path(u, n)[3] = u
    BY OtherParts
  <2>6. QED
    BY <2>4, <2>5
<1> HIDE DEF g
<1>14. QED
  BY <1>7, <1>8, <1>9, <1>11, <1>12, <1>13 DEF ApplyAll, g

\* The description it has written last is the one in the tree.
LEMMA DescriptionLeft ==
    ASSUME NEW f, NEW ops, Len(ops) \in Nat, Len(ops) >= 1, NEW n \in EIDs, NEW b \in Nat,
           ops[Len(ops)] = put(event_description_path(n), b)
    PROVE  Content(ApplyAll(f, ops), event_description_path(n), 0) = b
<1>1. /\ Concerns(ops[Len(ops)], event_description_path(n)) /\ ops[Len(ops)].content = b /\ b # Gone
      /\ Len(ops) \in 1..Len(ops) /\ \A j \in 1..Len(ops) : ~(j > Len(ops))
  BY PutParts, DescriptionPut DEF Concerns
<1>2. LeftAt(Tree(f, ops, Len(ops)), event_description_path(n), ops[Len(ops)].content)
  BY <1>1, LastLeft
<1>3. QED
  BY <1>1, <1>2 DEF LeftAt, Content, ApplyAll

\* What a create changes of the other events and users.
LEMMA CreatedElsewhere ==
    ASSUME NEW f, NEW n \in EIDs, NEW u \in UIDs, NEW d \in Times, NEW a \in Attendances, NEW s \in FileSizes,
           NEW ops, Creates(ops, n, u, d, a, s)
    PROVE  LET g == ApplyAll(f, ops)
           IN  /\ Accounts(f) = Accounts(g) /\ LoggedIn(f) = LoggedIn(g)
               /\ LastEvent(g) = n
               /\ \A e \in EIDs : e # n => SameEvent(f, g, e) /\ SameLists(f, g, e) /\ SameBookings(f, g, e)
<1> DEFINE g == ApplyAll(f, ops)
<1>1. /\ ops \in Seq(Fitting) /\ Len(ops) \in Nat
      /\ [creator |-> u, date |-> d, attendance |-> a, filesize |-> s] \in Details
  BY DEF Creates, Details
<1>2. LastEvent(g) = n
  BY <1>1, CountCreated
<1>3. ASSUME NEW i \in 1..Len(ops)
      PROVE  ops[i].path = event_count_path \/ About(ops[i].path, n)
  <2>1. i <= 2 \/ i > 2
    OBVIOUS
  <2>2. QED
    BY <1>1, <2>1, CreatePaths
<1>4. Accounts(f) = Accounts(g) /\ LoggedIn(f) = LoggedIn(g)
  <2>1. ASSUME NEW i \in 1..Len(ops), NEW v \in UIDs
        PROVE  ops[i].path # password_path(v) /\ ops[i].path # logged_in_path(v)
    BY <1>3, PathsApart, FirstParts
  <2>2. SameAccounts(f, Tree(f, ops, Len(ops)))
    BY <1>1, <2>1, AccountsKept
  <2>3. QED
    BY <2>2, SameAccountsRead DEF ApplyAll
<1>5. ASSUME NEW e \in EIDs, e # n
      PROVE  SameEvent(f, g, e) /\ SameLists(f, g, e) /\ SameBookings(f, g, e)
  <2>1. \A i \in 1..Len(ops) : ~About(ops[i].path, e)
    BY <1>3, <1>5, PathsApart
  <2>2. \A x : About(x, e) => SameAt(f, g, x)
    BY <1>1, <2>1, Elsewhere DEF ApplyAll
  <2> HIDE DEF g
  <2>3. SameEvent(f, g, e)
    BY <2>2, PathsApart DEF SameEvent
  <2>4. SameLists(f, g, e)
    BY <2>2, FirstParts, OtherParts DEF SameLists, About
  <2>5. SameBookings(f, g, e)
    BY <2>2, FirstParts, OtherParts DEF SameBookings, About
  <2>6. QED
    BY <2>3, <2>4, <2>5
<1>6. QED
  BY <1>2, <1>4, <1>5

\* The new event as EventStore has it.
LEMMA RecordCreated ==
    ASSUME NEW g, NEW n \in EIDs, NEW u, NEW d, NEW a, NEW s,
           [creator |-> u, date |-> d, attendance |-> a, filesize |-> s] \in Details,
           event_details_path(n) \in DOMAIN g,
           g[event_details_path(n)] = [creator |-> u, date |-> d, attendance |-> a, filesize |-> s],
           event_total_res_path(n) \in DOMAIN g, g[event_total_res_path(n)] = 0,
           \A t, v : event_res_path(n, t, v) \notin DOMAIN g,
           event_end_path(n) \notin DOMAIN g
    PROVE  EventRecord(g, n) = Store!NewEvent(u, d, a, s, Content(g, event_description_path(n), 0))
<1> DEFINE details == [creator |-> u, date |-> d, attendance |-> a, filesize |-> s]
           b == Content(g, event_description_path(n), 0)
           nothing == [k \in Times \X UIDs |-> << >>]
           closed == event_end_path(n) \in DOMAIN g
<1>1. ReadDetails(g, n) = details
  BY MarkersApart DEF ReadDetails, Whole
<1>2. ReadTotal(g, n) = 0
  BY MarkersApart DEF ReadTotal, Whole
<1>3. Reservations(g, n) = nothing
  <2>1. \A k \in Times \X UIDs : Content(g, event_res_path(n, k[1], k[2]), << >>) = << >>
    BY DEF Content
  <2>2. QED
    BY <2>1 DEF Reservations
<1>4. closed = FALSE
  OBVIOUS
<1>5. details.creator = u /\ details.date = d /\ details.attendance = a /\ details.filesize = s
  OBVIOUS
<1> HIDE DEF details, b, nothing, closed
<1>6. EventRecord(g, n) = Record(u, d, a, s, b, 0, closed, nothing)
  BY <1>1, <1>2, <1>3, <1>5, RecordRead DEF b, closed
<1>7. Store!NewEvent(u, d, a, s, b) = Record(u, d, a, s, b, 0, FALSE, nothing)
  BY DEF Store!NewEvent, Record, nothing, Store!Times, Times
<1>8. QED
  BY <1>4, <1>6, <1>7 DEF b

LEMMA AfterCreate ==
    ASSUME IInv, Idle, NEW n \in EIDs, \A x \in DOMAIN files : ~About(x, n),
           NEW u \in UIDs, NEW d \in Times, NEW a \in Attendances, NEW s \in FileSizes,
           NEW ops, Creates(ops, n, u, d, a, s), Begin(ops)
    PROVE  LET b == Content(ApplyAll(files, ops), event_description_path(n), 0)
           IN  /\ UNCHANGED <<passwd, loggedIn, userRes, now>>
               /\ lastEvent' = n
               /\ userEvents' = [userEvents EXCEPT ![u] = @ \cup {n}]
               /\ ops[Len(ops)] = remove(event_dir(n)) => event' = event
               /\ ops[Len(ops)] # remove(event_dir(n)) => event' = Store!Put(event, n, Store!NewEvent(u, d, a, s, b))
<1> DEFINE g == ApplyAll(files, ops)
<1>1. Sees(files)
  BY Found DEF Idle
<1>2. SeesNext(g) /\ now' = now
  BY DEF Begin
<1>3. /\ Accounts(files) = Accounts(g) /\ LoggedIn(files) = LoggedIn(g) /\ LastEvent(g) = n
      /\ \A e \in EIDs : e # n => SameEvent(files, g, e) /\ SameLists(files, g, e) /\ SameBookings(files, g, e)
  BY CreatedElsewhere
<1>4. /\ \A t, v : user_res_path(v, t, n) \notin DOMAIN g
      /\ \A v : user_event_path(v, n) \in DOMAIN g <=> v = u
      /\ event_end_path(n) \notin DOMAIN g
      /\ ops[Len(ops)] = remove(event_dir(n)) => event_dir(n) \notin DOMAIN g
  BY CreatedAnyway
<1>5. ops[Len(ops)] # remove(event_dir(n)) =>
          /\ event_dir(n) \in DOMAIN g /\ event_details_path(n) \in DOMAIN g
          /\ g[event_details_path(n)] = [creator |-> u, date |-> d, attendance |-> a, filesize |-> s]
          /\ event_total_res_path(n) \in DOMAIN g /\ g[event_total_res_path(n)] = 0
          /\ \A t, v : event_res_path(n, t, v) \notin DOMAIN g
  BY Created
<1> HIDE DEF g
<1>6. ASSUME NEW x \in {event_dir(n)} \cup {user_res_path(v, t, n) : v \in UIDs, t \in Times}
                          \cup {user_event_path(v, n) : v \in UIDs}
      PROVE  x \notin DOMAIN files
  <2>1. About(x, n)
    BY <1>6, PathsApart
  <2>2. QED
    BY <2>1
<1>7. userRes' = userRes
  <2>1. ASSUME NEW e \in EIDs
        PROVE  SameBookings(files, g, e)
    <3>1. CASE e = n
      BY <1>4, <1>6, <3>1 DEF SameBookings, SameAt
    <3>2. QED
      BY <1>3, <3>1
  <2>2. UserRes(files) = UserRes(g)
    BY <2>1, SameBookingsRead
  <2>3. QED
    BY <1>1, <1>2, <2>2 DEF Sees, SeesNext
<1>8. userEvents' = [userEvents EXCEPT ![u] = @ \cup {n}]
  <2>1. userEvents = UserEvents(files) /\ userEvents' = UserEvents(g)
    BY <1>1, <1>2 DEF Sees, SeesNext
  <2>2. \A v \in UIDs, e \in EIDs : e # n => (user_event_path(v, e) \in DOMAIN g <=> user_event_path(v, e) \in DOMAIN files)
    BY <1>3 DEF SameLists, SameAt
  <2>3. \A v \in UIDs : user_event_path(v, n) \notin DOMAIN files
    BY <1>6
  <2>4. ASSUME NEW v \in UIDs
        PROVE  {e \in EIDs : user_event_path(v, e) \in DOMAIN g}
                  = IF v = u THEN {e \in EIDs : user_event_path(v, e) \in DOMAIN files} \cup {n}
                    ELSE {e \in EIDs : user_event_path(v, e) \in DOMAIN files}
    BY <1>4, <2>2, <2>3
  <2>5. QED
    BY <2>1, <2>4 DEF UserEvents
<1>9. \A e \in EIDs : e # n => SameEvent(files, g, e)
  BY <1>3
<1>10. event_dir(n) \notin DOMAIN files /\ event = Events(files) /\ event' = Events(g)
  BY <1>1, <1>2, <1>6 DEF Sees, SeesNext
<1>11. ops[Len(ops)] = remove(event_dir(n)) => event' = event
  BY <1>4, <1>9, <1>10, EventChanged
<1>12. ASSUME ops[Len(ops)] # remove(event_dir(n))
       PROVE  event' = Store!Put(event, n, Store!NewEvent(u, d, a, s, Content(g, event_description_path(n), 0)))
  <2>1. event' = Store!Put(event, n, EventRecord(g, n))
    BY <1>5, <1>9, <1>10, <1>12, EventChanged
  <2>2. [creator |-> u, date |-> d, attendance |-> a, filesize |-> s] \in Details
    BY DEF Details
  <2>3. EventRecord(g, n) = Store!NewEvent(u, d, a, s, Content(g, event_description_path(n), 0))
    BY <1>4, <1>5, <1>12, <2>2, RecordCreated
  <2>4. QED
    BY <2>1, <2>3
<1>13. passwd' = passwd /\ loggedIn' = loggedIn /\ lastEvent' = n
  BY <1>1, <1>2, <1>3 DEF Sees, SeesNext
<1>14. QED
  BY <1>2, <1>7, <1>8, <1>11, <1>12, <1>13 DEF g

LEMMA CreateImplements ==
    ASSUME IInv, Idle, NEW c, NEW u \in UIDs, NEW p \in Passwords,
           NEW d \in Times, NEW a \in Attendances, NEW s \in FileSizes
    PROVE  /\ \A k \in 0..MaxRead, newline \in BOOLEAN :
                 CreateHeader(c, u, p, d, a, s, k, newline) => Store!CreateHeader(c, u, p, d, a, s, k, newline)
           /\ CreateCannotOpen(c, u, p, d, a, s) => Store!CreateCannotOpen(c, u, p, d, a, s)
<1> DEFINE n == lastEvent + 1
           started == start_create_event(n, u, d, a, s)
           x == event_description_path(n)
<1> SUFFICES ASSUME c \notin DOMAIN uploads, Store!start_create_event(u, p) = "OK"
             PROVE  /\ \A k \in 0..MaxRead, newline \in BOOLEAN :
                          CreateHeader(c, u, p, d, a, s, k, newline)
                             => Store!CreateHeader(c, u, p, d, a, s, k, newline)
                    /\ CreateCannotOpen(c, u, p, d, a, s) => Store!CreateCannotOpen(c, u, p, d, a, s)
  BY DEF CreateHeader, CreateCannotOpen
<1>1. n \in EIDs /\ \A y \in DOMAIN files : ~About(y, n)
  BY CreateGuard
<1>2. Store!NextEid = n
  BY DEF Store!NextEid
<1> HIDE DEF n
<1>3. s \in Nat /\ \A b \in Nat : put(x, b) \in Fitting /\ put(x, b) # remove(event_dir(n))
  <2>1. s \in parse_filesize /\ MAX_FILESIZE \in Nat
    BY RequestAssumption DEF MAX_FILESIZE
  <2>2. s \in Nat
    BY <2>1 DEF parse_filesize
  <2>3. \A b \in Nat : put(x, b) \in Fitting /\ b # Gone
    BY <1>1, DescriptionPut
  <2>4. \A b \in Nat : put(x, b).content = b /\ remove(event_dir(n)).content = Gone
    BY PutParts
  <2>5. QED
    BY <2>2, <2>3, <2>4
<1>4. ASSUME NEW ops, Creates(ops, n, u, d, a, s), Begin(ops)
      PROVE  /\ UNCHANGED <<passwd, loggedIn, userRes, now>>
             /\ Store!create_event_dirs(u)
             /\ ops[Len(ops)] = remove(event_dir(n)) => event' = event
             /\ ops[Len(ops)] # remove(event_dir(n))
                   => event' = Store!Put(event, n, Store!NewEvent(u, d, a, s, Content(ApplyAll(files, ops), x, 0)))
             /\ \A b \in Nat : ops[Len(ops)] = put(x, b)
                   => event' = Store!Put(event, n, Store!NewEvent(u, d, a, s, b))
  <2>1. /\ UNCHANGED <<passwd, loggedIn, userRes, now>>
        /\ lastEvent' = n /\ userEvents' = [userEvents EXCEPT ![u] = @ \cup {n}]
        /\ ops[Len(ops)] = remove(event_dir(n)) => event' = event
        /\ ops[Len(ops)] # remove(event_dir(n))
              => event' = Store!Put(event, n, Store!NewEvent(u, d, a, s, Content(ApplyAll(files, ops), x, 0)))
    BY <1>1, <1>4, AfterCreate
  <2>2. ASSUME NEW b \in Nat, ops[Len(ops)] = put(x, b)
        PROVE  Content(ApplyAll(files, ops), x, 0) = b
    <3>1. Len(ops) \in Nat /\ Len(ops) >= 1
      BY <1>4 DEF Creates
    <3>2. QED
      BY <1>1, <2>2, <3>1, DescriptionLeft
  <2>3. \A b \in Nat : ops[Len(ops)] = put(x, b)
           => event' = Store!Put(event, n, Store!NewEvent(u, d, a, s, b))
    BY <1>3, <2>1, <2>2
  <2>4. Store!create_event_dirs(u)
    BY <1>2, <2>1 DEF Store!create_event_dirs
  <2>5. QED
    BY <2>1, <2>3, <2>4
<1>5. ASSUME CreateCannotOpen(c, u, p, d, a, s)
      PROVE  Store!CreateCannotOpen(c, u, p, d, a, s)
  <2>1. Begin(started) /\ UNCHANGED uploads
    BY <1>5 DEF CreateCannotOpen, n
  <2>2. Creates(started, n, u, d, a, s) /\ Len(started) = 9
    BY <1>1, StartCreates
  <2> HIDE DEF started
  <2>3. started[9] # remove(event_dir(n))
    <3>1. started[9] = put(user_event_path(u, n), Empty)
      BY <2>2 DEF Creates
    <3>2. QED
      BY <3>1, PutParts, MarkersApart
  <2>4. x \notin DOMAIN ApplyAll(files, started)
    BY <1>1, <2>2, CreatedAnyway
  <2>5. Content(ApplyAll(files, started), x, 0) = 0
    BY <2>4 DEF Content
  <2>6. /\ UNCHANGED <<passwd, loggedIn, userRes, now>> /\ Store!create_event_dirs(u)
        /\ event' = Store!Put(event, n, Store!NewEvent(u, d, a, s, 0))
    BY <1>4, <2>1, <2>2, <2>3, <2>5
  <2>7. QED
    BY <1>2, <2>1, <2>6 DEF Store!CreateCannotOpen, Store!accounts
<1>6. ASSUME NEW k \in 0..MaxRead, NEW newline \in BOOLEAN, CreateHeader(c, u, p, d, a, s, k, newline)
      PROVE  Store!CreateHeader(c, u, p, d, a, s, k, newline)
  <2> DEFINE outcome == write_event(0, s, k, newline)
  <2>1. Store!write_event(0, s, k, newline) = outcome
    BY StoreWrites
  <2> HIDE DEF outcome
  <2>2. CASE /\ outcome = "more" /\ \E b \in 0..k : Begin(started \o <<put(x, b)>>)
             /\ uploads' = Store!Put(uploads, c, [eid |-> n, filesize |-> s, written |-> k])
    <3>1. PICK b \in 0..k : Begin(started \o <<put(x, b)>>)
      BY <2>2
    <3> DEFINE tail == <<put(x, b)>>
               ops == started \o tail
    <3>2. b \in Nat
      OBVIOUS
    <3>3. /\ tail \in Seq(Fitting) /\ Len(tail) = 1 /\ tail[1] = put(x, b)
          /\ \A i \in 1..Len(tail) : \E m \in Nat : tail[i] = put(x, m)
      BY <1>3, <3>2
    <3> HIDE DEF tail
    <3>4. Creates(ops, n, u, d, a, s) /\ Len(ops) = 9 + Len(tail) /\ \A i \in 1..Len(tail) : ops[9 + i] = tail[i]
      BY <1>1, <3>3, CreateOperations
    <3>5. Begin(ops)
      BY <3>1 DEF tail
    <3> HIDE DEF ops
    <3>6. ops[Len(ops)] = put(x, b)
      <4>1. 1 \in 1..Len(tail) /\ 9 + 1 = 9 + Len(tail)
        BY <3>3
      <4>2. QED
        BY <3>3, <3>4, <4>1
    <3>7. /\ UNCHANGED <<passwd, loggedIn, userRes, now>> /\ Store!create_event_dirs(u)
          /\ event' = Store!Put(event, n, Store!NewEvent(u, d, a, s, b))
      BY <1>4, <3>2, <3>4, <3>5, <3>6
    <3>8. QED
      BY <1>2, <2>1, <2>2, <3>1, <3>7 DEF Store!CreateHeader, Store!accounts
  <2>3. CASE outcome = "done" /\ Begin(started \o <<put(x, 0), put(x, s)>>) /\ UNCHANGED uploads
    <3> DEFINE tail == <<put(x, 0), put(x, s)>>
               ops == started \o tail
    <3>1. /\ tail \in Seq(Fitting) /\ Len(tail) = 2 /\ tail[2] = put(x, s)
          /\ \A i \in 1..Len(tail) : \E b \in Nat : tail[i] = put(x, b)
      <4>1. \A i \in 1..2 : i = 1 \/ i = 2
        OBVIOUS
      <4>2. QED
        BY <1>3, <4>1
    <3>2. Begin(ops)
      BY <2>3
    <3> HIDE DEF tail
    <3>3. Creates(ops, n, u, d, a, s) /\ Len(ops) = 9 + Len(tail) /\ \A i \in 1..Len(tail) : ops[9 + i] = tail[i]
      BY <1>1, <3>1, CreateOperations
    <3> HIDE DEF ops
    <3>4. ops[Len(ops)] = put(x, s)
      <4>1. 2 \in 1..Len(tail) /\ 9 + 2 = 9 + Len(tail)
        BY <3>1
      <4>2. QED
        BY <3>1, <3>3, <4>1
    <3>5. /\ UNCHANGED <<passwd, loggedIn, userRes, now>> /\ Store!create_event_dirs(u)
          /\ event' = Store!Put(event, n, Store!NewEvent(u, d, a, s, s))
      BY <1>3, <1>4, <3>2, <3>3, <3>4
    <3>6. QED
      BY <1>2, <2>1, <2>3, <3>5 DEF Store!CreateHeader, Store!accounts
  <2>4. CASE outcome = "destroyed" /\ Begin(started \o <<put(x, 0), remove(event_dir(n))>>) /\ UNCHANGED uploads
    <3> DEFINE tail == <<put(x, 0), remove(event_dir(n))>>
               ops == started \o tail
    <3>1. /\ tail \in Seq(Fitting) /\ Len(tail) = 2 /\ tail[2] = remove(event_dir(n))
          /\ \A i \in 1..Len(tail) :
                \/ \E b \in Nat : tail[i] = put(x, b)
                \/ tail[i] = remove(event_dir(n)) /\ i = Len(tail)
      <4>1. \A i \in 1..2 : i = 1 \/ i = 2
        OBVIOUS
      <4>2. remove(event_dir(n)) \in Fitting
        BY <1>1, PathsOfEvents, FittingRemove
      <4>3. QED
        BY <1>3, <4>1, <4>2
    <3>2. Begin(ops)
      BY <2>4
    <3> HIDE DEF tail
    <3>3. Creates(ops, n, u, d, a, s) /\ Len(ops) = 9 + Len(tail) /\ \A i \in 1..Len(tail) : ops[9 + i] = tail[i]
      BY <1>1, <3>1, CreateOperations
    <3> HIDE DEF ops
    <3>4. ops[Len(ops)] = remove(event_dir(n))
      <4>1. 2 \in 1..Len(tail) /\ 9 + 2 = 9 + Len(tail)
        BY <3>1
      <4>2. QED
        BY <3>1, <3>3, <4>1
    <3>5. /\ UNCHANGED <<passwd, loggedIn, userRes, now>> /\ Store!create_event_dirs(u) /\ event' = event
      BY <1>4, <3>2, <3>3, <3>4
    <3>6. QED
      BY <1>2, <2>1, <2>4, <3>5 DEF Store!CreateHeader, Store!accounts
  <2>5. QED
    BY <1>6, <2>2, <2>3, <2>4 DEF CreateHeader, n, outcome
<1>7. QED
  BY <1>5, <1>6

-----------------------------------------------------------------------------
(***************************************************************************)
(* Booking.                                                                *)
(***************************************************************************)
\* What Reserve does to the users' files.
RecordedBy(r, u, k, n) == [r EXCEPT ![u] = Store!Recorded(@, k, n)]

\* A number appended to one user's file is a number recorded there.
LEMMA BookingRead ==
    ASSUME NEW f, NEW g, now \in Times, NEW u \in UIDs, NEW e \in EIDs, NEW n,
           \A x : x[1] = "user_res" /\ x # user_res_path(u, now, e) => SameAt(f, g, x),
           Content(g, user_res_path(u, now, e), << >>) = Append(Content(f, user_res_path(u, now, e), << >>), n)
    PROVE  UserRes(g) = RecordedBy(UserRes(f), u, <<now, e>>, n)
<1> DEFINE mine(h, v) == [k \in Times \X EIDs |-> Content(h, user_res_path(v, k[1], k[2]), << >>)]
<1>1. ASSUME NEW v \in UIDs, NEW t \in Times, NEW m \in EIDs, v # u \/ t # now \/ m # e
      PROVE  Content(g, user_res_path(v, t, m), << >>) = Content(f, user_res_path(v, t, m), << >>)
  <2>1. user_res_path(v, t, m) # user_res_path(u, now, e)
    BY <1>1, OtherParts
  <2>2. QED
    BY <2>1, FirstParts, SameContent
<1>2. ASSUME NEW v \in UIDs, v # u
      PROVE  mine(g, v) = mine(f, v)
  <2>1. \A k \in Times \X EIDs : Content(g, user_res_path(v, k[1], k[2]), << >>)
                                   = Content(f, user_res_path(v, k[1], k[2]), << >>)
    BY <1>1, <1>2
  <2>2. QED
    BY <2>1
<1>3. mine(g, u) = Store!Recorded(mine(f, u), <<now, e>>, n)
  <2>1. ASSUME NEW k \in Times \X EIDs
        PROVE  Content(g, user_res_path(u, k[1], k[2]), << >>)
                  = IF k = <<now, e>> THEN Append(Content(f, user_res_path(u, k[1], k[2]), << >>), n)
                    ELSE Content(f, user_res_path(u, k[1], k[2]), << >>)
    <3>1. CASE k = <<now, e>>
      BY <3>1
    <3>2. CASE k # <<now, e>>
      <4>1. k[1] \in Times /\ k[2] \in EIDs /\ (k[1] # now \/ k[2] # e)
        BY <3>2
      <4>2. QED
        BY <1>1, <3>2, <4>1
    <3>3. QED
      BY <3>1, <3>2
  <2>2. <<now, e>> \in Times \X EIDs
    OBVIOUS
  <2>3. QED
    BY <2>1, <2>2 DEF Store!Recorded
<1>4. UserRes(f) = [v \in UIDs |-> mine(f, v)] /\ UserRes(g) = [v \in UIDs |-> mine(g, v)]
  BY DEF UserRes
<1> HIDE DEF mine
<1>5. QED
  BY <1>2, <1>3, <1>4 DEF RecordedBy

LEMMA RecordBooked ==
    ASSUME NEW f, NEW g, now \in Times, NEW u \in UIDs, NEW e \in EIDs, NEW n,
           \A x : InEventDir(x, e) /\ x # event_res_path(e, now, u) /\ x # event_total_res_path(e) => SameAt(f, g, x),
           Content(g, event_res_path(e, now, u), << >>) = Append(Content(f, event_res_path(e, now, u), << >>), n)
    PROVE  EventRecord(g, e) = Rebooked(EventRecord(f, e), ReadTotal(g, e),
                                        Store!Recorded(EventRecord(f, e).reservations, <<now, u>>, n))
<1>1. \A x \in {event_details_path(e), event_end_path(e), event_description_path(e)} : SameAt(f, g, x)
  BY PathsBelow, FirstParts
<1>2. ReadDetails(g, e) = ReadDetails(f, e)
  BY <1>1, SameContent DEF ReadDetails, Whole, SameAt
<1>3. Content(g, event_description_path(e), 0) = Content(f, event_description_path(e), 0)
  BY <1>1, SameContent
<1>4. event_end_path(e) \in DOMAIN g <=> event_end_path(e) \in DOMAIN f
  BY <1>1 DEF SameAt
<1>5. Reservations(g, e) = Store!Recorded(Reservations(f, e), <<now, u>>, n)
  <2>1. ASSUME NEW k \in Times \X UIDs
        PROVE  Content(g, event_res_path(e, k[1], k[2]), << >>)
                  = IF k = <<now, u>> THEN Append(Content(f, event_res_path(e, k[1], k[2]), << >>), n)
                    ELSE Content(f, event_res_path(e, k[1], k[2]), << >>)
    <3>1. CASE k = <<now, u>>
      BY <3>1
    <3>2. CASE k # <<now, u>>
      <4>1. k[1] \in Times /\ k[2] \in UIDs /\ (k[1] # now \/ k[2] # u)
        BY <3>2
      <4>2. event_res_path(e, k[1], k[2]) # event_res_path(e, now, u)
        BY <4>1, OtherParts
      <4>3. SameAt(f, g, event_res_path(e, k[1], k[2]))
        BY <4>1, <4>2, PathsBelow, FirstParts
      <4>4. QED
        BY <3>2, <4>3, SameContent
    <3>3. QED
      BY <3>1, <3>2
  <2>2. <<now, u>> \in Times \X UIDs
    OBVIOUS
  <2>3. QED
    BY <2>1, <2>2 DEF Reservations, Store!Recorded
<1> DEFINE d == ReadDetails(f, e)
           b == Content(f, event_description_path(e), 0)
           closed == event_end_path(e) \in DOMAIN f
           old == Reservations(f, e)
           recorded == Reservations(g, e)
           total == ReadTotal(g, e)
           was == ReadTotal(f, e)
<1>6. (event_end_path(e) \in DOMAIN g) = closed
  BY <1>4
<1>7. EventRecord(g, e) = Record(d.creator, d.date, d.attendance, d.filesize, b, total, closed, recorded)
  BY <1>2, <1>3, <1>6, RecordRead
<1>8. EventRecord(f, e) = Record(d.creator, d.date, d.attendance, d.filesize, b, was, closed, old)
  BY RecordRead
<1>9. EventRecord(f, e).reservations = old
  BY DEF EventRecord, Reservations
<1>10. recorded = Store!Recorded(old, <<now, u>>, n)
  BY <1>5
<1> HIDE DEF d, b, closed, old, recorded, total, was
<1>11. EventRecord(g, e) = Rebooked(EventRecord(f, e), total, recorded)
  BY <1>7, <1>8, BookedRecord
<1>12. QED
  BY <1>9, <1>10, <1>11 DEF total

LEMMA EventRebooked ==
    ASSUME NEW e \in DOMAIN event, NEW n, NEW k
    PROVE  [event EXCEPT ![e] = Rebooked(event[e], event[e].sold + n, Store!Recorded(event[e].reservations, k, n))]
              = [event EXCEPT ![e].sold = @ + n, ![e].reservations = Store!Recorded(@, k, n)]
BY DEF Rebooked

\* Where there is a directory to record the reservation in.
LEMMA ReserveImplements ==
    ASSUME IInv, Idle, NEW u \in UIDs, NEW p, NEW e \in EIDs, NEW n \in Seats,
           Reserve(u, p, e, n), event_reservations_dir(e) \in DOMAIN files
    PROVE  Store!Reserve(u, p, e, n)
<1> DEFINE ops == reserve(u, e, n)
           g == ApplyAll(files, ops)
           mine == user_res_path(u, now, e)
           its == event_res_path(e, now, u)
           total == event_total_res_path(e)
<1>1. /\ Store!reserve(u, p, e, n) = "ACC" /\ Begin(ops) /\ UNCHANGED uploads
      /\ Len(Content(files, mine, << >>)) < MaxRecords
  BY DEF Reserve
<1>2. n \in Nat /\ event[e].sold \in Int /\ now \in Times /\ WellFormed(files)
  BY <1>1, BookingFacts DEF IInv
<1>3. Sees(files)
  BY Found DEF Idle
<1>4. e \in DOMAIN event /\ event_dir(e) \in DOMAIN files
  <2>1. e \in DOMAIN event
    BY <1>1 DEF Store!reserve, Store!does_event_exist
  <2>2. event = Events(files)
    BY <1>3 DEF Sees
  <2>3. QED
    BY <2>1, <2>2 DEF Events
<1>5. /\ \A x : x \notin {mine, its, total} => SameAt(files, g, x)
      /\ LeftAt(g, total, event[e].sold + n)
      /\ LeftAt(g, mine, Append(Content(files, mine, << >>), n))
      /\ LeftAt(g, its, Append(Content(files, its, << >>), n))
  BY <1>2, Reserved
<1>6. SeesNext(g) /\ now' = now
  BY <1>1 DEF Begin
<1>7. mine[1] = "user_res" /\ its[1] = "event_res" /\ total[1] = "total_res" /\ mine \in Paths /\ its \in Paths
  BY <1>2, FirstParts, PathsOfEvents
<1> HIDE DEF ops, g
<1>8. /\ Content(g, mine, << >>) = Append(Content(files, mine, << >>), n)
      /\ Content(g, its, << >>) = Append(Content(files, its, << >>), n)
  <2>1. /\ Append(Content(files, mine, << >>), n) # Gone
        /\ Append(Content(files, its, << >>), n) # Gone
    <3>1. Content(files, mine, << >>) \in Seq(Nat) /\ Content(files, its, << >>) \in Seq(Nat)
      BY <1>2, <1>7, ReservationFile
    <3> DEFINE a == Content(files, mine, << >>)
               b == Content(files, its, << >>)
    <3> HIDE DEF a, b
    <3>2. a \in Seq(Nat) /\ b \in Seq(Nat)
      BY <3>1 DEF a, b
    <3>3. Append(a, n) \in Seq(Nat) /\ Append(b, n) \in Seq(Nat)
      BY <1>2, <3>2
    <3>4. QED
      BY <3>3, MarkersApart, Zenon DEF a, b
  <2>2. QED
    BY <1>5, <2>1 DEF LeftAt, Content
<1>9. ReadTotal(g, e) = event[e].sold + n
  <2>1. event[e].sold + n \in Int
    BY <1>2
  <2>2. event[e].sold + n # Gone /\ event[e].sold + n # Empty
    BY <2>1, MarkersApart
  <2>3. QED
    BY <1>5, <2>2 DEF LeftAt, ReadTotal, Whole
<1>10. userRes = UserRes(files) /\ userRes' = [userRes EXCEPT ![u] = Store!Recorded(@, <<now, e>>, n)]
  <2>1. \A x : x[1] = "user_res" /\ x # mine => SameAt(files, g, x)
    BY <1>5, <1>7
  <2>2. /\ now \in Times
        /\ Content(g, mine, << >>) = Append(Content(files, mine, << >>), n)
    BY <1>2, <1>8
  <2>3. UserRes(g) = RecordedBy(UserRes(files), u, <<now, e>>, n)
    BY <2>1, <2>2, BookingRead
  <2>4. QED
    BY <1>3, <1>6, <2>3 DEF Sees, SeesNext, RecordedBy
<1>11. event' = [event EXCEPT ![e].sold = @ + n, ![e].reservations = Store!Recorded(@, <<now, u>>, n)]
  <2>1. \A x : InEventDir(x, e) /\ x # its /\ x # total => SameAt(files, g, x)
    BY <1>5, <1>7 DEF InEventDir
  <2>2. EventRecord(g, e) = Rebooked(EventRecord(files, e), ReadTotal(g, e),
                                     Store!Recorded(EventRecord(files, e).reservations, <<now, u>>, n))
    BY <1>2, <1>8, <2>1, RecordBooked
  <2>3. event = Events(files) /\ event' = Events(g) /\ event[e] = EventRecord(files, e)
    BY <1>3, <1>4, <1>6 DEF Sees, SeesNext, Events
  <2>4. \A m \in EIDs : m # e => SameEvent(files, g, m)
    <3>1. its[2] = e /\ total[2] = e
      BY OtherParts
    <3>2. QED
      BY <1>5, <1>7, <3>1 DEF SameEvent, InEventDir
  <2>5. event_dir(e) \in DOMAIN g
    BY <1>4, <1>5, <1>7, FirstParts DEF SameAt
  <2>6. event' = [event EXCEPT ![e] = EventRecord(g, e)]
    BY <1>4, <2>3, <2>4, <2>5, EventChanged
  <2>7. event' = [event EXCEPT ![e] = Rebooked(event[e], event[e].sold + n,
                                               Store!Recorded(event[e].reservations, <<now, u>>, n))]
    BY <1>9, <2>2, <2>3, <2>6
  <2>8. QED
    BY <1>4, <2>7, EventRebooked
<1>12. UNCHANGED <<passwd, loggedIn, userEvents, lastEvent>>
  <2>1. SameAccounts(files, g)
    BY <1>5, <1>7, FirstParts DEF SameAccounts
  <2>2. \A m \in EIDs : SameLists(files, g, m)
    BY <1>5, <1>7, FirstParts DEF SameLists
  <2>3. SameAt(files, g, event_count_path)
    BY <1>5, <1>7, FirstParts
  <2>4. QED
    BY <1>3, <1>6, <2>1, <2>2, <2>3, SameAccountsRead, SameListsRead, SameCount DEF Sees, SeesNext
<1>13. Len(userRes[u][<<now, e>>]) < MaxRecords
  <2>1. <<now, e>> \in Times \X EIDs
    BY <1>2
  <2>2. userRes[u][<<now, e>>] = Content(files, mine, << >>)
    BY <1>10, <2>1 DEF UserRes
  <2>3. QED
    BY <1>1, <2>2
<1>14. QED
  BY <1>1, <1>6, <1>10, <1>11, <1>12, <1>13 DEF Store!Reserve, Store!accounts

\* Without one, the user's directory alone records it; and only a removal cut
\* short leaves an event that can be booked without one.
LEMMA ReservedHalf ==
    ASSUME IInv, Idle, NEW u \in UIDs, NEW p, NEW e \in EIDs, NEW n \in Seats,
           Reserve(u, p, e, n), event_reservations_dir(e) \notin DOMAIN files
    PROVE  BooksHalfRemoved
<1> DEFINE ops == reserve(u, e, n)
           g == ApplyAll(files, ops)
           mine == user_res_path(u, now, e)
           held == Content(files, mine, << >>)
<1>1. Store!reserve(u, p, e, n) = "ACC" /\ Begin(ops)
  BY DEF Reserve
<1>2. /\ n \in Nat /\ event[e].sold \in Int /\ now \in Times /\ WellFormed(files)
      /\ Whole(files, event_details_path(e))
  <2>1. Sees(files) /\ WellFormed(files) /\ now \in Times
    BY Found DEF Idle, IInv
  <2>2. QED
    BY <1>1, <2>1, ReserveGuard DEF Sees
<1>3. e \in torn
  BY <1>2, Found DEF Idle, Sound, Booked
<1>4. held \in Seq(Nat) /\ Append(held, n) \in Seq(Nat) /\ Append(held, n) # held
  <2>1. held \in Seq(Nat)
    BY <1>2, PathsOfEvents, ReservationFile, FirstParts
  <2> HIDE DEF held
  <2>2. QED
    BY <1>2, <2>1
<1>5. LeftAt(g, mine, Append(held, n))
  <2>1. Append(held, n) # Gone
    BY <1>4, MarkersApart
  <2> HIDE DEF held, mine
  <2>2. ops \in Seq(Fitting) /\ ops[Len(ops)] = put(mine, Append(held, n)) /\ Len(ops) = 4
    BY <1>2, ReserveOperations DEF held, mine
  <2> HIDE DEF ops
  <2>3. Concerns(ops[4], mine) /\ ops[4].content = Append(held, n)
    <3> DEFINE more == Append(held, n)
    <3>1. ops[4] = put(mine, more)
      BY <2>2
    <3> HIDE DEF more
    <3>2. more # Gone
      BY <2>1 DEF more
    <3>3. Concerns(put(mine, more), mine) /\ put(mine, more).content = more
      BY <3>2, ConcernsPut, PutParts
    <3>4. QED
      BY <3>1, <3>3 DEF more
  <2>4. 4 \in Nat /\ 4 \in 1..4 /\ \A j \in 1..4 : ~(j > 4)
    OBVIOUS
  <2>5. LeftAt(Tree(files, ops, 4), mine, ops[4].content)
    BY <2>3, <2>4, LastLeft
  <2>6. QED
    BY <2>2, <2>3, <2>5 DEF ApplyAll
<1>6. userRes = UserRes(files) /\ userRes' = UserRes(g)
  BY <1>1, Found DEF Idle, Begin, Sees, SeesNext
<1> HIDE DEF g, ops
<1>7. userRes'[u][<<now, e>>] = Append(held, n) /\ userRes[u][<<now, e>>] = held
  <2>1. Append(held, n) # Gone
    BY <1>4, MarkersApart
  <2>2. Content(g, mine, << >>) = Append(held, n)
    BY <1>5, <2>1 DEF LeftAt, Content
  <2> HIDE DEF held
  <2>3. <<now, e>> \in Times \X EIDs
    BY <1>2
  <2>4. UserRes(g)[u][<<now, e>>] = Content(g, mine, << >>) /\ UserRes(files)[u][<<now, e>>] = Content(files, mine, << >>)
    BY <2>3 DEF UserRes
  <2>5. QED
    BY <1>6, <2>2, <2>4 DEF held
<1>8. QED
  BY <1>2, <1>3, <1>4, <1>7 DEF BooksHalfRemoved

-----------------------------------------------------------------------------
(***************************************************************************)
(* The server's other steps, and the refinement.                           *)
(***************************************************************************)
LEMMA CreateThrowsImplements ==
    ASSUME Idle, NEW u, NEW p, CreateThrows(u, p)
    PROVE  Store!Next \/ UNCHANGED Store!vars
<1>1. /\ uploads' = << >> /\ UNCHANGED <<passwd, loggedIn, userEvents, userRes, lastEvent, event, now>>
  BY DEF CreateThrows, view
<1>2. CASE uploads = << >>
  BY <1>1, <1>2 DEF Store!vars
<1>3. CASE uploads # << >>
  BY <1>1, <1>3 DEF Store!Restart, Store!accounts, Store!Next
<1>4. QED
  BY <1>2, <1>3

LEMMA HandleImplements ==
    ASSUME IInv, Handle
    PROVE  BooksHalfRemoved \/ Store!Next \/ UNCHANGED Store!vars
<1>1. Idle
  BY DEF Handle
<1>2. Store!Times = Times /\ Store!EIDs = EIDs
  BY DEF Store!Times, Times, Store!EIDs, EIDs
<1>3. ASSUME NEW u \in UIDs, NEW p \in Passwords,
             \/ Login(u, p) \/ Logout(u, p) \/ Unregister(u, p)
             \/ \E new \in Passwords : ChangePass(u, p, new)
      PROVE  Store!Next
  BY <1>1, <1>3, AccountsImplement
<1>4. ASSUME NEW u \in UIDs, NEW p \in Passwords, CreateThrows(u, p)
      PROVE  Store!Next \/ UNCHANGED Store!vars
  BY <1>1, <1>4, CreateThrowsImplements
<1>5. ASSUME NEW u \in UIDs, NEW p \in Passwords, NEW e \in EIDs,
             Close(u, p, e) \/ \E n \in Seats : Reserve(u, p, e, n)
      PROVE  BooksHalfRemoved \/ Store!Next
  <2>1. \/ Store!Close(u, p, e) \/ \E n \in Seats : Store!Reserve(u, p, e, n)
        \/ BooksHalfRemoved
    BY <1>1, <1>5, CloseImplements, ReserveImplements, ReservedHalf
  <2>2. Store!BookingStep \/ BooksHalfRemoved
    BY <1>2, <2>1 DEF Store!BookingStep
  <2>3. QED
    BY <2>2 DEF Store!Next
<1>6. ASSUME NEW u \in UIDs, NEW p \in Passwords,
             NEW c \in Connections, NEW d \in Times, NEW a \in Attendances, NEW s \in FileSizes,
             \/ \E k \in 0..MaxRead, newline \in BOOLEAN : CreateHeader(c, u, p, d, a, s, k, newline)
             \/ CreateCannotOpen(c, u, p, d, a, s)
      PROVE  Store!Next
  <2>1. \/ \E k \in 0..MaxRead, newline \in BOOLEAN : Store!CreateHeader(c, u, p, d, a, s, k, newline)
        \/ Store!CreateCannotOpen(c, u, p, d, a, s)
    BY <1>1, <1>6, CreateImplements
  <2>2. Store!UploadStep
    BY <1>2, <2>1, Zenon DEF Store!UploadStep
  <2>3. QED
    BY <2>2 DEF Store!Next
<1>7. ASSUME NEW c \in Connections,
             \/ \E k \in 1..MaxRead, newline \in BOOLEAN : UploadData(c, k, newline)
             \/ Disconnect(c)
      PROVE  Store!Next
  <2>1. \/ \E k \in 1..MaxRead, newline \in BOOLEAN : Store!UploadData(c, k, newline)
        \/ Store!Disconnect(c)
    BY <1>1, <1>7, UploadImplements, DisconnectImplements
  <2>2. Store!UploadStep
    BY <2>1, Zenon DEF Store!UploadStep
  <2>3. QED
    BY <2>2 DEF Store!Next
<1>8. QED
  BY <1>3, <1>4, <1>5, <1>6, <1>7, Zenon DEF Handle

\* A process that ends while no handler runs loses its creates under way.
LEMMA CrashImplements ==
    ASSUME IInv, Crash, ~Interrupts
    PROVE  Store!Next \/ UNCHANGED Store!vars
<1>1. SeesNext(files) /\ uploads' = << >> /\ now' = now /\ crashes' = crashes + 1
  BY DEF Crash
<1>2. todo = << >>
  <2>1. crashes \in Nat
    BY CrashAssumption DEF IInv
  <2>2. QED
    BY <1>1, <2>1 DEF Interrupts
<1>3. UNCHANGED <<passwd, loggedIn, userEvents, userRes, lastEvent, event>>
  BY <1>1, <1>2, Found DEF Sees, SeesNext
<1>4. CASE uploads = << >>
  BY <1>1, <1>3, <1>4 DEF Store!vars
<1>5. CASE uploads # << >>
  BY <1>1, <1>3, <1>5 DEF Store!Restart, Store!accounts, Store!Next
<1>6. QED
  BY <1>4, <1>5

\* A counter that is missing reads as the one start-up writes.
LEMMA StartImplements ==
    ASSUME IInv, IInv', Start
    PROVE  UNCHANGED Store!vars
<1> DEFINE g == ApplyAll(files, todo')
<1>1. ~up /\ todo' = start_up(files) /\ SeesNext(g) /\ UNCHANGED <<uploads, now>>
  BY DEF Start
<1>2. Sees(files)
  BY <1>1, Found DEF IInv
<1>3. lastEvent' = lastEvent
  BY StartCount
<1>4. ASSUME NEW x, x # event_count_path
      PROVE  SameAt(files, g, x)
  <2> DEFINE ops == todo'
  <2>1. \A i \in 1..Len(ops) : ~Concerns(ops[i], x)
    <3>1. CASE event_count_path \in DOMAIN files
      BY <1>1, <3>1 DEF start_up
    <3>2. CASE event_count_path \notin DOMAIN files
      <4> DEFINE o1 == put(event_count_path, Empty)
                 o2 == put(event_count_path, 0)
      <4>1. ~Concerns(o1, x) /\ ~Concerns(o2, x)
        <5>1. 0 # Gone /\ Empty # Gone
          BY MarkersApart
        <5>2. QED
          BY <1>4, <5>1, ConcernsPut
      <4> HIDE DEF o1, o2
      <4>2. ops = <<o1, o2>>
        BY <1>1, <3>2 DEF start_up, o1, o2
      <4>3. \A i \in 1..2 : i = 1 \/ i = 2
        OBVIOUS
      <4>4. Len(ops) = 2 /\ ops[1] = o1 /\ ops[2] = o2
        BY <4>2
      <4>5. QED
        BY <4>1, <4>3, <4>4
    <3>3. QED
      BY <3>1, <3>2
  <2>2. Len(ops) \in Nat
    BY DEF IInv, Safe
  <2> HIDE DEF ops
  <2>3. SameAt(files, Tree(files, ops, Len(ops)), x)
    BY <2>1, <2>2, Untouched
  <2>4. QED
    BY <2>3 DEF ApplyAll, ops
<1> HIDE DEF g
<1>5. SameAccounts(files, g)
  BY <1>4, FirstParts DEF SameAccounts
<1>6. \A e \in EIDs : SameEvent(files, g, e)
  BY <1>4, FirstParts DEF SameEvent, InEventDir
<1>7. \A e \in EIDs : SameLists(files, g, e)
  BY <1>4, FirstParts DEF SameLists
<1>8. \A e \in EIDs : SameBookings(files, g, e)
  BY <1>4, FirstParts DEF SameBookings
<1>9. QED
  BY <1>1, <1>2, <1>3, <1>5, <1>6, <1>7, <1>8,
     SameAccountsRead, SameEventsRead, SameListsRead, SameBookingsRead DEF Sees, SeesNext, Store!vars

LEMMA StepImplements ==
    ASSUME IInv, IInv', [Next]_vars
    PROVE  Interrupts \/ BooksHalfRemoved \/ Store!Next \/ UNCHANGED Store!vars
<1>1. CASE Handle
  BY <1>1, HandleImplements
<1>2. CASE Write
  BY <1>2 DEF Write, view, Store!vars
<1>3. CASE Crash
  BY <1>3, CrashImplements
<1>4. CASE Start
  BY <1>4, StartImplements
<1>5. CASE Tick
  <2>1. Store!Tick
    BY <1>5 DEF Tick, view, Store!Tick, Store!accounts
  <2>2. QED
    BY <2>1 DEF Store!Next
<1>6. CASE UNCHANGED vars
  BY <1>6 DEF vars, view, Store!vars
<1>7. QED
  BY <1>1, <1>2, <1>3, <1>4, <1>5, <1>6 DEF Next

LEMMA InitImplements == Init => Store!Init
<1> SUFFICES ASSUME Init
             PROVE  Store!Init
  OBVIOUS
<1>1. files = << >> /\ Sees(files) /\ uploads = << >> /\ now = 0
  BY DEF Init
<1>2. \A x : x \notin DOMAIN files
  BY <1>1
<1>3. passwd = << >>
  <2>1. {u \in UIDs : password_path(u) \in DOMAIN files} = {}
    BY <1>2
  <2>2. QED
    BY <1>1, <2>1 DEF Sees, Accounts
<1>4. event = << >>
  <2>1. {n \in EIDs : event_dir(n) \in DOMAIN files} = {}
    BY <1>2
  <2>2. QED
    BY <1>1, <2>1 DEF Sees, Events
<1>5. loggedIn = {} /\ lastEvent = 0
  BY <1>1, <1>2, MarkersApart DEF Sees, LoggedIn, LastEvent, Content
<1>6. userEvents = [u \in UIDs |-> {}]
  <2>1. \A u \in UIDs : {e \in EIDs : user_event_path(u, e) \in DOMAIN files} = {}
    BY <1>2
  <2>2. QED
    BY <1>1, <2>1 DEF Sees, UserEvents
<1>7. userRes = [u \in UIDs |-> [k \in Store!Times \X Store!EIDs |-> << >>]]
  <2>1. \A x : Content(files, x, << >>) = << >>
    BY <1>2 DEF Content
  <2>2. QED
    BY <1>1, <2>1 DEF Sees, UserRes, Store!Times, Store!EIDs, Times, EIDs
<1>8. QED
  BY <1>1, <1>3, <1>4, <1>5, <1>6, <1>7 DEF Store!Init

\* On whatever tree earlier crashes have left, the server's files change as
\* EventStore says: whatever a handler truncates, fills, creates and removes one
\* after another, what its readers make of the tree it leaves is EventStore's
\* action for that request, and a process that ends between two requests loses
\* what EventStore's Restart loses.  The two exceptions are the crash that cuts a
\* handler short, and a reservation of an event half removed by such a crash.
THEOREM Implements == Spec => ImplementsStore
<1>1. IInv /\ IInv' /\ [Next]_vars
         => [Interrupts \/ BooksHalfRemoved \/ Store!Next \/ UNCHANGED Store!vars]_vars
  BY StepImplements
<1>2. QED
  BY <1>1, Invariant, InitImplements, PTL DEF Spec, ImplementsStore

-----------------------------------------------------------------------------
(***************************************************************************)
(* What was answered for stays.                                            *)
(***************************************************************************)
\* What AnsweredStays says of one event.
Outlasts(q, r) ==
    /\ Terms(r) = Terms(q)
    /\ SeatsIn(q.reservations) \subseteq SeatsIn(r.reservations)
    /\ q.closed => r.closed /\ r.reservations = q.reservations
Kept(e) == e \in DOMAIN event' /\ Outlasts(event[e], event'[e])

LEMMA RecordOutlasts ==
    ASSUME NEW f, NEW g, NEW e \in EIDs, event = Events(f), event' = Events(g), e \in DOMAIN event,
           event_dir(e) \in DOMAIN g, ReadDetails(f, e) = ReadDetails(g, e),
           SameAt(f, g, event_description_path(e)),
           event_end_path(e) \in DOMAIN f => event_end_path(e) \in DOMAIN g,
           SeatsIn(Reservations(f, e)) \subseteq SeatsIn(Reservations(g, e)),
           event_end_path(e) \in DOMAIN f => Reservations(f, e) = Reservations(g, e)
    PROVE  Kept(e)
<1> DEFINE q == EventRecord(f, e)
           r == EventRecord(g, e)
<1>1. e \in DOMAIN event' /\ event[e] = q /\ event'[e] = r
  BY DEF Events
<1>2. Content(f, event_description_path(e), 0) = Content(g, event_description_path(e), 0)
  BY SameContent
<1>3. /\ q.creator = ReadDetails(f, e).creator /\ r.creator = ReadDetails(g, e).creator
      /\ q.date = ReadDetails(f, e).date /\ r.date = ReadDetails(g, e).date
      /\ q.attendance = ReadDetails(f, e).attendance /\ r.attendance = ReadDetails(g, e).attendance
      /\ q.filesize = ReadDetails(f, e).filesize /\ r.filesize = ReadDetails(g, e).filesize
      /\ q.description = Content(f, event_description_path(e), 0)
      /\ r.description = Content(g, event_description_path(e), 0)
  BY RecordRead DEF Record
<1>4. /\ q.reservations = Reservations(f, e) /\ r.reservations = Reservations(g, e)
      /\ q.closed <=> event_end_path(e) \in DOMAIN f
      /\ r.closed <=> event_end_path(e) \in DOMAIN g
  BY RecordRead DEF Record
<1> HIDE DEF q, r
<1>5. Terms(r) = Terms(q)
  BY <1>2, <1>3 DEF Terms
<1>6. QED
  BY <1>1, <1>4, <1>5 DEF Kept, Outlasts

\* Two trees that agree below an event's directory.
LEMMA KeptSame ==
    ASSUME NEW f, NEW g, NEW e \in EIDs, event = Events(f), event' = Events(g), e \in DOMAIN event,
           \A x : About(x, e) => SameAt(f, g, x)
    PROVE  Kept(e)
<1>1. SameEvent(f, g, e)
  BY PathsApart DEF SameEvent
<1>2. e \in DOMAIN event' /\ event'[e] = event[e]
  BY <1>1, SameRecord DEF Events
<1>3. QED
  BY <1>2 DEF Kept, Outlasts

\* A handler that writes of other events only.
LEMMA KeptElsewhere ==
    ASSUME IInv, Idle, NEW ops, Begin(ops), Len(ops) \in Nat, NEW e \in DOMAIN event,
           \A i \in 1..Len(ops) : ~About(ops[i].path, e)
    PROVE  Kept(e)
<1>1. event = Events(files) /\ event' = Events(ApplyAll(files, ops)) /\ e \in EIDs
  BY Found DEF Idle, Sees, Begin, SeesNext, Events
<1>2. \A x : About(x, e) => SameAt(files, ApplyAll(files, ops), x)
  BY <1>1, Elsewhere DEF ApplyAll
<1>3. QED
  BY <1>1, <1>2, KeptSame

LEMMA CreateKeeps ==
    ASSUME IInv, IInv', Idle, NEW c, NEW u \in UIDs, NEW p, NEW d \in Times, NEW a \in Attendances, NEW s \in FileSizes,
           \/ \E k \in 0..MaxRead, newline \in BOOLEAN : CreateHeader(c, u, p, d, a, s, k, newline)
           \/ CreateCannotOpen(c, u, p, d, a, s),
           NEW e \in DOMAIN event
    PROVE  Kept(e)
<1> DEFINE n == lastEvent + 1
<1>1. /\ \E ops : Begin(ops) /\ Creating(ops)
      /\ n \in EIDs /\ \A x \in DOMAIN files : ~About(x, n)
  BY CreateKind
<1>2. e \in EIDs /\ e # n
  <2>1. e \in EIDs /\ event_dir(e) \in DOMAIN files
    BY Found DEF Idle, Sees, Events
  <2>2. About(event_dir(e), e)
    BY <2>1, PathsBelow, PathsApart
  <2>3. QED
    BY <1>1, <2>1, <2>2
<1> HIDE DEF n
<1>3. PICK ops : Begin(ops) /\ Creating(ops)
  BY <1>1
<1>4. PICK v \in UIDs, t \in Times, b \in Attendances, z \in FileSizes : Creates(ops, n, v, t, b, z)
  BY <1>3 DEF Creating, n
<1>5. [creator |-> v, date |-> t, attendance |-> b, filesize |-> z] \in Details
  BY DEF Details
<1>6. ASSUME NEW i \in 1..Len(ops)
      PROVE  ~About(ops[i].path, e)
  <2>1. ops[i].path = event_count_path \/ About(ops[i].path, n)
    <3>1. Len(ops) \in Nat
      BY <1>4 DEF Creates
    <3>2. i <= 2 \/ i > 2
      BY <3>1
    <3>3. QED
      BY <1>1, <1>4, <1>5, <3>2, CreatePaths
  <2>2. QED
    BY <1>1, <1>2, <2>1, PathsApart
<1>7. Len(ops) \in Nat
  BY <1>4 DEF Creates
<1>8. QED
  BY <1>3, <1>6, <1>7, KeptElsewhere

\* A create under way writes and removes its own event only.
LEMMA UploadKeeps ==
    ASSUME IInv, Idle, NEW c,
           \/ \E k \in 1..MaxRead, newline \in BOOLEAN : UploadData(c, k, newline)
           \/ Disconnect(c),
           NEW e \in DOMAIN event, ~Store!Pending(e)
    PROVE  Kept(e)
<1> DEFINE n == uploads[c].eid
<1>1. c \in DOMAIN uploads
  BY DEF UploadData, Disconnect
<1>2. n \in EIDs /\ n # e
  BY <1>1, UnderWay DEF Store!Pending
<1>3. ASSUME NEW x \in {event_description_path(n), event_dir(n)}, NEW b, Begin(<<put(x, b)>>)
      PROVE  Kept(e)
  <2> DEFINE ops == <<put(x, b)>>
  <2>1. Len(ops) = 1 /\ ops[1].path = x /\ \A i \in 1..1 : i = 1
    BY PutParts
  <2>2. ~About(x, e)
    <3>1. About(x, n)
      BY <1>2, <1>3, PathsBelow, PathsApart
    <3>2. QED
      BY <1>2, <3>1, PathsApart
  <2> HIDE DEF ops
  <2>3. Len(ops) \in Nat /\ \A i \in 1..Len(ops) : ~About(ops[i].path, e)
    BY <2>1, <2>2
  <2>4. QED
    BY <1>3, <2>3, KeptElsewhere DEF ops
<1>4. \E x \in {event_description_path(n), event_dir(n)} : \E b : Begin(<<put(x, b)>>)
  BY DEF UploadData, Disconnect, remove
<1>5. QED
  BY <1>3, <1>4

LEMMA CloseKeeps ==
    ASSUME IInv, Idle, NEW u, NEW p, NEW n \in EIDs, Close(u, p, n), NEW e \in DOMAIN event
    PROVE  Kept(e)
<1> DEFINE x == event_end_path(n)
           ops == <<put(x, Empty)>>
           g == ApplyAll(files, ops)
<1>1. Begin(ops)
  BY DEF Close
<1>2. Empty # Gone /\ InEventDir(x, n) /\ x # event_dir(n)
  BY MarkersApart, PathsBelow, FirstParts
<1>3. event = Events(files) /\ event' = Events(g) /\ e \in EIDs /\ event_dir(e) \in DOMAIN files
  BY <1>1, Found DEF Idle, Sees, Begin, SeesNext, Events
<1>4. LeftAt(g, x, Empty) /\ \A y : y # x => SameAt(files, g, y)
  BY <1>2, OneWritten
<1> HIDE DEF ops, g
<1>5. CASE e # n
  <2>1. ~About(x, e)
    BY <1>2, <1>5, PathsApart
  <2>2. \A y : About(y, e) => SameAt(files, g, y)
    BY <1>4, <2>1
  <2>3. QED
    BY <1>3, <2>2, KeptSame
<1>6. CASE e = n
  <2>1. /\ ReadDetails(files, e) = ReadDetails(g, e) /\ Reservations(files, e) = Reservations(g, e)
        /\ SameAt(files, g, event_description_path(e)) /\ SameAt(files, g, event_dir(e))
    BY <1>4, FirstParts, RestRead
  <2>2. event_end_path(e) \in DOMAIN g /\ event_dir(e) \in DOMAIN g
    BY <1>2, <1>3, <1>4, <1>6, <2>1 DEF LeftAt, SameAt
  <2>3. QED
    BY <1>3, <2>1, <2>2, RecordOutlasts
<1>7. QED
  BY <1>5, <1>6

\* With a directory to record the reservation in or without one.
LEMMA ReserveKeeps ==
    ASSUME IInv, Idle, NEW u \in UIDs, NEW p, NEW m \in EIDs, NEW n \in Seats, Reserve(u, p, m, n),
           NEW e \in DOMAIN event
    PROVE  Kept(e)
<1> DEFINE ops == reserve(u, m, n)
           g == ApplyAll(files, ops)
           r == Reservations(files, m)
<1>1. Store!reserve(u, p, m, n) = "ACC" /\ Begin(ops)
  BY DEF Reserve
<1>2. n \in Nat /\ event[m].sold \in Int /\ now \in Times /\ WellFormed(files)
  BY <1>1, Found, BookingFacts DEF Idle, IInv
<1>3. event = Events(files) /\ event' = Events(g) /\ e \in EIDs /\ event_dir(e) \in DOMAIN files
  BY <1>1, Found DEF Idle, Sees, Begin, SeesNext, Events
<1>4. /\ \A x : x \notin {user_res_path(u, now, m), event_res_path(m, now, u), event_total_res_path(m)}
                  => SameAt(files, g, x)
      /\ Reservations(g, m) \in {r, Recorded(r, <<now, u>>, n)}
  <2>1. Len(ops) = 4 \/ Len(ops) = 6
    BY <1>2, ReserveOperations
  <2> HIDE DEF ops, g, r
  <2>2. Len(ops) \in 1..Len(ops)
    <3>1. 4 \in 1..4 /\ 6 \in 1..6
      OBVIOUS
    <3>2. QED
      BY <2>1, <3>1, Zenon
  <2>3. QED
    BY <1>2, <2>2, ReserveCuts DEF ops, g, r, ApplyAll
<1> HIDE DEF ops, g
<1>5. CASE e # m
  <2>1. /\ ~About(user_res_path(u, now, m), e) /\ ~About(event_res_path(m, now, u), e)
        /\ ~About(event_total_res_path(m), e)
    BY <1>2, <1>5, PathsApart
  <2>2. \A x : About(x, e) => SameAt(files, g, x)
    BY <1>4, <2>1
  <2>3. QED
    BY <1>3, <2>2, KeptSame
<1>6. CASE e = m
  <2>1. /\ SameAt(files, g, event_details_path(e)) /\ SameAt(files, g, event_description_path(e))
        /\ SameAt(files, g, event_dir(e)) /\ SameAt(files, g, event_end_path(e))
    BY <1>4, FirstParts
  <2>2. ReadDetails(files, e) = ReadDetails(g, e)
    BY <2>1, SameContent DEF ReadDetails, Whole, SameAt
  <2>3. event_end_path(e) \notin DOMAIN files
    <3>1. ~event[e].closed
      BY <1>1, <1>6 DEF Store!reserve
    <3>2. QED
      BY <1>3, <3>1 DEF Events, EventRecord
  <2>4. SeatsIn(r) \subseteq SeatsIn(Reservations(g, m))
    <3>1. r \in [Times \X UIDs -> Seq(Nat)] /\ <<now, u>> \in Times \X UIDs
      BY <1>2, ReservationsType
    <3> HIDE DEF r
    <3>2. SeatsIn(r) \subseteq SeatsIn(Recorded(r, <<now, u>>, n))
      BY <1>2, <3>1, SeatsKept
    <3>3. QED
      BY <1>4, <3>2
  <2>5. event_dir(e) \in DOMAIN g
    BY <1>3, <2>1 DEF SameAt
  <2>6. QED
    BY <1>3, <1>6, <2>1, <2>2, <2>3, <2>4, <2>5, RecordOutlasts
<1>7. QED
  BY <1>5, <1>6

LEMMA HandleKeeps ==
    ASSUME IInv, IInv', Handle, NEW e \in DOMAIN event, ~Store!Pending(e)
    PROVE  Kept(e)
<1>1. Idle
  BY DEF Handle
<1>2. ASSUME NEW u \in UIDs, NEW p \in Passwords,
             \/ Login(u, p) \/ Logout(u, p) \/ Unregister(u, p)
             \/ \E new \in Passwords : ChangePass(u, p, new)
      PROVE  Kept(e)
  <2>1. PICK ops : Begin(ops) /\ Accounting(ops)
    BY <1>2, AccountKind
  <2>2. Len(ops) \in Nat
    BY <2>1 DEF Begin, IInv, Safe
  <2>3. QED
    BY <1>1, <2>1, <2>2, KeptElsewhere DEF Accounting
<1>3. ASSUME NEW u \in UIDs, NEW p \in Passwords, CreateThrows(u, p)
      PROVE  Kept(e)
  BY <1>3 DEF CreateThrows, view, Kept, Outlasts
<1>4. ASSUME NEW u \in UIDs, NEW p \in Passwords, NEW n \in EIDs,
             Close(u, p, n) \/ \E k \in Seats : Reserve(u, p, n, k)
      PROVE  Kept(e)
  BY <1>1, <1>4, CloseKeeps, ReserveKeeps
<1>5. ASSUME NEW u \in UIDs, NEW p \in Passwords,
             NEW c \in Connections, NEW d \in Times, NEW a \in Attendances, NEW s \in FileSizes,
             \/ \E k \in 0..MaxRead, newline \in BOOLEAN : CreateHeader(c, u, p, d, a, s, k, newline)
             \/ CreateCannotOpen(c, u, p, d, a, s)
      PROVE  Kept(e)
  BY <1>1, <1>5, CreateKeeps
<1>6. ASSUME NEW c \in Connections,
             \/ \E k \in 1..MaxRead, newline \in BOOLEAN : UploadData(c, k, newline)
             \/ Disconnect(c)
      PROVE  Kept(e)
  BY <1>1, <1>6, UploadKeeps
<1>7. QED
  BY <1>2, <1>3, <1>4, <1>5, <1>6, Zenon DEF Handle

\* A crash leaves every event the interrupted handler was not to write of as
\* that handler would have left it.
LEMMA CrashKeeps ==
    ASSUME IInv, Crash, NEW e \in DOMAIN event, ~CutShort(e)
    PROVE  Kept(e)
<1> DEFINE g == ApplyAll(files, todo)
<1>1. event = Events(g) /\ event' = Events(files) /\ todo \in Seq(Fitting)
  BY DEF IInv, Sees, Crash, SeesNext, Safe
<1>2. crashes' # crashes
  BY CrashAssumption DEF IInv, Crash
<1>3. Len(todo) \in Nat /\ \A i \in 1..Len(todo) : ~About(todo[i].path, e)
  BY <1>1, <1>2 DEF CutShort
<1>4. e \in EIDs
  BY <1>1 DEF Events
<1>5. \A x : About(x, e) => SameAt(files, g, x)
  BY <1>3, <1>4, Elsewhere DEF ApplyAll
<1> HIDE DEF g
<1>6. \A x : About(x, e) => SameAt(g, files, x)
  BY <1>5 DEF SameAt
<1>7. QED
  BY <1>1, <1>4, <1>6, KeptSame

LEMMA StepKeeps ==
    ASSUME IInv, IInv', [Next]_vars, NEW e \in DOMAIN event, ~Store!Pending(e), ~CutShort(e)
    PROVE  Kept(e)
<1>1. CASE Handle
  BY <1>1, HandleKeeps
<1>2. CASE Crash
  BY <1>2, CrashKeeps
<1>3. CASE event' = event
  BY <1>3 DEF Kept, Outlasts
<1>4. Start => event' = event
  BY StartImplements DEF Store!vars
<1>5. Write \/ Tick \/ UNCHANGED vars => event' = event
  BY DEF Write, Tick, vars, view
<1>6. QED
  BY <1>1, <1>2, <1>3, <1>4, <1>5 DEF Next

\* Whatever the server has answered for outlives every crash: an event whose
\* create has ended stays in its terms, a reservation on file stays on file, and
\* an event that was closed stays closed and gets no more of them.  Only the
\* event the interrupted handler was about is exposed.
THEOREM Answered == Spec => AnsweredStays
<1> DEFINE Stay == \A e \in DOMAIN event :
          ~Store!Pending(e) /\ ~CutShort(e) =>
              /\ e \in DOMAIN event'
              /\ Terms(event'[e]) = Terms(event[e])
              /\ SeatsIn(event[e].reservations) \subseteq SeatsIn(event'[e].reservations)
              /\ event[e].closed =>
                    event'[e].closed /\ event'[e].reservations = event[e].reservations
<1>1. IInv /\ IInv' /\ [Next]_vars => Stay
  BY StepKeeps DEF Kept, Outlasts
<1>2. IInv /\ IInv' /\ [Next]_vars => [Stay]_vars
  BY <1>1
<1>3. QED
  BY <1>2, Invariant, PTL DEF Spec, AnsweredStays

=============================================================================
