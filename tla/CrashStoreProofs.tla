-------------------------- MODULE CrashStoreProofs --------------------------
(***************************************************************************)
(* What is proved about CrashStore, wherever and however often the process *)
(* ends, for every user, request and limit.                                *)
(***************************************************************************)
EXTENDS CrashStore, LedgerProofs, WellFoundedInduction

-----------------------------------------------------------------------------
(***************************************************************************)
(* Paths: what a path is about can be read off it.                         *)
(***************************************************************************)
LEMMA FirstParts ==
    /\ event_count_path[1] = "count"
    /\ \A u : password_path(u)[1] = "passwd" /\ logged_in_path(u)[1] = "logged_in"
    /\ \A u, e : user_event_path(u, e)[1] = "user_event"
    /\ \A u, t, e : user_res_path(u, t, e)[1] = "user_res" /\ event_res_path(e, t, u)[1] = "event_res"
    /\ \A e : /\ event_dir(e)[1] = "dir" /\ event_reservations_dir(e)[1] = "reservations"
              /\ event_total_res_path(e)[1] = "total_res" /\ event_details_path(e)[1] = "details"
              /\ event_end_path(e)[1] = "end" /\ event_description_path(e)[1] = "description"
BY DEF event_count_path, password_path, logged_in_path, user_event_path, user_res_path,
       event_res_path, event_dir, event_reservations_dir, event_total_res_path,
       event_details_path, event_end_path, event_description_path

LEMMA OtherParts ==
    /\ event_count_path[2] = 0
    /\ \A u : password_path(u)[2] = u /\ logged_in_path(u)[2] = u
    /\ \A u, e : user_event_path(u, e)[2] = e /\ user_event_path(u, e)[3] = u
    /\ \A u, t, e : /\ user_res_path(u, t, e)[2] = e /\ event_res_path(e, t, u)[2] = e
                    /\ user_res_path(u, t, e)[3] = t /\ event_res_path(e, t, u)[3] = t
                    /\ user_res_path(u, t, e)[4] = u /\ event_res_path(e, t, u)[4] = u
    /\ \A e : /\ event_dir(e)[2] = e /\ event_reservations_dir(e)[2] = e
              /\ event_total_res_path(e)[2] = e /\ event_details_path(e)[2] = e
              /\ event_end_path(e)[2] = e /\ event_description_path(e)[2] = e
BY DEF event_count_path, password_path, logged_in_path, user_event_path, user_res_path,
       event_res_path, event_dir, event_reservations_dir, event_total_res_path,
       event_details_path, event_end_path, event_description_path

-----------------------------------------------------------------------------
(***************************************************************************)
(* Trees.                                                                  *)
(***************************************************************************)
\* Every set of numbers that is not empty has a least one.
LEMMA LeastNumber ==
    ASSUME NEW S \in SUBSET Nat, S # {}
    PROVE  \E m \in S : \A n \in S : m <= n
<1> DEFINE R == OpToRel(<, Nat)
<1>1. R = {ss \in Nat \X Nat : ss[1] < ss[2]}
  BY DEF OpToRel
<1>2. IsWellFoundedOn(R, Nat)
  BY NatLessThanWellFounded
<1> HIDE DEF R
<1>3. PICK m \in S : \A n \in S : ~(<<n, m>> \in R)
  BY <1>2, WFMin
<1>4. \A n \in S : ~(n < m)
  BY <1>1, <1>3
<1>5. QED
  BY <1>4

LEMMA LastOne ==
    ASSUME NEW k \in Nat, NEW S \in SUBSET (1..k), S # {}
    PROVE  Max(S) \in S /\ \A i \in S : i <= Max(S)
<1> DEFINE D == {k - i : i \in S}
<1>1. D \in SUBSET Nat /\ D # {}
  <2>1. \A i \in S : i \in 1..k /\ k - i \in Nat
    OBVIOUS
  <2>2. QED
    BY <2>1
<1>2. PICK m \in D : \A n \in D : m <= n
  BY <1>1, LeastNumber
<1>3. PICK i \in S : m = k - i
  BY <1>2
<1>4. ASSUME NEW j \in S
      PROVE  j <= i
  <2>1. k - j \in D /\ i \in 1..k /\ j \in 1..k
    OBVIOUS
  <2>2. k - i <= k - j
    BY <1>2, <1>3, <2>1
  <2>3. QED
    BY <2>1, <2>2
<1>5. \E x \in S : \A y \in S : x >= y
  BY <1>3, <1>4
<1>6. QED
  BY <1>5 DEF Max

\* A path no operation concerns keeps what it held.
SameAt(f, g, x) ==
    /\ x \in DOMAIN f <=> x \in DOMAIN g
    /\ x \in DOMAIN f => f[x] = g[x]

LEMMA Untouched ==
    ASSUME NEW f, NEW ops, NEW k \in Nat, NEW x,
           \A i \in 1..k : ~Concerns(ops[i], x)
    PROVE  SameAt(f, Tree(f, ops, k), x)
BY DEF Tree, SameAt

\* A path holds what the last operation left that concerns it.
LeftAt(f, x, content) ==
    IF content = Gone THEN x \notin DOMAIN f ELSE x \in DOMAIN f /\ f[x] = content

LEMMA LastLeft ==
    ASSUME NEW f, NEW ops, NEW k \in Nat, NEW x, NEW i \in 1..k,
           Concerns(ops[i], x), \A j \in 1..k : j > i => ~Concerns(ops[j], x)
    PROVE  LeftAt(Tree(f, ops, k), x, ops[i].content)
<1> DEFINE S == {j \in 1..k : Concerns(ops[j], x)}
<1>1. i \in S /\ \A j \in S : j <= i
  OBVIOUS
<1>2. Max(S) = i
  <2>1. Max(S) \in S /\ \A j \in S : j <= Max(S)
    BY <1>1, LastOne
  <2>2. QED
    BY <1>1, <2>1
<1>3. ops[i].content # Gone => ops[i].path = x
  BY DEF Concerns, remove, put
<1> HIDE DEF S
<1>4. S # {}
  BY <1>1
<1>5. QED
  BY <1>2, <1>3, <1>4 DEF Tree, S, LeftAt

LEMMA SameLeft ==
    ASSUME NEW f, NEW g, NEW x, NEW content, LeftAt(f, x, content)
    PROVE  LeftAt(g, x, content) <=> SameAt(f, g, x)
BY DEF LeftAt, SameAt

LEMMA TreeIsFunction ==
    ASSUME NEW f, NEW ops, NEW k
    PROVE  Tree(f, ops, k) = [x \in DOMAIN Tree(f, ops, k) |-> Tree(f, ops, k)[x]]
BY DEF Tree

LEMMA SameTrees ==
    ASSUME NEW f, NEW g, \A x : SameAt(f, g, x),
           f = [x \in DOMAIN f |-> f[x]], g = [x \in DOMAIN g |-> g[x]]
    PROVE  f = g
<1>1. DOMAIN f = DOMAIN g
  BY DEF SameAt
<1>2. \A x \in DOMAIN f : f[x] = g[x]
  BY DEF SameAt
<1>3. QED
  BY <1>1, <1>2

\* One operation by itself leaves the tree after the first of one.
LEMMA OneApplied ==
    ASSUME NEW f, NEW op
    PROVE  Apply(f, op) = Tree(f, <<op>>, 1)
<1> DEFINE ops == <<op>>
           g == Apply(f, op)
           h == Tree(f, ops, 1)
<1>1. Len(ops) = 1 /\ ops[1] = op /\ 1 \in Nat /\ 1 \in 1..1 /\ \A j \in 1..1 : j = 1 /\ ~(j > 1)
  OBVIOUS
<1> HIDE DEF ops
<1>2. ASSUME NEW x
      PROVE  SameAt(g, h, x)
  <2>1. CASE Concerns(op, x)
    <3>1. LeftAt(h, x, op.content)
      BY <1>1, <2>1, LastLeft
    <3>2. op.content # Gone => op.path = x
      BY <2>1 DEF Concerns, remove, put
    <3>3. op.content = Gone => x \notin DOMAIN g
      BY <2>1 DEF Apply
    <3>4. op.content # Gone => x \in DOMAIN g /\ g[x] = op.content
      BY <3>2 DEF Apply
    <3>5. QED
      BY <3>1, <3>3, <3>4 DEF LeftAt, SameAt
  <2>2. CASE ~Concerns(op, x)
    <3>1. SameAt(f, h, x)
      BY <1>1, <2>2, Untouched
    <3>2. op.path # x
      BY <2>2 DEF Concerns
    <3>3. SameAt(f, g, x)
      BY <2>2, <3>2 DEF Apply, SameAt
    <3>4. QED
      BY <3>1, <3>3 DEF SameAt
  <2>3. QED
    BY <2>1, <2>2
<1>3. g = [x \in DOMAIN g |-> g[x]] /\ h = [x \in DOMAIN h |-> h[x]]
  BY TreeIsFunction DEF Apply
<1> HIDE DEF g, h
<1>4. g = h
  BY <1>2, <1>3, SameTrees
<1>5. QED
  BY <1>4 DEF g, h, ops

\* What a tree holds was there or has been put there.
LEMMA TreeHolds ==
    ASSUME NEW f, NEW ops, NEW k \in Nat, NEW x \in DOMAIN Tree(f, ops, k)
    PROVE  \/ x \in DOMAIN f /\ Tree(f, ops, k)[x] = f[x]
           \/ \E i \in 1..k : /\ ops[i].path = x /\ ops[i].content # Gone
                              /\ Tree(f, ops, k)[x] = ops[i].content
<1> DEFINE S == {j \in 1..k : Concerns(ops[j], x)}
<1>1. CASE S = {}
  <2>1. SameAt(f, Tree(f, ops, k), x)
    BY <1>1, Untouched
  <2>2. QED
    BY <2>1 DEF SameAt
<1>2. CASE S # {}
  <2>1. PICK i \in S : \A j \in S : j <= i
    BY <1>2, LastOne
  <2>2. \A j \in 1..k : j > i => ~Concerns(ops[j], x)
    BY <2>1
  <2>3. ops[i].content # Gone /\ Tree(f, ops, k)[x] = ops[i].content
    BY <2>1, <2>2, LastLeft DEF LeftAt
  <2>4. ops[i].path = x
    BY <2>1, <2>3 DEF Concerns, remove, put
  <2>5. QED
    BY <2>1, <2>3, <2>4
<1>3. QED
  BY <1>1, <1>2

LEMMA NothingDone ==
    ASSUME NEW f, f = [x \in DOMAIN f |-> f[x]], NEW ops
    PROVE  Tree(f, ops, 0) = f
<1>1. \A x : SameAt(Tree(f, ops, 0), f, x)
  BY Untouched DEF SameAt
<1>2. QED
  BY <1>1, SameTrees, TreeIsFunction

\* Doing the first of the operations and then k others is doing k + 1.
LEMMA FirstThenRest ==
    ASSUME NEW f, NEW S, NEW ops \in Seq(S), ops # << >>, NEW k \in 0..(Len(ops) - 1)
    PROVE  Tree(Apply(f, Head(ops)), Tail(ops), k) = Tree(f, ops, k + 1)
<1> DEFINE g == Apply(f, Head(ops))
           left == Tree(g, Tail(ops), k)
           right == Tree(f, ops, k + 1)
<1>1. /\ Len(ops) \in Nat /\ k \in Nat /\ k + 1 \in Nat
      /\ Head(ops) = ops[1] /\ \A i \in 1..k : Tail(ops)[i] = ops[i + 1]
  OBVIOUS
<1>2. g = Tree(f, <<ops[1]>>, 1)
  BY <1>1, OneApplied
<1> HIDE DEF g
<1>3. ASSUME NEW x
      PROVE  SameAt(left, right, x)
  <2> DEFINE C == {i \in 1..k : Concerns(Tail(ops)[i], x)}
  <2>1. CASE C # {}
    <3>1. PICK i \in C : \A j \in C : j <= i
      BY <1>1, <2>1, LastOne
    <3>2. \A j \in 1..k : j > i => ~Concerns(Tail(ops)[j], x)
      BY <3>1
    <3>3. LeftAt(left, x, Tail(ops)[i].content)
      BY <1>1, <3>1, <3>2, LastLeft
    <3> DEFINE n == i + 1
    <3>4. n \in 1..(k + 1) /\ Concerns(ops[n], x) /\ ops[n] = Tail(ops)[i]
      BY <1>1, <3>1
    <3>5. ASSUME NEW j \in 1..(k + 1), j > n
          PROVE  ~Concerns(ops[j], x)
      <4>1. j - 1 \in 1..k /\ j - 1 > i /\ j - 1 + 1 = j
        BY <1>1, <3>1, <3>5
      <4>2. QED
        BY <1>1, <3>2, <4>1
    <3> HIDE DEF n
    <3>6. LeftAt(right, x, ops[n].content)
      BY <1>1, <3>4, <3>5, LastLeft
    <3>7. QED
      BY <3>3, <3>4, <3>6, SameLeft
  <2>2. CASE C = {}
    <3>1. SameAt(g, left, x)
      BY <1>1, <2>2, Untouched
    <3>2. ASSUME NEW j \in 1..(k + 1), j > 1
          PROVE  ~Concerns(ops[j], x)
      <4>1. j - 1 \in 1..k /\ j - 1 + 1 = j
        BY <1>1, <3>2
      <4>2. QED
        BY <1>1, <2>2, <4>1
    <3>3. CASE Concerns(ops[1], x)
      <4>1. LeftAt(right, x, ops[1].content)
        <5>1. 1 \in 1..(k + 1)
          BY <1>1
        <5>2. QED
          BY <1>1, <3>2, <3>3, <5>1, LastLeft
      <4>2. LeftAt(g, x, ops[1].content)
        <5> DEFINE one == <<ops[1]>>
        <5>1. one[1] = ops[1] /\ \A j \in 1..1 : ~(j > 1)
          OBVIOUS
        <5> HIDE DEF one
        <5>2. LeftAt(Tree(f, one, 1), x, one[1].content)
          BY <3>3, <5>1, LastLeft
        <5>3. QED
          BY <1>2, <5>1, <5>2 DEF one
      <4>3. QED
        BY <3>1, <4>1, <4>2 DEF SameAt, LeftAt
    <3>4. CASE ~Concerns(ops[1], x)
      <4>1. SameAt(f, right, x)
        <5>1. \A i \in 1..(k + 1) : i = 1 \/ i > 1
          BY <1>1
        <5>2. QED
          BY <1>1, <3>2, <3>4, <5>1, Untouched
      <4>2. SameAt(f, g, x)
        BY <1>2, <3>4, Untouched
      <4>3. QED
        BY <3>1, <4>1, <4>2 DEF SameAt
    <3>5. QED
      BY <3>3, <3>4
  <2>3. QED
    BY <2>1, <2>2
<1>4. left = right
  BY <1>3, SameTrees, TreeIsFunction
<1>5. QED
  BY <1>4 DEF g

-----------------------------------------------------------------------------
(***************************************************************************)
(* Types.                                                                  *)
(***************************************************************************)
Data == Passwords \cup Int \cup Details \cup Seq(Nat) \cup {Empty, Gone}

\* Operations that name a path of the tree and leave there what it may hold.
Fitting == {op \in [path : Paths, content : Data] :
                op.content = Gone \/ Holds(op.path, op.content)}

WellFormed(f) ==
    /\ f = [x \in DOMAIN f |-> f[x]]
    /\ DOMAIN f \subseteq Paths
    /\ \A x \in DOMAIN f : Holds(x, f[x])

LEMMA PathsOfEvents ==
    ASSUME NEW e \in EIDs
    PROVE  /\ {event_dir(e), event_reservations_dir(e), event_total_res_path(e),
               event_details_path(e), event_end_path(e), event_description_path(e)} \subseteq Paths
           /\ \A u \in UIDs : user_event_path(u, e) \in Paths
           /\ \A u \in UIDs, t \in Times : /\ user_res_path(u, t, e) \in Paths
                                           /\ event_res_path(e, t, u) \in Paths
BY DEF Paths

LEMMA PathsOfUsers ==
    /\ event_count_path \in Paths
    /\ \A u \in UIDs : password_path(u) \in Paths /\ logged_in_path(u) \in Paths
BY DEF Paths

LEMMA KindsOfContent ==
    ASSUME NEW c
    PROVE  /\ Holds(event_count_path, c) <=> c \in 0..MaxEvents \cup {Empty}
           /\ \A u : /\ Holds(password_path(u), c) <=> c \in Passwords \cup {Empty}
                     /\ Holds(logged_in_path(u), c) <=> c = Empty
           /\ \A u, e : Holds(user_event_path(u, e), c) <=> c = Empty
           /\ \A u, t, e : /\ Holds(user_res_path(u, t, e), c) <=> c \in Seq(Nat)
                           /\ Holds(event_res_path(e, t, u), c) <=> c \in Seq(Nat)
           /\ \A e : /\ Holds(event_dir(e), c) <=> c = Empty
                     /\ Holds(event_reservations_dir(e), c) <=> c = Empty
                     /\ Holds(event_end_path(e), c) <=> c = Empty
                     /\ Holds(event_total_res_path(e), c) <=> c \in Int \cup {Empty}
                     /\ Holds(event_details_path(e), c) <=> c \in Details \cup {Empty}
                     /\ Holds(event_description_path(e), c) <=> c \in Nat
BY FirstParts DEF Holds

LEMMA FittingPut ==
    ASSUME NEW x \in Paths, NEW c \in Data, Holds(x, c)
    PROVE  put(x, c) \in Fitting
BY DEF put, Fitting

LEMMA FittingRemove ==
    ASSUME NEW x \in Paths
    PROVE  remove(x) \in Fitting
BY DEF put, remove, Fitting, Data

LEMMA TreeWellFormed ==
    ASSUME NEW f, WellFormed(f), NEW ops \in Seq(Fitting), NEW k \in 0..Len(ops)
    PROVE  WellFormed(Tree(f, ops, k))
<1> DEFINE g == Tree(f, ops, k)
<1>1. k \in Nat /\ \A i \in 1..k : ops[i] \in Fitting
  OBVIOUS
<1>2. ASSUME NEW x \in DOMAIN g
      PROVE  x \in Paths /\ Holds(x, g[x])
  BY <1>1, <1>2, TreeHolds DEF WellFormed, Fitting
<1>3. QED
  BY <1>2, TreeIsFunction DEF WellFormed

-----------------------------------------------------------------------------
(***************************************************************************)
(* What the readers make of trees that differ in some paths only.          *)
(***************************************************************************)
SameAccounts(f, g) ==
    \A u \in UIDs : SameAt(f, g, password_path(u)) /\ SameAt(f, g, logged_in_path(u))

SameEvent(f, g, e) == \A x \in Paths : InEventDir(x, e) => SameAt(f, g, x)

SameBookings(f, g, e) ==
    \A u \in UIDs, t \in Times : SameAt(f, g, user_res_path(u, t, e))

SameLists(f, g, e) == \A u \in UIDs : SameAt(f, g, user_event_path(u, e))

LEMMA PathsBelow ==
    ASSUME NEW e \in EIDs
    PROVE  /\ \A x \in {event_dir(e), event_reservations_dir(e), event_total_res_path(e),
                        event_details_path(e), event_end_path(e), event_description_path(e)} :
                  InEventDir(x, e)
           /\ \A t \in Times, u \in UIDs : InEventDir(event_res_path(e, t, u), e)
BY FirstParts, OtherParts DEF InEventDir

LEMMA SameContent ==
    ASSUME NEW f, NEW g, NEW x, SameAt(f, g, x), NEW default
    PROVE  Content(f, x, default) = Content(g, x, default) /\ (Whole(f, x) <=> Whole(g, x))
BY DEF SameAt, Content, Whole

LEMMA SameRecord ==
    ASSUME NEW f, NEW g, NEW e \in EIDs, SameEvent(f, g, e)
    PROVE  /\ EventRecord(f, e) = EventRecord(g, e)
           /\ event_dir(e) \in DOMAIN f <=> event_dir(e) \in DOMAIN g
<1>1. /\ \A x \in {event_dir(e), event_reservations_dir(e), event_total_res_path(e),
                   event_details_path(e), event_end_path(e), event_description_path(e)} :
             SameAt(f, g, x)
      /\ \A t \in Times, u \in UIDs : SameAt(f, g, event_res_path(e, t, u))
  BY PathsBelow, PathsOfEvents DEF SameEvent
<1>2. \A k \in Times \X UIDs : Content(f, event_res_path(e, k[1], k[2]), << >>)
                                 = Content(g, event_res_path(e, k[1], k[2]), << >>)
  BY <1>1, SameContent
<1>3. [k \in Times \X UIDs |-> Content(f, event_res_path(e, k[1], k[2]), << >>)]
        = [k \in Times \X UIDs |-> Content(g, event_res_path(e, k[1], k[2]), << >>)]
  BY <1>2
<1>4. \A x \in {event_details_path(e), event_total_res_path(e)} :
          /\ Whole(f, x) <=> Whole(g, x)
          /\ Whole(f, x) => f[x] = g[x]
  BY <1>1, SameContent DEF Whole, SameAt
<1>5. Content(f, event_description_path(e), 0) = Content(g, event_description_path(e), 0)
  BY <1>1, SameContent
<1>6. /\ event_end_path(e) \in DOMAIN f <=> event_end_path(e) \in DOMAIN g
      /\ event_dir(e) \in DOMAIN f <=> event_dir(e) \in DOMAIN g
  BY <1>1 DEF SameAt
<1>7. (event_end_path(e) \in DOMAIN f) = (event_end_path(e) \in DOMAIN g)
  BY <1>6
<1>8. QED
  BY <1>3, <1>4, <1>5, <1>6, <1>7 DEF EventRecord


-----------------------------------------------------------------------------
(***************************************************************************)
(* What single operations concern.                                         *)
(***************************************************************************)
LEMMA ConcernsPut ==
    ASSUME NEW x, NEW c, c # Gone, NEW y
    PROVE  Concerns(put(x, c), y) <=> x = y
BY DEF Concerns, put, remove

LEMMA ConcernsRemove ==
    ASSUME NEW x, x[1] # "dir", NEW y
    PROVE  Concerns(remove(x), y) <=> x = y
BY DEF Concerns, put, remove

LEMMA ConcernsRemoveAll ==
    ASSUME NEW e \in EIDs, NEW y
    PROVE  Concerns(remove(event_dir(e)), y) <=> InEventDir(y, e)
BY FirstParts, OtherParts, PathsBelow DEF Concerns, put, remove

\* Paths about different events, or about none, are different.
LEMMA PathsApart ==
    /\ \A e \in EIDs, u \in UIDs, t \in Times :
          /\ \A x \in {event_dir(e), event_reservations_dir(e), event_total_res_path(e),
                       event_details_path(e), event_end_path(e), event_description_path(e),
                       event_res_path(e, t, u), user_res_path(u, t, e), user_event_path(u, e)} :
                About(x, e)
    /\ \A x, e, n : About(x, e) /\ About(x, n) => e = n
    /\ \A x, e : InEventDir(x, e) => About(x, e)
    /\ \A e : ~About(event_count_path, e)
    /\ \A u, e : ~About(password_path(u), e) /\ ~About(logged_in_path(u), e)
BY FirstParts, OtherParts DEF InEventDir, About

\* A file that is there or is written, and not removed, is there.
LEMMA Stays ==
    ASSUME NEW f, NEW ops, NEW k \in Nat, NEW x,
           x \in DOMAIN f \/ \E i \in 1..k : Concerns(ops[i], x),
           \A i \in 1..k : Concerns(ops[i], x) => ops[i].content # Gone
    PROVE  x \in DOMAIN Tree(f, ops, k)
<1> DEFINE S == {j \in 1..k : Concerns(ops[j], x)}
<1>1. CASE S = {}
  <2>1. SameAt(f, Tree(f, ops, k), x)
    BY <1>1, Untouched
  <2>2. QED
    BY <1>1, <2>1 DEF SameAt
<1>2. CASE S # {}
  <2>1. PICK i \in S : \A j \in S : j <= i
    BY <1>2, LastOne
  <2>2. \A j \in 1..k : j > i => ~Concerns(ops[j], x)
    BY <2>1
  <2>3. QED
    BY <2>1, <2>2, LastLeft DEF LeftAt
<1>3. QED
  BY <1>1, <1>2

\* Operations that concern all paths on which two trees differ make them equal.
LEMMA SameAfter ==
    ASSUME NEW f, NEW g, NEW ops, NEW k \in Nat, k >= 1,
           \A x : SameAt(f, g, x) \/ Concerns(ops[1], x)
    PROVE  Tree(f, ops, k) = Tree(g, ops, k)
<1>1. ASSUME NEW x
      PROVE  SameAt(Tree(f, ops, k), Tree(g, ops, k), x)
  <2> DEFINE S == {j \in 1..k : Concerns(ops[j], x)}
  <2>1. CASE S = {}
    <3>1. SameAt(f, Tree(f, ops, k), x) /\ SameAt(g, Tree(g, ops, k), x)
      BY <2>1, Untouched
    <3>2. SameAt(f, g, x)
      BY <2>1
    <3>3. QED
      BY <3>1, <3>2 DEF SameAt
  <2>2. CASE S # {}
    <3>1. PICK i \in S : \A j \in S : j <= i
      BY <2>2, LastOne
    <3>2. \A j \in 1..k : j > i => ~Concerns(ops[j], x)
      BY <3>1
    <3>3. LeftAt(Tree(f, ops, k), x, ops[i].content) /\ LeftAt(Tree(g, ops, k), x, ops[i].content)
      BY <3>1, <3>2, LastLeft
    <3>4. QED
      BY <3>3, SameLeft
  <2>3. QED
    BY <2>1, <2>2
<1>2. QED
  BY <1>1, SameTrees, TreeIsFunction

-----------------------------------------------------------------------------
(***************************************************************************)
(* The inductive invariant.  The process may end after any of a handler's  *)
(* file operations, so what a crash must find is kept at every cut: in the *)
(* tree after the first k operations, for every k.                         *)
(***************************************************************************)
LoginsHave(f) ==
    \A u \in UIDs : logged_in_path(u) \in DOMAIN f => password_path(u) \in DOMAIN f

\* No file is about an event whose number has not been issued.
Numbered(f) == \A x \in DOMAIN f, e \in EIDs : About(x, e) => e <= LastEvent(f)

Reservations(f, e) ==
    [k \in Times \X UIDs |-> Content(f, event_res_path(e, k[1], k[2]), << >>)]

\* What is recorded of event e has been sold, what has been sold exists, and
\* there is a directory to record more in.
Booked(f, e) ==
    Whole(f, event_details_path(e)) =>
        /\ event_reservations_dir(e) \in DOMAIN f
        /\ Whole(f, event_total_res_path(e))
        /\ IsFiniteSet(SeatsIn(Reservations(f, e)))
        /\ Cardinality(SeatsIn(Reservations(f, e))) <= f[event_total_res_path(e)]
        /\ f[event_total_res_path(e)] <= f[event_details_path(e)].attendance

\* Event e may be interrupted after the first k operations: it is then booked,
\* or its total-res is among what the next operation was to repair or remove.
MayStop(f, ops, k, e) ==
    LET g == Tree(f, ops, k)
    IN  Booked(g, e) \/ (k < Len(ops) /\ HalfDone(g, e, ops[k + 1]))

Safe(f, ops, lost) ==
    /\ ops \in Seq(Fitting)
    /\ \A k \in 0..Len(ops) : LoginsHave(Tree(f, ops, k)) /\ Numbered(Tree(f, ops, k))
    /\ \A k \in 0..Len(ops), e \in EIDs \ lost : MayStop(f, ops, k, e)

Described(f, e) == event_dir(e) \in DOMAIN f /\ event_description_path(e) \in DOMAIN f

\* Every create under way has an event, with a description file, that no other
\* create has.
Owned(f, ups) ==
    /\ \A c \in DOMAIN ups : Described(f, ups[c].eid)
    /\ \A c, d \in DOMAIN ups : ups[c].eid = ups[d].eid => c = d

Uploading(ups) ==
    /\ DOMAIN ups \subseteq Connections
    /\ ups \in [DOMAIN ups -> Store!Upload]

IInv ==
    /\ WellFormed(files)
    /\ Safe(files, todo, torn)
    /\ Sees(ApplyAll(files, todo))
    /\ Uploading(uploads) /\ Owned(ApplyAll(files, todo), uploads)
    /\ ~up => todo = << >> /\ uploads = << >>
    /\ up \in BOOLEAN /\ now \in Times /\ crashes \in 0..MaxCrashes
    /\ hurt \subseteq 0..MaxEvents /\ torn \subseteq EIDs

-----------------------------------------------------------------------------
(***************************************************************************)
(* What operations keep that are about something else.                     *)
(***************************************************************************)
LEMMA SameLogins ==
    ASSUME NEW f, NEW g, LoginsHave(f), SameAccounts(f, g)
    PROVE  LoginsHave(g)
BY DEF LoginsHave, SameAccounts, SameAt

LEMMA SameBooked ==
    ASSUME NEW f, NEW g, NEW e \in EIDs,
           SameAt(f, g, event_details_path(e)), SameAt(f, g, event_total_res_path(e)),
           SameAt(f, g, event_reservations_dir(e)),
           \A t \in Times, u \in UIDs : SameAt(f, g, event_res_path(e, t, u))
    PROVE  /\ Reservations(f, e) = Reservations(g, e)
           /\ Booked(f, e) => Booked(g, e)
<1>1. \A k \in Times \X UIDs : Content(f, event_res_path(e, k[1], k[2]), << >>)
                                 = Content(g, event_res_path(e, k[1], k[2]), << >>)
  BY SameContent
<1>2. Reservations(f, e) = Reservations(g, e)
  BY <1>1 DEF Reservations
<1>3. \A x \in {event_details_path(e), event_total_res_path(e)} :
          /\ Whole(f, x) <=> Whole(g, x)
          /\ Whole(f, x) => f[x] = g[x]
  BY SameContent DEF Whole, SameAt
<1>4. event_reservations_dir(e) \in DOMAIN f <=> event_reservations_dir(e) \in DOMAIN g
  BY DEF SameAt
<1>5. QED
  BY <1>2, <1>3, <1>4 DEF Booked

\* Operations on accounts, on the counter and about other events leave what is
\* about event e.
LEMMA Elsewhere ==
    ASSUME NEW f, NEW ops, NEW k \in Nat, NEW e \in EIDs,
           \A i \in 1..k : ~About(ops[i].path, e)
    PROVE  \A x : About(x, e) => SameAt(f, Tree(f, ops, k), x)
<1>1. ASSUME NEW x, About(x, e), NEW i \in 1..k
      PROVE  ~Concerns(ops[i], x)
  <2>1. SUFFICES ASSUME Concerns(ops[i], x)
                 PROVE  FALSE
    OBVIOUS
  <2>2. ops[i].path # x
    BY <1>1
  <2>3. ops[i].path[1] = "dir" /\ InEventDir(x, ops[i].path[2])
    BY <2>1, <2>2 DEF Concerns
  <2>4. ops[i].path[2] = e
    BY <1>1, <2>3 DEF InEventDir, About
  <2>5. QED
    BY <1>1, <2>3, <2>4 DEF InEventDir, About
<1>2. QED
  BY <1>1, Untouched

LEMMA BookedElsewhere ==
    ASSUME NEW f, NEW ops, NEW k \in Nat, NEW e \in EIDs,
           \A i \in 1..k : ~About(ops[i].path, e), Booked(f, e)
    PROVE  Booked(Tree(f, ops, k), e)
<1>1. \A x : About(x, e) => SameAt(f, Tree(f, ops, k), x)
  BY Elsewhere
<1> DEFINE g == Tree(f, ops, k)
<1> HIDE DEF g
<1>2. /\ SameAt(f, g, event_details_path(e)) /\ SameAt(f, g, event_total_res_path(e))
      /\ SameAt(f, g, event_reservations_dir(e))
      /\ \A t \in Times, u \in UIDs : SameAt(f, g, event_res_path(e, t, u))
  <2>1. ASSUME NEW t \in Times, NEW u \in UIDs
        PROVE  SameAt(f, g, event_res_path(e, t, u))
    BY <1>1, PathsBelow, PathsApart DEF g
  <2>2. QED
    BY <1>1, <2>1, PathsBelow, PathsApart DEF g
<1>3. Booked(g, e)
  BY <1>2, SameBooked
<1>4. QED
  BY <1>3 DEF g

\* Operations that leave the counter, and write of issued numbers only.
LEMMA NumbersKept ==
    ASSUME NEW f, Numbered(f), NEW ops, NEW k \in Nat,
           \A i \in 1..k : ops[i].path # event_count_path,
           \A i \in 1..k, e \in EIDs :
              ops[i].content # Gone /\ About(ops[i].path, e) => e <= LastEvent(f)
    PROVE  /\ SameAt(f, Tree(f, ops, k), event_count_path)
           /\ LastEvent(Tree(f, ops, k)) = LastEvent(f)
           /\ Numbered(Tree(f, ops, k))
<1>1. ASSUME NEW i \in 1..k
      PROVE  ~Concerns(ops[i], event_count_path)
  BY FirstParts DEF Concerns, InEventDir
<1>2. SameAt(f, Tree(f, ops, k), event_count_path)
  BY <1>1, Untouched
<1> DEFINE g == Tree(f, ops, k)
<1>3. LastEvent(g) = LastEvent(f)
  BY <1>2, SameContent DEF LastEvent
<1>4. ASSUME NEW x \in DOMAIN g, NEW e \in EIDs, About(x, e)
      PROVE  e <= LastEvent(f)
  BY <1>4, TreeHolds DEF Numbered
<1>5. QED
  BY <1>2, <1>3, <1>4 DEF Numbered

LEMMA AccountsKept ==
    ASSUME NEW f, NEW ops, NEW k \in Nat,
           \A i \in 1..k, u \in UIDs : ops[i].path # password_path(u) /\ ops[i].path # logged_in_path(u)
    PROVE  SameAccounts(f, Tree(f, ops, k))
<1>1. ASSUME NEW i \in 1..k, NEW u \in UIDs
      PROVE  ~Concerns(ops[i], password_path(u)) /\ ~Concerns(ops[i], logged_in_path(u))
  BY FirstParts DEF Concerns, InEventDir
<1>2. QED
  BY <1>1, Untouched DEF SameAccounts

-----------------------------------------------------------------------------
(***************************************************************************)
(* The operations of every handler are safe to interrupt.                  *)
(***************************************************************************)
\* What a handler finds when no other is under way.
Sound(f, lost) ==
    /\ WellFormed(f) /\ LoginsHave(f) /\ Numbered(f)
    /\ \A e \in EIDs \ lost : Booked(f, e)

LEMMA AtRest ==
    ASSUME NEW f, NEW lost, WellFormed(f)
    PROVE  Safe(f, << >>, lost) <=> Sound(f, lost)
<1> DEFINE none == << >>
<1>1. none \in Seq(Fitting) /\ Len(none) = 0 /\ Tree(f, none, 0) = f
  BY NothingDone DEF WellFormed
<1>2. \A k : k \in 0..Len(none) <=> k = 0
  BY <1>1
<1> HIDE DEF none
<1>3. Safe(f, none, lost) <=> Sound(f, lost)
  BY <1>1, <1>2 DEF Safe, Sound, MayStop
<1>4. QED
  BY <1>3 DEF none

LEMMA AccountsSafe ==
    ASSUME NEW f, NEW lost, Sound(f, lost), NEW ops \in Seq(Fitting), NEW u \in UIDs,
           \A i \in 1..Len(ops) : ops[i].path \in {password_path(u), logged_in_path(u)},
           \A k \in 1..Len(ops) : logged_in_path(u) \in DOMAIN Tree(f, ops, k)
                                     => password_path(u) \in DOMAIN Tree(f, ops, k)
    PROVE  Safe(f, ops, lost)
<1>1. ASSUME NEW k \in 0..Len(ops)
      PROVE  /\ LoginsHave(Tree(f, ops, k)) /\ Numbered(Tree(f, ops, k))
             /\ \A e \in EIDs \ lost : MayStop(f, ops, k, e)
  <2>1. k \in Nat /\ \A i \in 1..k : i \in 1..Len(ops)
    OBVIOUS
  <2>2. ASSUME NEW i \in 1..k
        PROVE  /\ ops[i].path # event_count_path
               /\ \A e : ~About(ops[i].path, e)
    BY <2>1, FirstParts, PathsApart
  <2>3. Numbered(Tree(f, ops, k))
    BY <2>1, <2>2, NumbersKept DEF Sound
  <2>4. \A e \in EIDs \ lost : Booked(Tree(f, ops, k), e)
    BY <2>1, <2>2, BookedElsewhere DEF Sound
  <2>5. ASSUME NEW v \in UIDs, v # u, NEW i \in 1..k
        PROVE  ~Concerns(ops[i], password_path(v)) /\ ~Concerns(ops[i], logged_in_path(v))
    BY <2>1, <2>5, FirstParts, OtherParts DEF Concerns, InEventDir
  <2>6. \A v \in UIDs : v # u => /\ SameAt(f, Tree(f, ops, k), password_path(v))
                                 /\ SameAt(f, Tree(f, ops, k), logged_in_path(v))
    BY <2>1, <2>5, Untouched
  <2>7. k = 0 => Tree(f, ops, k) = f
    BY NothingDone DEF Sound, WellFormed
  <2>8. LoginsHave(Tree(f, ops, k))
    <3>1. logged_in_path(u) \in DOMAIN Tree(f, ops, k)
             => password_path(u) \in DOMAIN Tree(f, ops, k)
      BY <2>7 DEF Sound, LoginsHave
    <3>2. QED
      BY <2>6, <3>1 DEF Sound, LoginsHave, SameAt
  <2>9. QED
    BY <2>3, <2>4, <2>8 DEF MayStop
<1>2. QED
  BY <1>1 DEF Safe

LEMMA EventSafe ==
    ASSUME NEW f, NEW lost, Sound(f, lost), NEW ops \in Seq(Fitting), NEW n \in EIDs,
           n <= LastEvent(f), \A i \in 1..Len(ops) : About(ops[i].path, n),
           n \in lost \/ \A k \in 1..Len(ops) : MayStop(f, ops, k, n),
           n \in lost \/ MayStop(f, ops, 0, n)
    PROVE  Safe(f, ops, lost)
<1>1. ASSUME NEW k \in 0..Len(ops)
      PROVE  /\ LoginsHave(Tree(f, ops, k)) /\ Numbered(Tree(f, ops, k))
             /\ \A e \in EIDs \ lost : MayStop(f, ops, k, e)
  <2>1. k \in Nat /\ \A i \in 1..k : i \in 1..Len(ops)
    OBVIOUS
  <2>2. ASSUME NEW i \in 1..k
        PROVE  /\ ops[i].path # event_count_path
               /\ \A u \in UIDs : ops[i].path # password_path(u) /\ ops[i].path # logged_in_path(u)
               /\ \A e \in EIDs : About(ops[i].path, e) => e = n
    BY <2>1, PathsApart
  <2>3. Numbered(Tree(f, ops, k))
    BY <2>1, <2>2, NumbersKept DEF Sound
  <2>4. LoginsHave(Tree(f, ops, k))
    BY <2>1, <2>2, AccountsKept, SameLogins DEF Sound
  <2>5. ASSUME NEW e \in EIDs \ lost
        PROVE  MayStop(f, ops, k, e)
    <3>1. CASE e = n
      <4>1. k = 0 \/ k \in 1..Len(ops)
        OBVIOUS
      <4>2. QED
        BY <3>1, <4>1
    <3>2. CASE e # n
      BY <2>1, <2>2, <3>2, BookedElsewhere DEF Sound, MayStop
    <3>3. QED
      BY <3>1, <3>2
  <2>6. QED
    BY <2>3, <2>4, <2>5
<1>2. QED
  BY <1>1 DEF Safe

LEMMA AccountPuts ==
    ASSUME NEW u \in UIDs, NEW p \in Passwords
    PROVE  /\ put(password_path(u), Empty) \in Fitting /\ put(password_path(u), p) \in Fitting
           /\ put(logged_in_path(u), Empty) \in Fitting
           /\ remove(logged_in_path(u)) \in Fitting /\ remove(password_path(u)) \in Fitting
<1>1. Empty \in Data /\ p \in Data
  BY DEF Data
<1>2. /\ Holds(password_path(u), Empty) /\ Holds(password_path(u), p)
      /\ Holds(logged_in_path(u), Empty)
  BY KindsOfContent
<1>3. QED
  BY <1>1, <1>2, PathsOfUsers, FittingPut, FittingRemove

\* The markers differ from all that a file may hold.
LEMMA MarkersApart ==
    /\ Empty # Gone
    /\ \A p \in Passwords : p # Gone /\ p # Empty
    /\ \A i \in Int : i # Gone /\ i # Empty
    /\ \A d \in Details : d # Gone /\ d # Empty
    /\ \A s \in Seq(Nat) : s # Gone /\ s # Empty
BY MarkerAssumption

LEMMA PutParts ==
    ASSUME NEW x, NEW c
    PROVE  /\ put(x, c).path = x /\ put(x, c).content = c
           /\ remove(x).path = x /\ remove(x).content = Gone
BY DEF put, remove

\* create_user: the password is there before the login.
LEMMA RegistrationSafe ==
    ASSUME NEW f, NEW lost, Sound(f, lost), NEW u \in UIDs, NEW p \in Passwords,
           password_path(u) \notin DOMAIN f
    PROVE  Safe(f, create_user(u, p), lost)
<1> DEFINE ops == create_user(u, p)
<1>1. /\ ops \in Seq(Fitting) /\ Len(ops) = 3
      /\ ops[1] = put(password_path(u), Empty) /\ ops[2] = put(password_path(u), p)
      /\ ops[3] = put(logged_in_path(u), Empty)
  BY AccountPuts DEF create_user
<1> HIDE DEF ops
<1>2. \A i \in 1..Len(ops) : ops[i].path \in {password_path(u), logged_in_path(u)}
  <2>1. \A i \in 1..3 : i = 1 \/ i = 2 \/ i = 3
    OBVIOUS
  <2>2. QED
    BY <1>1, <2>1, PutParts
<1>3. ASSUME NEW k \in 1..Len(ops)
      PROVE  password_path(u) \in DOMAIN Tree(f, ops, k)
  <2>1. 1 \in 1..k /\ \A i \in 1..k : i = 1 \/ i = 2 \/ i = 3
    BY <1>1
  <2>2. Concerns(ops[1], password_path(u))
    BY <1>1, ConcernsPut, MarkersApart
  <2>3. \A i \in 1..k : ops[i].content # Gone
    BY <1>1, <2>1, PutParts, MarkersApart
  <2>4. QED
    BY <2>1, <2>2, <2>3, Stays
<1>4. Safe(f, ops, lost)
  BY <1>1, <1>2, <1>3, AccountsSafe
<1>5. QED
  BY <1>4 DEF ops

LEMMA LoginSafe ==
    ASSUME NEW f, NEW lost, Sound(f, lost), NEW u \in UIDs, password_path(u) \in DOMAIN f,
           NEW p \in Passwords
    PROVE  /\ Safe(f, <<put(logged_in_path(u), Empty)>>, lost)
           /\ Safe(f, <<put(password_path(u), Empty), put(password_path(u), p)>>, lost)
<1>1. ASSUME NEW ops \in Seq(Fitting),
             \A i \in 1..Len(ops) : /\ ops[i].path \in {password_path(u), logged_in_path(u)}
                                    /\ ops[i].content # Gone
      PROVE  Safe(f, ops, lost)
  <2>1. ASSUME NEW k \in 1..Len(ops)
        PROVE  password_path(u) \in DOMAIN Tree(f, ops, k)
    BY <1>1, Stays
  <2>2. QED
    BY <1>1, <2>1, AccountsSafe
<1> DEFINE one == <<put(logged_in_path(u), Empty)>>
           two == <<put(password_path(u), Empty), put(password_path(u), p)>>
<1>2. /\ one \in Seq(Fitting) /\ Len(one) = 1 /\ one[1] = put(logged_in_path(u), Empty)
      /\ two \in Seq(Fitting) /\ Len(two) = 2
      /\ two[1] = put(password_path(u), Empty) /\ two[2] = put(password_path(u), p)
  BY AccountPuts
<1> HIDE DEF one, two
<1>3. Safe(f, one, lost)
  BY <1>1, <1>2, PutParts, MarkersApart
<1>4. Safe(f, two, lost)
  <2>1. \A i \in 1..2 : i = 1 \/ i = 2
    OBVIOUS
  <2>2. QED
    BY <1>1, <1>2, <2>1, PutParts, MarkersApart
<1>5. QED
  BY <1>3, <1>4 DEF one, two

\* logout and unregister: the login goes first.
LEMMA LogoutSafe ==
    ASSUME NEW f, NEW lost, Sound(f, lost), NEW u \in UIDs
    PROVE  Safe(f, <<remove(logged_in_path(u))>>, lost) /\ Safe(f, unregister(u), lost)
<1>1. ASSUME NEW ops \in Seq(Fitting), Len(ops) >= 1, ops[1] = remove(logged_in_path(u)),
             \A i \in 1..Len(ops) : i > 1 => ops[i] = remove(password_path(u))
      PROVE  Safe(f, ops, lost)
  <2>1. \A i \in 1..Len(ops) : ops[i].path \in {password_path(u), logged_in_path(u)}
    <3>1. \A i \in 1..Len(ops) : i = 1 \/ i > 1
      OBVIOUS
    <3>2. QED
      BY <1>1, <3>1, PutParts
  <2>2. ASSUME NEW k \in 1..Len(ops)
        PROVE  logged_in_path(u) \notin DOMAIN Tree(f, ops, k)
    <3>1. Concerns(ops[1], logged_in_path(u)) /\ ops[1].content = Gone
      <4>1. logged_in_path(u)[1] # "dir"
        BY FirstParts
      <4>2. QED
        BY <1>1, <4>1, ConcernsRemove, PutParts
    <3>2. ASSUME NEW j \in 1..k, j > 1
          PROVE  ~Concerns(ops[j], logged_in_path(u))
      <4>1. ops[j] = remove(password_path(u))
        BY <1>1, <3>2
      <4>2. password_path(u)[1] # "dir" /\ password_path(u) # logged_in_path(u)
        BY FirstParts
      <4>3. QED
        BY <4>1, <4>2, ConcernsRemove
    <3>3. 1 \in 1..k /\ k \in Nat
      OBVIOUS
    <3>4. QED
      BY <3>1, <3>2, <3>3, LastLeft DEF LeftAt
  <2>3. QED
    BY <2>1, <2>2, AccountsSafe
<1> DEFINE one == <<remove(logged_in_path(u))>>
           two == unregister(u)
<1>2. /\ one \in Seq(Fitting) /\ Len(one) = 1 /\ one[1] = remove(logged_in_path(u))
      /\ two \in Seq(Fitting) /\ Len(two) = 2
      /\ two[1] = remove(logged_in_path(u)) /\ two[2] = remove(password_path(u))
  BY PathsOfUsers, FittingRemove DEF unregister
<1> HIDE DEF one, two
<1>3. Safe(f, one, lost)
  <2>1. Len(one) >= 1 /\ \A i \in 1..Len(one) : ~(i > 1)
    BY <1>2
  <2>2. QED
    BY <1>1, <1>2, <2>1
<1>4. Safe(f, two, lost)
  <2>1. Len(two) >= 1 /\ \A i \in 1..Len(two) : i > 1 => i = 2
    BY <1>2
  <2>2. QED
    BY <1>1, <1>2, <2>1
<1>5. QED
  BY <1>3, <1>4 DEF one, two

LEMMA BookedUntouched ==
    ASSUME NEW f, NEW ops, NEW k \in Nat, NEW e \in EIDs, Booked(f, e),
           \A i \in 1..k : /\ ~Concerns(ops[i], event_details_path(e))
                           /\ ~Concerns(ops[i], event_total_res_path(e))
                           /\ ~Concerns(ops[i], event_reservations_dir(e))
                           /\ \A t \in Times, u \in UIDs : ~Concerns(ops[i], event_res_path(e, t, u))
    PROVE  Booked(Tree(f, ops, k), e)
<1> DEFINE g == Tree(f, ops, k)
<1>1. /\ SameAt(f, g, event_details_path(e)) /\ SameAt(f, g, event_total_res_path(e))
      /\ SameAt(f, g, event_reservations_dir(e))
  BY Untouched
<1>2. \A t \in Times, u \in UIDs : SameAt(f, g, event_res_path(e, t, u))
  BY Untouched
<1> HIDE DEF g
<1>3. Booked(g, e)
  BY <1>1, <1>2, SameBooked
<1>4. QED
  BY <1>3 DEF g

\* Close, and an upload's data: one file that no reservation is counted in.
LEMMA OneFileSafe ==
    ASSUME NEW f, NEW lost, Sound(f, lost), NEW n \in EIDs, n <= LastEvent(f),
           NEW x \in {event_end_path(n), event_description_path(n)},
           NEW c \in Data, Holds(x, c), c # Gone
    PROVE  Safe(f, <<put(x, c)>>, lost)
<1> DEFINE ops == <<put(x, c)>>
<1>1. ops \in Seq(Fitting) /\ Len(ops) = 1 /\ ops[1] = put(x, c)
  BY PathsOfEvents, FittingPut
<1> HIDE DEF ops
<1>2. \A i \in 1..Len(ops) : About(ops[i].path, n)
  BY <1>1, PathsBelow, PathsApart, PutParts
<1>3. \A y : Concerns(ops[1], y) <=> x = y
  BY <1>1, ConcernsPut
<1>4. /\ ~Concerns(ops[1], event_details_path(n)) /\ ~Concerns(ops[1], event_total_res_path(n))
      /\ ~Concerns(ops[1], event_reservations_dir(n))
      /\ \A t \in Times, u \in UIDs : ~Concerns(ops[1], event_res_path(n, t, u))
  BY <1>3, FirstParts
<1>5. ASSUME NEW k \in {0, 1}, n \notin lost
      PROVE  MayStop(f, ops, k, n)
  <2>1. k \in Nat /\ \A i \in 1..k : i = 1
    BY <1>5
  <2>2. Booked(f, n)
    BY <1>5 DEF Sound
  <2>3. QED
    BY <1>4, <2>1, <2>2, BookedUntouched DEF MayStop
<1>6. Safe(f, ops, lost)
  <2>1. \A k \in 1..Len(ops) : k = 1
    BY <1>1
  <2>2. /\ n \in lost \/ \A k \in 1..Len(ops) : MayStop(f, ops, k, n)
        /\ n \in lost \/ MayStop(f, ops, 0, n)
    BY <1>5, <2>1
  <2>3. QED
    BY <1>1, <1>2, <2>2, EventSafe
<1>7. QED
  BY <1>6 DEF ops

\* destroy_event: the operation that removes all also covers what an
\* interruption leaves.
LEMMA DestroySafe ==
    ASSUME NEW f, NEW lost, Sound(f, lost), NEW n \in EIDs, n <= LastEvent(f)
    PROVE  Safe(f, <<remove(event_dir(n))>>, lost)
<1> DEFINE ops == <<remove(event_dir(n))>>
<1>1. ops \in Seq(Fitting) /\ Len(ops) = 1 /\ ops[1] = remove(event_dir(n))
  BY PathsOfEvents, FittingRemove
<1> HIDE DEF ops
<1>2. \A i \in 1..Len(ops) : About(ops[i].path, n)
  BY <1>1, PathsBelow, PathsApart, PutParts
<1>3. MayStop(f, ops, 0, n)
  BY <1>1 DEF MayStop, HalfDone
<1>4. MayStop(f, ops, 1, n)
  <2>1. Concerns(ops[1], event_details_path(n))
    BY <1>1, ConcernsRemoveAll, PathsBelow
  <2>2. 1 \in Nat /\ 1 \in 1..1 /\ \A j \in 1..1 : ~(j > 1)
    OBVIOUS
  <2>3. LeftAt(Tree(f, ops, 1), event_details_path(n), ops[1].content)
    BY <2>1, <2>2, LastLeft
  <2>4. ops[1].content = Gone
    BY <1>1, PutParts
  <2>5. QED
    BY <2>3, <2>4 DEF LeftAt, MayStop, Booked, Whole
<1>5. Safe(f, ops, lost)
  <2>1. \A k \in 1..Len(ops) : k = 1
    BY <1>1
  <2>2. \A k \in 1..Len(ops) : MayStop(f, ops, k, n)
    BY <1>4, <2>1
  <2>3. QED
    BY <1>1, <1>2, <1>3, <2>2, EventSafe
<1>6. QED
  BY <1>5 DEF ops

LEMMA Joined ==
    ASSUME NEW S, NEW s \in Seq(S), NEW t \in Seq(S)
    PROVE  /\ s \o t \in Seq(S) /\ Len(s \o t) = Len(s) + Len(t)
           /\ \A i \in 1..Len(s) : (s \o t)[i] = s[i]
           /\ \A i \in 1..Len(t) : (s \o t)[Len(s) + i] = t[i]
OBVIOUS

LEMMA ReservationFile ==
    ASSUME WellFormed(files), NEW x \in Paths, x[1] \in {"event_res", "user_res"}
    PROVE  Content(files, x, << >>) \in Seq(Nat)
<1>1. ASSUME x \in DOMAIN files
      PROVE  files[x] \in Seq(Nat)
  BY <1>1 DEF WellFormed, Holds
<1>2. << >> \in Seq(Nat)
  OBVIOUS
<1>3. QED
  BY <1>1, <1>2 DEF Content

LEMMA ReserveOperations ==
    ASSUME WellFormed(files), now \in Times, NEW u \in UIDs, NEW e \in EIDs, NEW n \in Nat,
           event[e].sold \in Int
    PROVE  LET ops == reserve(u, e, n)
               mine == user_res_path(u, now, e)
               its == event_res_path(e, now, u)
               held == Content(files, mine, << >>)
               old == Content(files, its, << >>)
           IN  /\ ops \in Seq(Fitting)
               /\ ops[1] = put(event_total_res_path(e), Empty)
               /\ ops[2] = put(event_total_res_path(e), event[e].sold + n)
               /\ ops[3] = put(mine, held)
               /\ ops[Len(ops)] = put(mine, Append(held, n))
               /\ IF event_reservations_dir(e) \in DOMAIN files
                  THEN Len(ops) = 6 /\ ops[4] = put(its, old) /\ ops[5] = put(its, Append(old, n))
                  ELSE Len(ops) = 4
<1> DEFINE mine == user_res_path(u, now, e)
           its == event_res_path(e, now, u)
           held == Content(files, mine, << >>)
           old == Content(files, its, << >>)
           total == event_total_res_path(e)
           sum == event[e].sold + n
           begin == <<put(total, Empty), put(total, sum), put(mine, held)>>
           copy == IF event_reservations_dir(e) \in DOMAIN files
                   THEN <<put(its, old), put(its, Append(old, n))>> ELSE << >>
           end == <<put(mine, Append(held, n))>>
<1>1. mine \in Paths /\ its \in Paths /\ total \in Paths
  BY PathsOfEvents
<1>2. held \in Seq(Nat) /\ old \in Seq(Nat)
  BY <1>1, ReservationFile, FirstParts
<1>3. /\ put(total, Empty) \in Fitting /\ put(total, sum) \in Fitting
      /\ put(mine, held) \in Fitting /\ put(mine, Append(held, n)) \in Fitting
      /\ put(its, old) \in Fitting /\ put(its, Append(old, n)) \in Fitting
  <2> DEFINE more == Append(held, n)
             both == Append(old, n)
  <2>1. more \in Seq(Nat) /\ both \in Seq(Nat) /\ sum \in Int
    BY <1>2
  <2> HIDE DEF more, both, held, old, sum
  <2>2. {Empty, sum, held, old, more, both} \subseteq Data
    BY <1>2, <2>1 DEF Data
  <2>3. /\ Holds(total, Empty) /\ Holds(total, sum)
        /\ Holds(mine, held) /\ Holds(mine, more) /\ Holds(its, old) /\ Holds(its, both)
    BY <1>2, <2>1, KindsOfContent
  <2> HIDE DEF mine, its, total
  <2>4. /\ put(mine, more) \in Fitting /\ put(its, both) \in Fitting
        /\ put(total, Empty) \in Fitting /\ put(total, sum) \in Fitting
        /\ put(mine, held) \in Fitting /\ put(its, old) \in Fitting
    BY <1>1, <2>2, <2>3, FittingPut
  <2>5. QED
    BY <2>4 DEF more, both
<1> HIDE DEF mine, its, total, held, old, sum
<1>4. begin \in Seq(Fitting) /\ copy \in Seq(Fitting) /\ end \in Seq(Fitting)
  BY <1>3
<1>5. /\ Len(begin) = 3 /\ begin[1] = put(total, Empty) /\ begin[2] = put(total, sum)
      /\ begin[3] = put(mine, held)
      /\ Len(end) = 1 /\ end[1] = put(mine, Append(held, n))
      /\ IF event_reservations_dir(e) \in DOMAIN files
         THEN Len(copy) = 2 /\ copy[1] = put(its, old) /\ copy[2] = put(its, Append(old, n))
         ELSE Len(copy) = 0
  OBVIOUS
<1>6. reserve(u, e, n) = begin \o copy \o end
  BY DEF reserve, mine, its, total, held, old, sum
<1> HIDE DEF begin, copy, end
<1> DEFINE both == begin \o copy
<1>7. both \in Seq(Fitting)
  BY <1>4, Joined
<1>8. /\ Len(both) = Len(begin) + Len(copy)
      /\ \A i \in 1..Len(begin) : both[i] = begin[i]
      /\ \A i \in 1..Len(copy) : both[Len(begin) + i] = copy[i]
  BY <1>4, Joined
<1> DEFINE ops == both \o end
<1> HIDE DEF both
<1>9. /\ ops \in Seq(Fitting) /\ Len(ops) = Len(both) + Len(end)
      /\ \A i \in 1..Len(both) : ops[i] = both[i]
      /\ \A i \in 1..Len(end) : ops[Len(both) + i] = end[i]
  BY <1>4, <1>7, Joined
<1> HIDE DEF ops
<1>10. Len(copy) \in {0, 2} /\ Len(begin) = 3 /\ Len(end) = 1
  BY <1>5
<1>11. Len(both) = 3 + Len(copy) /\ Len(ops) = 4 + Len(copy)
  BY <1>8, <1>9, <1>10
<1>12. ops[1] = begin[1] /\ ops[2] = begin[2] /\ ops[3] = begin[3] /\ ops[Len(ops)] = end[1]
  <2>1. both[1] = begin[1] /\ both[2] = begin[2] /\ both[3] = begin[3]
    BY <1>8, <1>10
  <2>2. 1 \in 1..Len(both) /\ 2 \in 1..Len(both) /\ 3 \in 1..Len(both) /\ Len(ops) = Len(both) + 1
    BY <1>10, <1>11
  <2>3. QED
    BY <1>9, <1>10, <2>1, <2>2
<1>13. ASSUME Len(copy) = 2
       PROVE  ops[4] = copy[1] /\ ops[5] = copy[2]
  <2>1. both[3 + 1] = copy[1] /\ both[3 + 2] = copy[2]
    BY <1>8, <1>10, <1>13
  <2>2. 4 \in 1..Len(both) /\ 5 \in 1..Len(both)
    BY <1>11, <1>13
  <2>3. QED
    BY <1>9, <2>1, <2>2
<1>14. /\ ops \in Seq(Fitting)
       /\ ops[1] = put(total, Empty) /\ ops[2] = put(total, sum) /\ ops[3] = put(mine, held)
       /\ ops[Len(ops)] = put(mine, Append(held, n))
       /\ IF event_reservations_dir(e) \in DOMAIN files
          THEN Len(ops) = 6 /\ ops[4] = put(its, old) /\ ops[5] = put(its, Append(old, n))
          ELSE Len(ops) = 4
  <2>1. ops \in Seq(Fitting)
    BY <1>9
  <2>2. /\ ops[1] = put(total, Empty) /\ ops[2] = put(total, sum) /\ ops[3] = put(mine, held)
        /\ ops[Len(ops)] = put(mine, Append(held, n))
    BY <1>5, <1>12, Zenon
  <2>3. ASSUME event_reservations_dir(e) \in DOMAIN files
        PROVE  Len(ops) = 6 /\ ops[4] = put(its, old) /\ ops[5] = put(its, Append(old, n))
    <3>1. Len(copy) = 2 /\ copy[1] = put(its, old) /\ copy[2] = put(its, Append(old, n))
      BY <1>5, <2>3, Zenon
    <3>2. Len(ops) = 6
      BY <1>11, <3>1
    <3>3. QED
      BY <1>13, <3>1, <3>2, Zenon
  <2>4. ASSUME event_reservations_dir(e) \notin DOMAIN files
        PROVE  Len(ops) = 4
    <3>1. Len(copy) = 0
      BY <1>5, <2>4, Zenon
    <3>2. QED
      BY <1>11, <3>1
  <2>5. QED
    BY <2>1, <2>2, <2>3, <2>4, Zenon
<1>15. reserve(u, e, n) = ops
  BY <1>6 DEF ops, both
<1>16. QED
  BY <1>14, <1>15 DEF mine, its, total, held, old, sum

\* The operations of a create: the counter, the directories and files of event
\* n, and then its description, or all of it removed again.
Creates(ops, n, u, d, a, s) ==
    /\ ops \in Seq(Fitting) /\ Len(ops) >= 9
    /\ ops[1] = put(event_count_path, Empty) /\ ops[2] = put(event_count_path, n)
    /\ ops[3] = put(event_dir(n), Empty) /\ ops[4] = put(event_reservations_dir(n), Empty)
    /\ ops[5] = put(event_total_res_path(n), Empty) /\ ops[6] = put(event_total_res_path(n), 0)
    /\ ops[7] = put(event_details_path(n), Empty)
    /\ ops[8] = put(event_details_path(n), [creator |-> u, date |-> d, attendance |-> a, filesize |-> s])
    /\ ops[9] = put(user_event_path(u, n), Empty)
    /\ \A i \in 1..Len(ops) : i > 9 =>
          \/ \E b \in Nat : ops[i] = put(event_description_path(n), b)
          \/ ops[i] = remove(event_dir(n)) /\ i = Len(ops)

LEMMA StartCreates ==
    ASSUME NEW n \in EIDs, NEW u \in UIDs, NEW d \in Times, NEW a \in Attendances, NEW s \in FileSizes
    PROVE  Creates(start_create_event(n, u, d, a, s), n, u, d, a, s)
           /\ Len(start_create_event(n, u, d, a, s)) = 9
<1> DEFINE details == [creator |-> u, date |-> d, attendance |-> a, filesize |-> s]
           o1 == put(event_count_path, Empty)
           o2 == put(event_count_path, n)
           o3 == put(event_dir(n), Empty)
           o4 == put(event_reservations_dir(n), Empty)
           o5 == put(event_total_res_path(n), Empty)
           o6 == put(event_total_res_path(n), 0)
           o7 == put(event_details_path(n), Empty)
           o8 == put(event_details_path(n), details)
           o9 == put(user_event_path(u, n), Empty)
           begin == <<o1, o2, o3, o4, o5, o6, o7>>
           end == <<o8, o9>>
           ops == begin \o end
<1>1. start_create_event(n, u, d, a, s) = ops
  BY DEF start_create_event, create_event_dirs
<1>2. details \in Details
  BY DEF Details
<1> HIDE DEF details
<1>3. Empty \in Data /\ n \in Data /\ 0 \in Data /\ details \in Data
  BY <1>2 DEF Data, EIDs
<1>4. /\ Holds(event_count_path, Empty) /\ Holds(event_count_path, n)
      /\ Holds(event_dir(n), Empty) /\ Holds(event_reservations_dir(n), Empty)
      /\ Holds(event_total_res_path(n), Empty) /\ Holds(event_total_res_path(n), 0)
      /\ Holds(event_details_path(n), Empty) /\ Holds(event_details_path(n), details)
      /\ Holds(user_event_path(u, n), Empty)
  <2>1. n \in 0..MaxEvents
    BY LimitAssumption DEF EIDs
  <2>2. Holds(event_count_path, Empty) /\ Holds(event_count_path, n)
    BY <2>1, KindsOfContent
  <2>3. Holds(event_total_res_path(n), 0) /\ Holds(event_details_path(n), details)
    BY <1>2, KindsOfContent
  <2>4. QED
    BY <2>2, <2>3, KindsOfContent, Zenon
<1>5. /\ o1 \in Fitting /\ o2 \in Fitting /\ o3 \in Fitting /\ o4 \in Fitting /\ o5 \in Fitting
      /\ o6 \in Fitting /\ o7 \in Fitting /\ o8 \in Fitting /\ o9 \in Fitting
  BY <1>3, <1>4, PathsOfEvents, PathsOfUsers, FittingPut
<1> HIDE DEF o1, o2, o3, o4, o5, o6, o7, o8, o9
<1>6. begin \in Seq(Fitting) /\ end \in Seq(Fitting)
  BY <1>5
<1>7. /\ Len(begin) = 7 /\ begin[1] = o1 /\ begin[2] = o2 /\ begin[3] = o3 /\ begin[4] = o4
      /\ begin[5] = o5 /\ begin[6] = o6 /\ begin[7] = o7
      /\ Len(end) = 2 /\ end[1] = o8 /\ end[2] = o9
  OBVIOUS
<1> HIDE DEF begin, end
<1>8. ops \in Seq(Fitting)
  BY <1>6, Joined
<1>9. /\ Len(ops) = Len(begin) + Len(end)
      /\ \A i \in 1..Len(begin) : ops[i] = begin[i]
      /\ \A i \in 1..Len(end) : ops[Len(begin) + i] = end[i]
  BY <1>6, Joined
<1> HIDE DEF ops
<1>10. Len(ops) = 9
  BY <1>7, <1>9
<1>11. /\ ops[1] = begin[1] /\ ops[2] = begin[2] /\ ops[3] = begin[3] /\ ops[4] = begin[4]
       /\ ops[5] = begin[5] /\ ops[6] = begin[6] /\ ops[7] = begin[7]
  BY <1>7, <1>9
<1>12. ops[7 + 1] = end[1] /\ ops[7 + 2] = end[2]
  BY <1>7, <1>9
<1>13. /\ ops[1] = o1 /\ ops[2] = o2 /\ ops[3] = o3 /\ ops[4] = o4 /\ ops[5] = o5
       /\ ops[6] = o6 /\ ops[7] = o7
  BY <1>7, <1>11, Zenon
<1>14. ops[8] = o8 /\ ops[9] = o9
  <2>1. ops[8] = end[1] /\ ops[9] = end[2]
    BY <1>12
  <2>2. QED
    BY <1>7, <2>1, Zenon
<1>15. Len(ops) >= 9 /\ \A i \in 1..Len(ops) : ~(i > 9)
  BY <1>10
<1>16. Creates(ops, n, u, d, a, s)
  BY <1>8, <1>13, <1>14, <1>15 DEF Creates, o1, o2, o3, o4, o5, o6, o7, o8, o9, details
<1>17. QED
  BY <1>1, <1>10, <1>16

LEMMA CreateOperations ==
    ASSUME NEW n \in EIDs, NEW u \in UIDs, NEW d \in Times, NEW a \in Attendances, NEW s \in FileSizes,
           NEW tail \in Seq(Fitting),
           \A i \in 1..Len(tail) :
              \/ \E b \in Nat : tail[i] = put(event_description_path(n), b)
              \/ tail[i] = remove(event_dir(n)) /\ i = Len(tail)
    PROVE  LET ops == start_create_event(n, u, d, a, s) \o tail
           IN  /\ Creates(ops, n, u, d, a, s) /\ Len(ops) = 9 + Len(tail)
               /\ \A i \in 1..Len(tail) : ops[9 + i] = tail[i]
<1> DEFINE begin == start_create_event(n, u, d, a, s)
           ops == begin \o tail
<1>1. Creates(begin, n, u, d, a, s) /\ Len(begin) = 9
  BY StartCreates
<1> HIDE DEF begin
<1>2. begin \in Seq(Fitting)
  BY <1>1 DEF Creates
<1>3. ops \in Seq(Fitting)
  BY <1>2, Joined
<1>4. /\ Len(ops) = Len(begin) + Len(tail)
      /\ \A i \in 1..Len(begin) : ops[i] = begin[i]
      /\ \A i \in 1..Len(tail) : ops[Len(begin) + i] = tail[i]
  BY <1>2, Joined
<1> HIDE DEF ops
<1>5. Len(ops) = 9 + Len(tail) /\ \A i \in 1..Len(tail) : ops[9 + i] = tail[i]
  <2>1. Len(begin) = 9
    BY <1>1
  <2>2. QED
    BY <1>4, <2>1
<1>6. /\ ops[1] = begin[1] /\ ops[2] = begin[2] /\ ops[3] = begin[3] /\ ops[4] = begin[4]
      /\ ops[5] = begin[5] /\ ops[6] = begin[6] /\ ops[7] = begin[7] /\ ops[8] = begin[8]
      /\ ops[9] = begin[9]
  <2>1. Len(begin) = 9
    BY <1>1
  <2>2. QED
    BY <1>4, <2>1
<1>7. ASSUME NEW i \in 1..Len(ops), i > 9
      PROVE  \/ \E b \in Nat : ops[i] = put(event_description_path(n), b)
             \/ ops[i] = remove(event_dir(n)) /\ i = Len(ops)
  <2>1. i - 9 \in 1..Len(tail) /\ 9 + (i - 9) = i /\ (i - 9 = Len(tail) => i = Len(ops))
    BY <1>5, <1>7
  <2>2. ops[i] = tail[i - 9]
    BY <1>5, <2>1
  <2>3. QED
    BY <2>1, <2>2
<1>8. Creates(ops, n, u, d, a, s)
  <2>1. Len(ops) >= 9
    BY <1>5
  <2>2. QED
    BY <1>1, <1>3, <1>6, <1>7, <2>1 DEF Creates
<1>9. QED
  BY <1>5, <1>8 DEF ops, begin

LEMMA SeatLimits ==
    ASSUME NEW a \in Attendances
    PROVE  a \in Nat /\ a >= 10
<1>1. Attendances \subseteq 10..999
  BY RequestAssumption DEF parse_attendance
<1>2. QED
  BY <1>1

\* Trees that differ in one reservation file of event e only.
LEMMA OneFileMore ==
    ASSUME NEW f, NEW g, NEW e, NEW t \in Times, NEW u \in UIDs, NEW n,
           \A s \in Times, v \in UIDs : s # t \/ v # u =>
              Content(g, event_res_path(e, s, v), << >>) = Content(f, event_res_path(e, s, v), << >>)
    PROVE  LET its == event_res_path(e, t, u)
               r == Reservations(f, e)
           IN  /\ Content(g, its, << >>) = Content(f, its, << >>) => Reservations(g, e) = r
               /\ Content(g, its, << >>) = Append(Content(f, its, << >>), n) =>
                     Reservations(g, e) = Recorded(r, <<t, u>>, n)
<1> DEFINE its == event_res_path(e, t, u)
           c(x) == Content(f, event_res_path(e, x[1], x[2]), << >>)
           d(x) == Content(g, event_res_path(e, x[1], x[2]), << >>)
<1>1. ASSUME NEW x \in Times \X UIDs
      PROVE  /\ x[1] \in Times /\ x[2] \in UIDs /\ x = <<x[1], x[2]>>
             /\ x # <<t, u>> => d(x) = c(x)
  <2>1. x[1] \in Times /\ x[2] \in UIDs /\ x = <<x[1], x[2]>>
    OBVIOUS
  <2>2. x # <<t, u>> => x[1] # t \/ x[2] # u
    BY <2>1
  <2>3. QED
    BY <2>1, <2>2
<1>2. c(<<t, u>>) = Content(f, its, << >>) /\ d(<<t, u>>) = Content(g, its, << >>)
  OBVIOUS
<1>3. /\ Reservations(f, e) = [x \in Times \X UIDs |-> c(x)]
      /\ Reservations(g, e) = [x \in Times \X UIDs |-> d(x)]
  BY DEF Reservations
<1> HIDE DEF c, d
<1>4. ASSUME Content(g, its, << >>) = Content(f, its, << >>)
      PROVE  Reservations(g, e) = Reservations(f, e)
  <2>1. \A x \in Times \X UIDs : d(x) = c(x)
    BY <1>1, <1>2, <1>4
  <2>2. QED
    BY <1>3, <2>1
<1>5. ASSUME Content(g, its, << >>) = Append(Content(f, its, << >>), n)
      PROVE  Reservations(g, e) = Recorded(Reservations(f, e), <<t, u>>, n)
  <2> DEFINE r == Reservations(f, e)
             more == Append(c(<<t, u>>), n)
  <2>1. \A x \in Times \X UIDs : d(x) = IF x = <<t, u>> THEN more ELSE c(x)
    BY <1>1, <1>2, <1>5
  <2>2. r = [x \in Times \X UIDs |-> c(x)] /\ r[<<t, u>>] = c(<<t, u>>)
    BY <1>3
  <2> HIDE DEF r
  <2>3. Recorded(r, <<t, u>>, n) = [r EXCEPT ![<<t, u>>] = more]
    BY <2>2 DEF Recorded
  <2> HIDE DEF more
  <2>4. [r EXCEPT ![<<t, u>>] = more]
          = [x \in Times \X UIDs |-> IF x = <<t, u>> THEN more ELSE c(x)]
    BY <2>2
  <2>5. QED
    BY <1>3, <2>1, <2>3, <2>4 DEF r
<1>6. QED
  BY <1>4, <1>5

\* What the ladder of checks before a reservation has found.
LEMMA ReserveGuard ==
    ASSUME WellFormed(files), event = Events(files), now \in Times,
           NEW u, NEW p, NEW e \in EIDs, NEW n \in Seats, Store!reserve(u, p, e, n) = "ACC"
    PROVE  /\ n \in Nat /\ event_dir(e) \in DOMAIN files /\ event[e] = EventRecord(files, e)
           /\ Whole(files, event_details_path(e)) /\ files[event_details_path(e)] \in Details
           /\ event[e].sold \in Int
           /\ Whole(files, event_total_res_path(e)) =>
                 event[e].sold = files[event_total_res_path(e)]
           /\ event[e].sold + n <= files[event_details_path(e)].attendance
<1>1. n \in Nat
  BY RequestAssumption DEF parse_reserve_number
<1>2. /\ e \in DOMAIN event /\ ~(event[e].date <= now)
      /\ ~(n > event[e].attendance - event[e].sold)
  BY DEF Store!reserve, Store!does_event_exist, Store!is_event_past, Store!Remaining
<1>3. event_dir(e) \in DOMAIN files /\ event[e] = EventRecord(files, e)
  BY <1>2 DEF Events
<1>4. event_details_path(e) \in Paths /\ event_total_res_path(e) \in Paths
  BY PathsOfEvents
<1>5. Whole(files, event_details_path(e))
  <2>1. SUFFICES ASSUME ~Whole(files, event_details_path(e))
                 PROVE  FALSE
    OBVIOUS
  <2>2. event[e].date = 0
    BY <1>3, <2>1 DEF EventRecord
  <2>3. QED
    BY <1>2, <2>2 DEF Times
<1>6. files[event_details_path(e)] \in Details
  BY <1>5, KindsOfContent DEF WellFormed, Whole
<1>7. Whole(files, event_total_res_path(e)) => files[event_total_res_path(e)] \in Int
  BY KindsOfContent DEF WellFormed, Whole
<1>8. /\ event[e].attendance = files[event_details_path(e)].attendance
      /\ event[e].sold = IF Whole(files, event_total_res_path(e))
                         THEN files[event_total_res_path(e)] ELSE -1
  BY <1>3, <1>5 DEF EventRecord
<1>9. event[e].sold \in Int
  BY <1>7, <1>8
<1>10. event[e].attendance \in Int
  <2>1. event[e].attendance \in Attendances
    BY <1>6, <1>8 DEF Details
  <2>2. QED
    BY <2>1, SeatLimits
<1>11. event[e].sold + n <= event[e].attendance
  BY <1>1, <1>2, <1>9, <1>10
<1>12. QED
  BY <1>1, <1>3, <1>5, <1>6, <1>8, <1>9, <1>11

\* At every cut the event's reservation file holds what it held, or one number more.
LEMMA ReserveCuts ==
    ASSUME WellFormed(files), now \in Times, NEW u \in UIDs, NEW e \in EIDs, NEW n \in Nat,
           event[e].sold \in Int, NEW k \in 1..Len(reserve(u, e, n))
    PROVE  LET g == Tree(files, reserve(u, e, n), k)
               r == Reservations(files, e)
           IN  /\ \A x : x \notin {user_res_path(u, now, e), event_res_path(e, now, u), event_total_res_path(e)}
                            => SameAt(files, g, x)
               /\ LeftAt(g, event_total_res_path(e), IF k = 1 THEN Empty ELSE event[e].sold + n)
               /\ Reservations(g, e) \in {r, Recorded(r, <<now, u>>, n)}
<1> DEFINE ops == reserve(u, e, n)
           mine == user_res_path(u, now, e)
           its == event_res_path(e, now, u)
           held == Content(files, mine, << >>)
           old == Content(files, its, << >>)
           total == event_total_res_path(e)
           sum == event[e].sold + n
           g == Tree(files, ops, k)
           r == Reservations(files, e)
<1>1. /\ ops \in Seq(Fitting) /\ ops[1] = put(total, Empty) /\ ops[2] = put(total, sum)
      /\ ops[3] = put(mine, held) /\ ops[Len(ops)] = put(mine, Append(held, n))
      /\ IF event_reservations_dir(e) \in DOMAIN files
         THEN Len(ops) = 6 /\ ops[4] = put(its, old) /\ ops[5] = put(its, Append(old, n))
         ELSE Len(ops) = 4
  BY ReserveOperations
<1>2. held \in Seq(Nat) /\ old \in Seq(Nat)
  BY PathsOfEvents, ReservationFile, FirstParts
<1>3. /\ Append(held, n) \in Seq(Nat) /\ Append(old, n) \in Seq(Nat) /\ sum \in Int
  BY <1>2
<1> HIDE DEF ops, held, old, sum
<1>4. ASSUME NEW i \in 1..Len(ops), i > 2
      PROVE  \/ \E c : c # Gone /\ ops[i] = put(mine, c)
             \/ \E c : c \in {old, Append(old, n)} /\ ops[i] = put(its, c)
  <2>1. ops[3] = put(mine, held) /\ ops[Len(ops)] = put(mine, Append(held, n))
    BY <1>1
  <2>2. held # Gone /\ Append(held, n) # Gone
    BY <1>2, <1>3, MarkersApart
  <2>3. CASE event_reservations_dir(e) \in DOMAIN files
    <3>1. Len(ops) = 6 /\ ops[4] = put(its, old) /\ ops[5] = put(its, Append(old, n))
      BY <1>1, <2>3
    <3>2. i = 3 \/ i = 4 \/ i = 5 \/ i = Len(ops)
      BY <1>4, <3>1
    <3>3. QED
      BY <2>1, <2>2, <3>1, <3>2, Zenon
  <2>4. CASE event_reservations_dir(e) \notin DOMAIN files
    <3>1. Len(ops) = 4
      BY <1>1, <2>4
    <3>2. i = 3 \/ i = Len(ops)
      BY <1>4, <3>1
    <3>3. QED
      BY <2>1, <2>2, <3>2, Zenon
  <2>5. QED
    BY <2>3, <2>4
<1>5. ASSUME NEW i \in 1..Len(ops), NEW x
      PROVE  /\ i <= 2 => (Concerns(ops[i], x) <=> x = total)
             /\ i > 2 => (Concerns(ops[i], x) => x = mine \/ x = its)
             /\ ops[i].content # Gone
  <2>1. CASE i <= 2
    <3>1. i = 1 \/ i = 2
      BY <2>1
    <3>2. \E c : c # Gone /\ ops[i] = put(total, c)
      BY <1>1, <1>3, <3>1, MarkersApart
    <3>3. QED
      BY <2>1, <3>2, ConcernsPut, PutParts
  <2>2. CASE i > 2
    <3>1. \E c : c # Gone /\ (ops[i] = put(mine, c) \/ ops[i] = put(its, c))
      BY <1>2, <1>3, <1>4, <2>2, MarkersApart
    <3>2. QED
      BY <2>2, <3>1, ConcernsPut, PutParts
  <2>3. QED
    BY <2>1, <2>2
<1>6. /\ k \in Nat /\ k \in 1..Len(ops) /\ Len(ops) \in Nat
      /\ \A i \in 1..k : i \in 1..Len(ops) /\ (i <= 2 \/ i > 2)
  BY <1>1 DEF ops
<1>7. \A x : x \notin {mine, its, total} => SameAt(files, g, x)
  BY <1>5, <1>6, Untouched
<1>8. LeftAt(g, total, IF k = 1 THEN Empty ELSE sum)
  <2>1. total # mine /\ total # its
    BY FirstParts
  <2>2. CASE k = 1
    <3>1. 1 \in 1..k /\ (\A j \in 1..k : ~(j > 1)) /\ Concerns(ops[1], total)
      BY <1>5, <1>6, <2>2
    <3>2. LeftAt(g, total, ops[1].content)
      BY <1>6, <3>1, LastLeft
    <3>3. QED
      BY <1>1, <2>2, <3>2, PutParts
  <2>3. CASE k # 1
    <3>1. 2 \in 1..k
      BY <1>6, <2>3
    <3>2. Concerns(ops[2], total)
      <4>1. 2 \in 1..Len(ops) /\ 2 <= 2
        BY <1>6, <3>1
      <4>2. QED
        BY <1>5, <4>1
    <3>3. \A j \in 1..k : j > 2 => ~Concerns(ops[j], total)
      BY <1>5, <1>6, <2>1
    <3>4. LeftAt(g, total, ops[2].content)
      BY <1>6, <3>1, <3>2, <3>3, LastLeft
    <3>5. QED
      BY <1>1, <2>3, <3>4, PutParts
  <2>4. QED
    BY <2>2, <2>3
<1>9. ASSUME NEW t \in Times, NEW v \in UIDs, t # now \/ v # u
      PROVE  Content(g, event_res_path(e, t, v), << >>) = Content(files, event_res_path(e, t, v), << >>)
  <2>1. event_res_path(e, t, v) \notin {mine, its, total}
    BY <1>9, FirstParts, OtherParts
  <2>2. SameAt(files, g, event_res_path(e, t, v))
    BY <1>5, <1>6, <2>1, Untouched
  <2>3. QED
    BY <2>2, SameContent
<1>10. Content(g, its, << >>) \in {old, Append(old, n)}
  <2>1. CASE its \in DOMAIN g
    <3>1. CASE its \in DOMAIN files /\ g[its] = files[its]
      BY <2>1, <3>1 DEF Content, old
    <3>2. CASE \E i \in 1..k : /\ ops[i].path = its /\ ops[i].content # Gone
                               /\ g[its] = ops[i].content
      <4>1. PICK i \in 1..k : ops[i].path = its /\ g[its] = ops[i].content
        BY <3>2
      <4>2. its # total /\ its # mine
        BY FirstParts
      <4>3. i > 2
        <5>1. i <= 2 => Concerns(ops[i], its)
          BY <4>1 DEF Concerns
        <5>2. QED
          BY <1>5, <1>6, <4>2, <5>1
      <4>4. ops[i].content \in {old, Append(old, n)}
        BY <1>4, <1>6, <4>1, <4>2, <4>3, PutParts
      <4>5. QED
        BY <2>1, <4>1, <4>4 DEF Content
    <3>3. QED
      BY <1>6, <2>1, <3>1, <3>2, TreeHolds
  <2>2. CASE its \notin DOMAIN g
    <3>1. its \notin DOMAIN files
      BY <1>5, <1>6, <2>2, Stays
    <3>2. QED
      BY <2>2, <3>1 DEF Content, old
  <2>3. QED
    BY <2>1, <2>2
<1>11. Reservations(g, e) \in {r, Recorded(r, <<now, u>>, n)}
  <2>1. Content(g, its, << >>) \in {Content(files, its, << >>), Append(Content(files, its, << >>), n)}
    BY <1>10 DEF old
  <2> HIDE DEF g
  <2>2. QED
    BY <1>9, <2>1, OneFileMore
<1>12. QED
  BY <1>7, <1>8, <1>11 DEF ops, sum


LEMMA ReservationsType ==
    ASSUME WellFormed(files), NEW e \in EIDs
    PROVE  Reservations(files, e) \in [Times \X UIDs -> Seq(Nat)]
<1>1. \A x \in Times \X UIDs : Content(files, event_res_path(e, x[1], x[2]), << >>) \in Seq(Nat)
  BY PathsOfEvents, ReservationFile, FirstParts
<1>2. QED
  BY <1>1 DEF Reservations

LEMMA ReserveSafe ==
    ASSUME NEW lost, Sound(files, lost), event = Events(files), now \in Times,
           NEW u \in UIDs, NEW p, NEW e \in EIDs, NEW n \in Seats, Store!reserve(u, p, e, n) = "ACC"
    PROVE  Safe(files, reserve(u, e, n), lost)
<1> DEFINE ops == reserve(u, e, n)
           sold == event[e].sold
           total == event_total_res_path(e)
           details == event_details_path(e)
           r == Reservations(files, e)
<1>1. WellFormed(files)
  BY DEF Sound
<1>2. /\ n \in Nat /\ event_dir(e) \in DOMAIN files
      /\ Whole(files, details) /\ files[details] \in Details
      /\ sold \in Int
      /\ Whole(files, total) => sold = files[total]
      /\ sold + n <= files[details].attendance
  BY <1>1, ReserveGuard
<1>3. /\ ops \in Seq(Fitting) /\ ops[1] = put(total, Empty) /\ ops[2] = put(total, sold + n)
      /\ ops[3].path = user_res_path(u, now, e) /\ ops[Len(ops)].path = user_res_path(u, now, e)
      /\ \/ /\ Len(ops) = 6 /\ ops[4].path = event_res_path(e, now, u)
            /\ ops[5].path = event_res_path(e, now, u)
         \/ Len(ops) = 4
  <2> DEFINE mine == user_res_path(u, now, e)
             its == event_res_path(e, now, u)
             held == Content(files, mine, << >>)
             old == Content(files, its, << >>)
  <2>1. n \in Nat /\ event[e].sold \in Int
    BY <1>2
  <2>2. /\ ops \in Seq(Fitting) /\ ops[1] = put(total, Empty) /\ ops[2] = put(total, sold + n)
        /\ ops[3] = put(mine, held) /\ ops[Len(ops)] = put(mine, Append(held, n))
        /\ IF event_reservations_dir(e) \in DOMAIN files
           THEN Len(ops) = 6 /\ ops[4] = put(its, old) /\ ops[5] = put(its, Append(old, n))
           ELSE Len(ops) = 4
    BY <1>1, <2>1, ReserveOperations
  <2> HIDE DEF ops, mine, its, held, old, total, sold
  <2>3. QED
    BY <2>2, PutParts DEF mine, its
<1>4. e <= LastEvent(files)
  BY <1>2, PathsApart DEF Sound, Numbered
<1>5. r \in [Times \X UIDs -> Seq(Nat)]
  BY <1>1, ReservationsType
<1>6. ASSUME NEW i \in 1..Len(ops)
      PROVE  About(ops[i].path, e)
  <2>1. /\ About(total, e) /\ About(user_res_path(u, now, e), e)
        /\ About(event_res_path(e, now, u), e)
    BY PathsApart
  <2> HIDE DEF ops, total
  <2>2. i = 1 \/ i = 2 \/ i = 3 \/ i = 4 \/ i = 5 \/ i = Len(ops)
    BY <1>3
  <2>3. CASE Len(ops) = 6
    BY <1>3, <2>1, <2>2, <2>3, PutParts
  <2>4. CASE Len(ops) = 4
    <3>1. i = 1 \/ i = 2 \/ i = 3 \/ i = Len(ops)
      BY <2>4
    <3>2. QED
      BY <1>3, <2>1, <3>1, PutParts
  <2>5. QED
    BY <1>3, <2>3, <2>4
<1>7. ASSUME NEW k \in 1..Len(ops), e \notin lost
      PROVE  MayStop(files, ops, k, e)
  <2> DEFINE g == Tree(files, ops, k)
  <2>1. /\ SameAt(files, g, details) /\ SameAt(files, g, event_reservations_dir(e))
        /\ LeftAt(g, total, IF k = 1 THEN Empty ELSE sold + n)
        /\ Reservations(g, e) \in {r, Recorded(r, <<now, u>>, n)}
    <3>1. n \in Nat /\ event[e].sold \in Int
      BY <1>2
    <3>2. {details, event_reservations_dir(e)}
             \cap {user_res_path(u, now, e), event_res_path(e, now, u), total} = {}
      BY FirstParts
    <3>3. QED
      BY <1>1, <3>1, <3>2, ReserveCuts
  <2>2. /\ Whole(files, total) /\ IsFiniteSet(SeatsIn(r)) /\ Cardinality(SeatsIn(r)) <= files[total]
        /\ event_reservations_dir(e) \in DOMAIN files
    BY <1>2, <1>7 DEF Sound, Booked
  <2>3. n \in Nat /\ sold \in Int /\ sold = files[total] /\ sold + n <= files[details].attendance
    BY <1>2, <2>2
  <2>4. Whole(files, details)
    BY <1>2
  <2> HIDE DEF g, r, total, details, sold
  <2>5. sold + n \in Int /\ sold + n # Gone /\ sold + n # Empty
    BY <2>3, MarkersApart
  <2>6. CASE k = 1
    <3>1. g[total] = Empty /\ Empty # Gone
      BY <2>1, <2>6, MarkersApart DEF LeftAt
    <3>2. ops[k + 1] = put(total, sold + n)
      BY <1>3, <2>6
    <3>3. HalfDone(g, e, ops[k + 1])
      BY <2>5, <3>1, <3>2, PutParts DEF HalfDone, total
    <3>4. k < Len(ops)
      BY <1>3, <2>6
    <3>5. QED
      BY <3>3, <3>4 DEF MayStop, g
  <2>7. CASE k # 1
    <3>1. LeftAt(g, total, sold + n)
      BY <2>1, <2>7
    <3>2. Whole(g, total) /\ g[total] = sold + n
      BY <2>5, <3>1 DEF LeftAt, Whole
    <3>3. g[details] = files[details]
      BY <2>1, <2>4 DEF SameAt, Whole
    <3>4. Cardinality(SeatsIn(r)) \in Nat
      BY <2>2, FS_CardinalityType
    <3>5. /\ IsFiniteSet(SeatsIn(Reservations(g, e)))
          /\ Cardinality(SeatsIn(Reservations(g, e))) <= sold + n
      <4>1. Cardinality(SeatsIn(r)) <= sold
        BY <2>2, <2>3
      <4>2. CASE Reservations(g, e) = r
        <5>1. Cardinality(SeatsIn(r)) <= sold + n
          BY <2>3, <3>4, <4>1
        <5>2. QED
          BY <2>2, <4>2, <5>1
      <4>3. CASE Reservations(g, e) = Recorded(r, <<now, u>>, n)
        <5>1. <<now, u>> \in Times \X UIDs
          OBVIOUS
        <5>2. /\ IsFiniteSet(SeatsIn(Recorded(r, <<now, u>>, n)))
              /\ Cardinality(SeatsIn(Recorded(r, <<now, u>>, n))) = Cardinality(SeatsIn(r)) + n
          BY <1>5, <2>2, <2>3, <5>1, SeatsInRecorded
        <5>3. Cardinality(SeatsIn(r)) + n <= sold + n
          BY <2>3, <3>4, <4>1
        <5>4. QED
          BY <4>3, <5>2, <5>3
      <4>4. QED
        BY <2>1, <4>2, <4>3
    <3>6. event_reservations_dir(e) \in DOMAIN g
      BY <2>1, <2>2 DEF SameAt
    <3>7. Booked(g, e)
      BY <2>3, <3>2, <3>3, <3>5, <3>6 DEF Booked, total, details
    <3>8. QED
      BY <3>7 DEF MayStop, g
  <2>8. QED
    BY <2>6, <2>7
<1>8. e \notin lost => MayStop(files, ops, 0, e)
  <2>1. Tree(files, ops, 0) = files
    BY <1>1, NothingDone DEF WellFormed
  <2>2. QED
    BY <2>1 DEF Sound, MayStop
<1> HIDE DEF ops
<1>9. /\ ops \in Seq(Fitting)
      /\ e \in lost \/ \A k \in 1..Len(ops) : MayStop(files, ops, k, e)
      /\ e \in lost \/ MayStop(files, ops, 0, e)
  BY <1>3, <1>7, <1>8
<1>10. Safe(files, ops, lost)
  BY <1>4, <1>6, <1>9, EventSafe
<1>11. QED
  BY <1>10 DEF ops

LEMMA LastEventType ==
    ASSUME NEW f, WellFormed(f)
    PROVE  LastEvent(f) \in 0..MaxEvents
<1>1. event_count_path \in DOMAIN f => f[event_count_path] \in 0..MaxEvents \cup {Empty}
  BY KindsOfContent DEF WellFormed
<1>2. 0 \in 0..MaxEvents /\ MaxEvents \in 0..MaxEvents
  BY LimitAssumption
<1>3. QED
  BY <1>1, <1>2 DEF LastEvent, Content

\* What the operations of a create are about, one by one.
LEMMA CreatePaths ==
    ASSUME NEW n \in EIDs, NEW u, NEW d, NEW a, NEW s, NEW ops, Creates(ops, n, u, d, a, s),
           [creator |-> u, date |-> d, attendance |-> a, filesize |-> s] \in Details,
           NEW i \in 1..Len(ops)
    PROVE  /\ i <= 2 => ops[i].path = event_count_path
           /\ i > 2 => About(ops[i].path, n) /\ ops[i].path[1] \notin {"event_res", "user_res"}
           /\ ops[i].path = event_details_path(n) => i \in {7, 8}
           /\ ops[i].path = event_total_res_path(n) => i \in {5, 6}
           /\ ops[i].path[1] = "user_event" => i = 9
           /\ ops[i].path[1] = "reservations" => i = 4
           /\ ops[i].content = Gone => ops[i] = remove(event_dir(n)) /\ i = Len(ops) /\ i > 9
<1>1. \/ i = 1 \/ i = 2 \/ i = 3 \/ i = 4 \/ i = 5 \/ i = 6 \/ i = 7 \/ i = 8 \/ i = 9
      \/ i \in 1..Len(ops) /\ i > 9
  BY DEF Creates
<1>2. Empty # Gone /\ n # Gone /\ 0 # Gone
      /\ [creator |-> u, date |-> d, attendance |-> a, filesize |-> s] # Gone
  BY MarkersApart DEF EIDs
<1>3. CASE i \in {1, 2}
  <2>1. i = 1 \/ i = 2
    BY <1>3
  <2>2. \E c : c # Gone /\ ops[i] = put(event_count_path, c)
    BY <1>2, <2>1 DEF Creates
  <2>3. QED
    BY <1>3, <2>2, PutParts, FirstParts
<1>4. CASE i \in {3, 4}
  <2>1. i = 3 \/ i = 4
    BY <1>4
  <2>2. \E c : c # Gone /\ ops[i] = put(IF i = 3 THEN event_dir(n) ELSE event_reservations_dir(n), c)
    BY <1>2, <2>1 DEF Creates
  <2>3. QED
    BY <1>4, <2>2, PutParts, FirstParts, PathsApart, PathsBelow
<1>5. CASE i \in {5, 6}
  <2>1. i = 5 \/ i = 6
    BY <1>5
  <2>2. \E c : c # Gone /\ ops[i] = put(event_total_res_path(n), c)
    BY <1>2, <2>1 DEF Creates
  <2>3. QED
    BY <1>5, <2>2, PutParts, FirstParts, PathsApart, PathsBelow
<1>6. CASE i \in {7, 8}
  <2>1. i = 7 \/ i = 8
    BY <1>6
  <2>2. \E c : c # Gone /\ ops[i] = put(event_details_path(n), c)
    BY <1>2, <2>1 DEF Creates
  <2>3. QED
    BY <1>6, <2>2, PutParts, FirstParts, PathsApart, PathsBelow
<1>7. CASE i = 9
  <2>1. ops[i] = put(user_event_path(u, n), Empty)
    BY <1>7 DEF Creates
  <2>2. About(user_event_path(u, n), n)
    BY FirstParts, OtherParts DEF About
  <2>3. QED
    BY <1>2, <1>7, <2>1, <2>2, PutParts, FirstParts
<1>8. CASE i > 9
  <2>1. ~(i <= 2) /\ i > 2
    BY <1>8
  <2>2. CASE \E b \in Nat : ops[i] = put(event_description_path(n), b)
    <3>1. ops[i].path = event_description_path(n) /\ ops[i].content # Gone
      BY <2>2, PutParts, MarkersApart
    <3>2. About(event_description_path(n), n) /\ event_description_path(n)[1] = "description"
      BY FirstParts, PathsApart, PathsBelow
    <3>3. QED
      BY <1>8, <2>1, <3>1, <3>2, FirstParts
  <2>3. CASE ops[i] = remove(event_dir(n)) /\ i = Len(ops)
    <3>1. ops[i].path = event_dir(n)
      BY <2>3, PutParts
    <3>2. About(event_dir(n), n) /\ event_dir(n)[1] = "dir"
      BY FirstParts, PathsApart, PathsBelow
    <3>3. QED
      BY <1>8, <2>1, <2>3, <3>1, <3>2, FirstParts
  <2>4. QED
    BY <1>8, <2>2, <2>3 DEF Creates
<1>9. QED
  BY <1>1, <1>3, <1>4, <1>5, <1>6, <1>7, <1>8

LEMMA CreateSafe ==
    ASSUME NEW f, NEW lost, Sound(f, lost), NEW n \in EIDs, n = LastEvent(f) + 1,
           NEW u \in UIDs, NEW d \in Times, NEW a \in Attendances, NEW s \in FileSizes,
           NEW ops, Creates(ops, n, u, d, a, s)
    PROVE  Safe(f, ops, lost)
<1> DEFINE details == [creator |-> u, date |-> d, attendance |-> a, filesize |-> s]
<1>1. details \in Details
  BY DEF Details
<1>2. /\ ops \in Seq(Fitting) /\ Len(ops) \in Nat /\ Len(ops) >= 9
      /\ ops[1] = put(event_count_path, Empty) /\ ops[2] = put(event_count_path, n)
      /\ ops[4] = put(event_reservations_dir(n), Empty) /\ ops[6] = put(event_total_res_path(n), 0)
      /\ ops[7] = put(event_details_path(n), Empty) /\ ops[8] = put(event_details_path(n), details)
  BY DEF Creates
<1> DEFINE p(i) == ops[i].path
<1>3. ASSUME NEW i \in 1..Len(ops)
      PROVE  /\ i <= 2 => p(i) = event_count_path
             /\ i > 2 => About(p(i), n) /\ p(i)[1] \notin {"event_res", "user_res"}
             /\ p(i) = event_details_path(n) => i \in {7, 8}
             /\ p(i) = event_total_res_path(n) => i \in {5, 6}
             /\ ops[i].content = Gone => ops[i] = remove(event_dir(n)) /\ i = Len(ops) /\ i > 9
  BY <1>1, CreatePaths
<1> HIDE DEF details
<1>4. /\ LastEvent(f) \in Nat /\ n \in Nat /\ n <= MaxEvents
      /\ \A x \in DOMAIN f : ~About(x, n)
  <2>1. LastEvent(f) \in 0..MaxEvents
    BY LastEventType DEF Sound
  <2>2. \A x \in DOMAIN f : About(x, n) => n <= LastEvent(f)
    BY DEF Sound, Numbered
  <2>3. QED
    BY <2>1, <2>2 DEF EIDs
<1>5. ASSUME NEW k \in 0..Len(ops)
      PROVE  LoginsHave(Tree(f, ops, k)) /\ Numbered(Tree(f, ops, k))
  <2> DEFINE g == Tree(f, ops, k)
  <2>1. k \in Nat /\ \A i \in 1..k : i \in 1..Len(ops) /\ (i <= 2 \/ i > 2)
    BY <1>2
  <2>2. ASSUME NEW i \in 1..k, NEW v \in UIDs
        PROVE  p(i) # password_path(v) /\ p(i) # logged_in_path(v)
    <3>1. p(i) = event_count_path \/ About(p(i), n)
      BY <1>3, <2>1
    <3>2. QED
      BY <3>1, PathsApart, FirstParts
  <2>3. LoginsHave(g)
    BY <2>1, <2>2, AccountsKept, SameLogins DEF Sound
  <2>4. CASE k = 0
    BY <2>3, <2>4, NothingDone DEF Sound, WellFormed
  <2>5. CASE k > 0
    <3>1. ASSUME NEW i \in 1..k, i > 2
          PROVE  ~Concerns(ops[i], event_count_path)
      <4>1. About(p(i), n)
        BY <1>3, <2>1, <3>1
      <4>2. p(i) # event_count_path
        BY <4>1, PathsApart
      <4>3. QED
        BY <4>2, FirstParts DEF Concerns, InEventDir
    <3>2. /\ Concerns(ops[1], event_count_path) /\ Concerns(ops[2], event_count_path)
          /\ ops[1].content = Empty /\ ops[2].content = n /\ n # Gone /\ n # Empty /\ Empty # Gone
      BY <1>2, <1>4, ConcernsPut, PutParts, MarkersApart
    <3>3. n <= LastEvent(g)
      <4>1. CASE k = 1
        <5>1. LeftAt(g, event_count_path, ops[1].content)
          <6>1. 1 \in 1..k /\ \A j \in 1..k : ~(j > 1)
            BY <4>1
          <6>2. QED
            BY <2>1, <3>2, <6>1, LastLeft
        <5>2. LastEvent(g) = MaxEvents
          BY <3>2, <5>1 DEF LeftAt, LastEvent, Content
        <5>3. QED
          BY <1>4, <5>2
      <4>2. CASE k # 1
        <5>1. 2 \in 1..k
          BY <2>5, <4>2
        <5>2. LeftAt(g, event_count_path, ops[2].content)
          BY <2>1, <3>1, <3>2, <5>1, LastLeft
        <5>3. LastEvent(g) = n
          BY <3>2, <5>2 DEF LeftAt, LastEvent, Content
        <5>4. QED
          BY <1>4, <5>3
      <4>3. QED
        BY <4>1, <4>2
    <3>4. ASSUME NEW x \in DOMAIN g, NEW e \in EIDs, About(x, e)
          PROVE  e <= n
      <4>1. CASE x \in DOMAIN f
        <5>1. e <= LastEvent(f)
          BY <3>4, <4>1 DEF Sound, Numbered
        <5>2. e \in Nat
          BY DEF EIDs
        <5>3. QED
          BY <1>4, <5>1, <5>2
      <4>2. CASE \E i \in 1..k : p(i) = x
        <5>1. About(x, n)
          BY <1>3, <2>1, <3>4, <4>2, PathsApart
        <5>2. e = n
          BY <3>4, <5>1, PathsApart
        <5>3. QED
          BY <1>4, <5>2
      <4>3. QED
        BY <2>1, <4>1, <4>2, TreeHolds
    <3>5. LastEvent(g) \in Nat
      <4>1. WellFormed(g)
        BY <1>2, TreeWellFormed DEF Sound
      <4>2. QED
        BY <4>1, LastEventType
    <3>6. Numbered(g)
      <4>1. ASSUME NEW x \in DOMAIN g, NEW e \in EIDs, About(x, e)
            PROVE  e <= LastEvent(g)
        <5>1. e <= n /\ e \in Nat
          BY <3>4, <4>1 DEF EIDs
        <5>2. QED
          BY <1>4, <3>3, <3>5, <5>1
      <4>2. QED
        BY <4>1 DEF Numbered
    <3>7. QED
      BY <2>3, <3>6
  <2>6. QED
    BY <2>1, <2>4, <2>5
<1>6. ASSUME NEW k \in 0..Len(ops), NEW e \in EIDs \ lost, e # n
      PROVE  MayStop(f, ops, k, e)
  <2>1. k \in Nat /\ \A i \in 1..k : i \in 1..Len(ops) /\ (i <= 2 \/ i > 2)
    BY <1>2
  <2>2. \A i \in 1..k : ~About(ops[i].path, e)
    BY <1>3, <1>6, <2>1, PathsApart
  <2>3. Booked(Tree(f, ops, k), e)
    BY <2>1, <2>2, BookedElsewhere DEF Sound
  <2>4. QED
    BY <2>3 DEF MayStop
<1>7. ASSUME NEW k \in 0..Len(ops)
      PROVE  Booked(Tree(f, ops, k), n)
  <2> DEFINE g == Tree(f, ops, k)
             written == event_details_path(n)
             total == event_total_res_path(n)
  <2>1. k \in Nat /\ \A i \in 1..k : i \in 1..Len(ops)
    BY <1>2
  <2>2. SUFFICES ASSUME Whole(g, written)
                 PROVE  /\ event_reservations_dir(n) \in DOMAIN g
                        /\ Whole(g, total) /\ IsFiniteSet(SeatsIn(Reservations(g, n)))
                        /\ Cardinality(SeatsIn(Reservations(g, n))) <= g[total]
                        /\ g[total] <= g[written].attendance
    BY DEF Booked
  <2>3. written \in DOMAIN g /\ g[written] # Empty /\ written \notin DOMAIN f
    BY <1>4, <2>2, PathsApart, PathsBelow DEF Whole
  <2>4. PICK i \in 1..k : p(i) = written /\ g[written] = ops[i].content
    BY <2>1, <2>3, TreeHolds
  <2>5. i = 8
    BY <1>2, <1>3, <2>1, <2>3, <2>4, PutParts
  <2>6. g[written] = details /\ k >= 8
    BY <1>2, <2>4, <2>5, PutParts
  <2>7. ASSUME NEW j \in 1..k
        PROVE  ops[j].content # Gone
    <3>1. SUFFICES ASSUME ops[j].content = Gone
                   PROVE  FALSE
      OBVIOUS
    <3>2. ops[j] = remove(event_dir(n)) /\ j = Len(ops)
      BY <1>3, <2>1, <3>1
    <3>3. Concerns(ops[j], written)
      BY <3>2, ConcernsRemoveAll, PathsBelow
    <3>4. \A m \in 1..k : ~(m > j)
      BY <1>2, <2>1, <3>2
    <3>5. LeftAt(g, written, ops[j].content)
      BY <2>1, <3>3, <3>4, LastLeft
    <3>6. QED
      BY <2>3, <3>1, <3>5 DEF LeftAt
  <2>8. Whole(g, total) /\ g[total] = 0
    <3>1. 6 \in 1..k /\ 6 \in 1..Len(ops)
      BY <1>2, <2>1, <2>6
    <3>2. Concerns(ops[6], total) /\ ops[6].content = 0
      <4>1. 0 # Gone
        BY MarkersApart
      <4>2. QED
        BY <1>2, <4>1, ConcernsPut, PutParts
    <3>3. ASSUME NEW j \in 1..k, j > 6
          PROVE  ~Concerns(ops[j], total)
      <4>1. p(j) # total
        BY <1>3, <2>1, <3>3
      <4>2. ops[j] # remove(ops[j].path)
        BY <2>7, PutParts
      <4>3. QED
        BY <4>1, <4>2 DEF Concerns
    <3>4. LeftAt(g, total, ops[6].content)
      BY <2>1, <3>1, <3>2, <3>3, LastLeft
    <3>5. 0 # Gone /\ 0 # Empty
      BY MarkersApart
    <3> HIDE DEF g, total
    <3>6. QED
      BY <3>2, <3>4, <3>5 DEF LeftAt, Whole
  <2>9. ASSUME NEW t, NEW v
        PROVE  event_res_path(n, t, v) \notin DOMAIN g
    <3>1. event_res_path(n, t, v) \notin DOMAIN f
      <4>1. About(event_res_path(n, t, v), n)
        BY FirstParts, OtherParts DEF About, InEventDir
      <4>2. QED
        BY <1>4, <4>1
    <3>2. \A j \in 1..k : p(j) # event_res_path(n, t, v)
      <4>1. ASSUME NEW j \in 1..k
            PROVE  p(j)[1] # "event_res"
        <5>1. CASE j <= 2
          BY <1>3, <2>1, <5>1, FirstParts
        <5>2. CASE j > 2
          BY <1>3, <2>1, <5>2
        <5>3. QED
          BY <5>1, <5>2
      <4>2. QED
        BY <4>1, FirstParts
    <3>3. QED
      BY <2>1, <3>1, <3>2, TreeHolds
  <2>10. Reservations(g, n) = [x \in Times \X UIDs |-> << >>]
    BY <2>9 DEF Reservations, Content
  <2>11. SeatsIn(Reservations(g, n)) = {}
    BY <2>10, SeatsInEmpty
  <2>12. g[written].attendance = a /\ a \in Nat
    BY <2>6, SeatLimits DEF details
  <2>13. /\ IsFiniteSet(SeatsIn(Reservations(g, n)))
         /\ Cardinality(SeatsIn(Reservations(g, n))) = 0
    BY <2>11, FS_EmptySet
  <2>14. event_reservations_dir(n) \in DOMAIN g
    <3>1. 4 \in 1..k
      BY <2>1, <2>6
    <3>2. Concerns(ops[4], event_reservations_dir(n))
      BY <1>2, MarkersApart, ConcernsPut
    <3>3. QED
      BY <2>1, <2>7, <3>1, <3>2, Stays
  <2> HIDE DEF g, total, written
  <2>15. QED
    BY <2>8, <2>12, <2>13, <2>14
<1>8. QED
  BY <1>2, <1>5, <1>6, <1>7 DEF Safe, MayStop

\* Start-up: an empty counter, and the first number.
LEMMA StartSafe ==
    ASSUME NEW f, NEW lost, Sound(f, lost)
    PROVE  Safe(f, start_up(f), lost)
<1>1. CASE event_count_path \in DOMAIN f
  BY <1>1, AtRest DEF start_up, Sound
<1>2. CASE event_count_path \notin DOMAIN f
  <2> DEFINE ops == <<put(event_count_path, Empty), put(event_count_path, 0)>>
  <2>1. start_up(f) = ops
    BY <1>2 DEF start_up
  <2>2. put(event_count_path, Empty) \in Fitting /\ put(event_count_path, 0) \in Fitting
    <3>1. Empty \in Data /\ 0 \in Data
      BY DEF Data
    <3>2. 0 \in 0..MaxEvents
      BY LimitAssumption
    <3>3. Holds(event_count_path, Empty) /\ Holds(event_count_path, 0)
      BY <3>2, KindsOfContent
    <3>4. QED
      BY <3>1, <3>3, PathsOfUsers, FittingPut
  <2>3. /\ ops \in Seq(Fitting) /\ Len(ops) = 2
        /\ ops[1] = put(event_count_path, Empty) /\ ops[2] = put(event_count_path, 0)
    BY <2>2
  <2> HIDE DEF ops
  <2>4. ASSUME NEW k \in 0..Len(ops)
        PROVE  /\ LoginsHave(Tree(f, ops, k)) /\ Numbered(Tree(f, ops, k))
               /\ \A e \in EIDs \ lost : MayStop(f, ops, k, e)
    <3> DEFINE g == Tree(f, ops, k)
    <3>1. k \in Nat /\ (\A i \in 1..k : i = 1 \/ i = 2) /\ (k = 0 \/ k = 1 \/ k = 2)
      BY <2>3
    <3>2. \A i \in 1..k : ops[i].path = event_count_path /\ ops[i].content \in {Empty, 0}
      BY <2>3, <3>1, PutParts
    <3>3. LoginsHave(g)
      BY <3>1, <3>2, FirstParts, AccountsKept, SameLogins DEF Sound
    <3>4. \A e \in EIDs \ lost : Booked(g, e)
      BY <3>1, <3>2, PathsApart, BookedElsewhere DEF Sound
    <3>5. ASSUME NEW x \in DOMAIN g, NEW e \in EIDs, About(x, e)
          PROVE  x \in DOMAIN f /\ e <= LastEvent(f)
      <4>1. x # event_count_path
        BY <3>5, PathsApart
      <4>2. x \in DOMAIN f
        BY <3>1, <3>2, <4>1, TreeHolds
      <4>3. QED
        BY <3>5, <4>2 DEF Sound, Numbered
    <3>6. LastEvent(f) = 0
      BY <1>2, MarkersApart DEF LastEvent, Content
    <3>7. Numbered(g)
      BY <3>5, <3>6 DEF Numbered, EIDs
    <3>8. QED
      BY <3>3, <3>4, <3>7 DEF MayStop
  <2>5. Safe(f, ops, lost)
    BY <2>3, <2>4 DEF Safe
  <2>6. QED
    BY <2>1, <2>5
<1>3. QED
  BY <1>1, <1>2

-----------------------------------------------------------------------------
(***************************************************************************)
(* One file operation.                                                     *)
(***************************************************************************)
\* The first of the operations, as a whole.
LEMMA FirstDone ==
    ASSUME NEW f, NEW ops, NEW lost, WellFormed(f), Safe(f, ops, lost), ops # << >>
    PROVE  LET g == Apply(f, Head(ops))
           IN  /\ WellFormed(g) /\ Safe(g, Tail(ops), lost)
               /\ ApplyAll(g, Tail(ops)) = ApplyAll(f, ops)
<1> DEFINE g == Apply(f, Head(ops))
           rest == Tail(ops)
<1>1. ops \in Seq(Fitting)
  BY DEF Safe
<1>2. /\ rest \in Seq(Fitting) /\ Len(rest) = Len(ops) - 1 /\ Len(ops) \in Nat /\ Len(ops) >= 1
      /\ \A i \in 1..Len(rest) : rest[i] = ops[i + 1]
  BY <1>1
<1>3. \A k \in 0..Len(rest) : Tree(g, rest, k) = Tree(f, ops, k + 1)
  BY <1>1, <1>2, FirstThenRest
<1>4. g = Tree(f, ops, 1)
  <2>1. Tree(g, rest, 0) = g
    BY NothingDone, TreeIsFunction DEF Apply
  <2>2. Tree(g, rest, 0) = Tree(f, ops, 0 + 1)
    BY <1>2, <1>3
  <2>3. QED
    BY <2>1, <2>2
<1>5. WellFormed(g)
  BY <1>1, <1>2, <1>4, TreeWellFormed
<1> HIDE DEF g, rest
<1>6. ApplyAll(g, rest) = ApplyAll(f, ops)
  BY <1>2, <1>3 DEF ApplyAll
<1>7. ASSUME NEW k \in 0..Len(rest)
      PROVE  /\ LoginsHave(Tree(g, rest, k)) /\ Numbered(Tree(g, rest, k))
             /\ \A e \in EIDs \ lost : MayStop(g, rest, k, e)
  <2>1. k + 1 \in 0..Len(ops) /\ Tree(g, rest, k) = Tree(f, ops, k + 1)
    BY <1>2, <1>3
  <2>2. k + 1 < Len(ops) => k < Len(rest) /\ rest[k + 1] = ops[k + 1 + 1]
    BY <1>2
  <2>3. QED
    BY <2>1, <2>2 DEF Safe, MayStop
<1>8. Safe(g, rest, lost)
  BY <1>2, <1>7 DEF Safe
<1>9. QED
  BY <1>5, <1>6, <1>8 DEF g, rest

\* One file or directory of those remove_all has to remove.
LEMMA OneRemoved ==
    ASSUME NEW f, NEW ops, NEW lost, WellFormed(f), Safe(f, ops, lost), ops # << >>,
           NEW e \in EIDs, Head(ops) = remove(event_dir(e)),
           NEW x, InEventDir(x, e), x # event_dir(e), x \in Paths
    PROVE  LET g == Apply(f, remove(x))
           IN  /\ WellFormed(g) /\ Safe(g, ops, lost)
               /\ ApplyAll(g, ops) = ApplyAll(f, ops)
<1> DEFINE one == <<remove(x)>>
           g == Apply(f, remove(x))
<1>1. /\ ops \in Seq(Fitting) /\ Len(ops) \in Nat /\ Len(ops) >= 1
      /\ ops[1] = remove(event_dir(e))
  BY DEF Safe
<1>2. x[1] # "dir"
  <2>1. SUFFICES ASSUME x[1] = "dir"
                 PROVE  FALSE
    OBVIOUS
  <2>2. \E n \in EIDs : x = event_dir(n)
    BY <2>1, FirstParts DEF Paths
  <2>3. QED
    BY <2>2, OtherParts DEF InEventDir
<1>3. g = Tree(f, one, 1) /\ one[1] = remove(x) /\ one \in Seq(Fitting) /\ Len(one) = 1
  BY FittingRemove, OneApplied
<1> HIDE DEF one, g
<1>4. ASSUME NEW y
      PROVE  y # x => SameAt(f, g, y)
  <2>1. SUFFICES ASSUME y # x
                 PROVE  SameAt(f, g, y)
    OBVIOUS
  <2>2. \A i \in 1..1 : ~Concerns(one[i], y)
    BY <1>2, <1>3, <2>1, ConcernsRemove
  <2>3. QED
    BY <1>3, <2>2, Untouched
<1>5. \A y : SameAt(f, g, y) \/ Concerns(ops[1], y)
  BY <1>1, <1>4, ConcernsRemoveAll
<1>6. ASSUME NEW k \in 0..Len(ops), k # 0
      PROVE  Tree(g, ops, k) = Tree(f, ops, k)
  <2>1. k \in Nat /\ k >= 1
    BY <1>6
  <2>2. QED
    BY <1>5, <2>1, SameAfter
<1>7. WellFormed(g)
  BY <1>3, TreeWellFormed
<1>8. Tree(g, ops, 0) = g /\ Tree(f, ops, 0) = f
  BY <1>7, NothingDone DEF WellFormed
<1>9. LoginsHave(g) /\ Numbered(g)
  <2>1. LoginsHave(f) /\ Numbered(f)
    BY <1>1, <1>8 DEF Safe
  <2>2. x[1] \notin {"passwd", "logged_in", "count"}
    BY DEF InEventDir
  <2>3. SameAccounts(f, g)
    BY <1>4, <2>2, FirstParts DEF SameAccounts
  <2>4. LastEvent(f) = LastEvent(g)
    <3>1. event_count_path # x
      BY <2>2, FirstParts
    <3>2. SameAt(f, g, event_count_path)
      BY <1>4, <3>1
    <3>3. QED
      BY <3>2, SameContent DEF LastEvent
  <2>5. \A y \in DOMAIN g : y # x => y \in DOMAIN f
    BY <1>4 DEF SameAt
  <2>6. x \notin DOMAIN g
    <3>1. Concerns(one[1], x) /\ one[1].content = Gone /\ \A j \in 1..1 : ~(j > 1)
      BY <1>2, <1>3, ConcernsRemove, PutParts
    <3>2. 1 \in 1..1 /\ \A j \in 1..1 : j > 1 => ~Concerns(one[j], x)
      OBVIOUS
    <3>3. LeftAt(Tree(f, one, 1), x, one[1].content)
      BY <3>1, <3>2, LastLeft
    <3>4. QED
      BY <1>3, <3>1, <3>3 DEF LeftAt
  <2>7. QED
    BY <2>1, <2>3, <2>4, <2>5, <2>6, SameLogins DEF Numbered
<1>10. ASSUME NEW n \in EIDs \ lost
       PROVE  MayStop(g, ops, 0, n)
  <2>1. CASE n = e
    BY <1>1, <2>1 DEF MayStop, HalfDone
  <2>2. CASE n # e
    <3>1. \A y : InEventDir(y, n) => SameAt(f, g, y)
      BY <1>4, <2>2 DEF InEventDir
    <3>2. MayStop(f, ops, 0, n)
      BY <1>1 DEF Safe
    <3>3. ~HalfDone(f, n, ops[1])
      <4>1. ops[1].path = event_dir(e) /\ event_dir(e) # event_total_res_path(n)
        BY <1>1, PutParts, FirstParts
      <4>2. remove(event_dir(n)).path = event_dir(n)
        BY PutParts
      <4>3. event_dir(n)[2] = n /\ event_dir(e)[2] = e
        BY OtherParts
      <4>4. QED
        BY <2>2, <4>1, <4>2, <4>3 DEF HalfDone
    <3>4. Booked(f, n)
      BY <1>8, <3>2, <3>3 DEF MayStop
    <3>5. Booked(g, n)
      BY <3>1, <3>4, PathsBelow, SameBooked
    <3>6. QED
      BY <1>8, <3>5 DEF MayStop
  <2>3. QED
    BY <2>1, <2>2
<1>11. Safe(g, ops, lost)
  <2>1. ASSUME NEW k \in 0..Len(ops)
        PROVE  /\ LoginsHave(Tree(g, ops, k)) /\ Numbered(Tree(g, ops, k))
               /\ \A n \in EIDs \ lost : MayStop(g, ops, k, n)
    <3>1. CASE k = 0
      BY <1>8, <1>9, <1>10, <3>1
    <3>2. CASE k # 0
      BY <1>6, <3>2 DEF Safe, MayStop
    <3>3. QED
      BY <3>1, <3>2
  <2>2. QED
    BY <1>1, <2>1 DEF Safe
<1>12. ApplyAll(g, ops) = ApplyAll(f, ops)
  <2>1. Len(ops) \in 0..Len(ops) /\ Len(ops) # 0
    BY <1>1
  <2>2. QED
    BY <1>6, <2>1 DEF ApplyAll
<1>13. QED
  BY <1>7, <1>11, <1>12 DEF g

-----------------------------------------------------------------------------
(***************************************************************************)
(* The creates under way.                                                  *)
(***************************************************************************)
LEMMA UploadAdded ==
    ASSUME NEW ups, Uploading(ups), NEW c \in Connections, c \notin DOMAIN ups,
           NEW n \in EIDs, NEW s \in FileSizes, NEW k \in Nat,
           NEW f, Owned(f, ups), Described(f, n),
           \A d \in DOMAIN ups : ups[d].eid # n
    PROVE  LET more == Store!Put(ups, c, [eid |-> n, filesize |-> s, written |-> k])
           IN  Uploading(more) /\ Owned(f, more)
<1> DEFINE new == [eid |-> n, filesize |-> s, written |-> k]
           more == Store!Put(ups, c, new)
<1>1. new \in Store!Upload /\ new.eid = n
  BY DEF Store!Upload, Store!EIDs, EIDs
<1> HIDE DEF new
<1>2. /\ DOMAIN more = DOMAIN ups \cup {c} /\ more[c] = new
      /\ \A d \in DOMAIN ups : more[d] = ups[d]
      /\ more = [d \in DOMAIN more |-> more[d]]
  BY DEF Store!Put
<1> HIDE DEF more
<1>3. Uploading(more)
  <2>1. \A d \in DOMAIN more : more[d] \in Store!Upload
    BY <1>1, <1>2 DEF Uploading
  <2>2. QED
    BY <1>2, <2>1 DEF Uploading
<1>4. Owned(f, more)
  BY <1>1, <1>2 DEF Owned
<1>5. QED
  BY <1>3, <1>4 DEF more, new

LEMMA UploadRemoved ==
    ASSUME NEW ups, Uploading(ups), NEW c \in DOMAIN ups, NEW f,
           \A d, e \in DOMAIN ups : ups[d].eid = ups[e].eid => d = e,
           \A d \in DOMAIN ups : d # c => Described(f, ups[d].eid)
    PROVE  Uploading(Store!Without(ups, c)) /\ Owned(f, Store!Without(ups, c))
<1> DEFINE rest == Store!Without(ups, c)
<1>1. /\ DOMAIN rest = DOMAIN ups \ {c}
      /\ \A d \in DOMAIN rest : rest[d] = ups[d]
      /\ rest = [d \in DOMAIN rest |-> rest[d]]
  BY DEF Store!Without, Store!Restrict
<1> HIDE DEF rest
<1>2. Uploading(rest)
  <2>1. \A d \in DOMAIN rest : rest[d] \in Store!Upload
    BY <1>1 DEF Uploading
  <2>2. QED
    BY <1>1, <2>1 DEF Uploading
<1>3. Owned(f, rest)
  BY <1>1 DEF Owned
<1>4. QED
  BY <1>2, <1>3 DEF rest

LEMMA UploadContinued ==
    ASSUME NEW ups, Uploading(ups), NEW c \in DOMAIN ups, NEW k \in Nat, NEW f, Owned(f, ups)
    PROVE  LET more == [ups EXCEPT ![c].written = @ + k]
           IN  Uploading(more) /\ Owned(f, more)
<1> DEFINE new == [ups[c] EXCEPT !.written = @ + k]
           more == [ups EXCEPT ![c].written = @ + k]
<1>1. ups[c] \in Store!Upload
  BY DEF Uploading
<1>2. new \in Store!Upload /\ new.eid = ups[c].eid
  BY <1>1 DEF Store!Upload
<1>3. /\ DOMAIN more = DOMAIN ups /\ more[c] = new
      /\ \A d \in DOMAIN ups : d # c => more[d] = ups[d]
      /\ more = [d \in DOMAIN more |-> more[d]]
  BY DEF Uploading
<1> HIDE DEF more, new
<1>4. Uploading(more)
  <2>1. \A d \in DOMAIN more : more[d] \in Store!Upload
    BY <1>2, <1>3 DEF Uploading
  <2>2. QED
    BY <1>3, <2>1 DEF Uploading
<1>5. Owned(f, more)
  <2>1. \A d \in DOMAIN ups : more[d].eid = ups[d].eid
    BY <1>2, <1>3
  <2>2. QED
    BY <1>3, <2>1 DEF Owned
<1>6. QED
  BY <1>4, <1>5 DEF more

\* Operations that remove no event and no description.
LEMMA OwnedKept ==
    ASSUME NEW f, NEW ups, Owned(f, ups), NEW ops \in Seq(Fitting),
           \A i \in 1..Len(ops) : ops[i].content = Gone => ops[i].path[1] \notin {"dir", "description"}
    PROVE  Owned(ApplyAll(f, ops), ups)
<1>1. ASSUME NEW x, x \in DOMAIN f, x[1] \in {"dir", "description"}
      PROVE  x \in DOMAIN ApplyAll(f, ops)
  <2>1. Len(ops) \in Nat
    OBVIOUS
  <2>2. \A i \in 1..Len(ops) : Concerns(ops[i], x) => ops[i].content # Gone
    BY <1>1, PutParts DEF Concerns
  <2>3. x \in DOMAIN Tree(f, ops, Len(ops))
    BY <1>1, <2>1, <2>2, Stays
  <2>4. QED
    BY <2>3 DEF ApplyAll
<1>2. QED
  BY <1>1, FirstParts DEF Owned, Described

\* Operations about other events.
LEMMA OwnedElsewhere ==
    ASSUME NEW f, NEW ops \in Seq(Fitting), NEW e \in EIDs,
           Described(f, e), \A i \in 1..Len(ops) : ~About(ops[i].path, e)
    PROVE  Described(ApplyAll(f, ops), e)
<1>1. \A x : About(x, e) => SameAt(f, Tree(f, ops, Len(ops)), x)
  <2>1. Len(ops) \in Nat
    OBVIOUS
  <2>2. QED
    BY <2>1, Elsewhere
<1>2. About(event_description_path(e), e) /\ About(event_dir(e), e)
  BY PathsBelow, PathsApart
<1>3. QED
  BY <1>1, <1>2 DEF SameAt, ApplyAll, Described

-----------------------------------------------------------------------------
(***************************************************************************)
(* The invariant is inductive.                                             *)
(***************************************************************************)
LEMMA InitInv == Init => IInv
<1> SUFFICES ASSUME Init
             PROVE  IInv
  OBVIOUS
<1>1. files = << >> /\ todo = << >> /\ uploads = << >> /\ Sees(files) /\ torn = {}
  BY DEF Init
<1>2. WellFormed(files)
  BY <1>1 DEF WellFormed
<1>3. Sound(files, torn)
  BY <1>1, <1>2 DEF Sound, LoginsHave, Numbered, Booked, Whole
<1>4. Safe(files, todo, torn) /\ ApplyAll(files, todo) = files
  <2>1. Safe(files, << >>, torn) /\ Tree(files, << >>, Len(<< >>)) = files
    BY <1>2, <1>3, AtRest, NothingDone DEF WellFormed
  <2>2. QED
    BY <1>1, <2>1 DEF ApplyAll
<1>5. Uploading(uploads) /\ Owned(files, uploads)
  BY <1>1 DEF Uploading, Owned
<1>6. /\ up \in BOOLEAN /\ now \in Times /\ crashes \in 0..MaxCrashes
      /\ hurt \subseteq 0..MaxEvents /\ torn \subseteq EIDs
  <2>1. up = FALSE /\ now = 0 /\ crashes = 0 /\ hurt = {} /\ torn = {}
    BY DEF Init
  <2>2. 0 \in Times /\ 0 \in 0..MaxCrashes
    BY CrashAssumption, LimitAssumption DEF Times
  <2>3. QED
    BY <2>1, <2>2
<1>7. QED
  BY <1>1, <1>2, <1>4, <1>5, <1>6 DEF IInv

\* What a handler finds.
LEMMA Found ==
    ASSUME IInv, todo = << >>
    PROVE  /\ Sound(files, torn) /\ Sees(files) /\ ApplyAll(files, todo) = files
           /\ WellFormed(files) /\ Owned(files, uploads)
<1>1. WellFormed(files) /\ Safe(files, << >>, torn)
  BY DEF IInv
<1>2. ApplyAll(files, todo) = files
  <2>1. Tree(files, << >>, Len(<< >>)) = files
    BY <1>1, NothingDone DEF WellFormed
  <2>2. QED
    BY <2>1 DEF ApplyAll
<1>3. QED
  BY <1>1, <1>2, AtRest DEF IInv

LEMMA BeginInv ==
    ASSUME IInv, up, NEW ops, Begin(ops), Safe(files, ops, torn),
           Uploading(uploads'), Owned(ApplyAll(files, ops), uploads')
    PROVE  IInv'
<1>1. /\ files' = files /\ todo' = ops /\ up' = up /\ now' = now /\ hurt' = hurt
      /\ torn' = torn /\ crashes' = crashes /\ SeesNext(ApplyAll(files, ops))
  BY DEF Begin
<1>2. WellFormed(files)' /\ Safe(files, todo, torn)'
  BY <1>1 DEF IInv
<1>3. Sees(ApplyAll(files, todo))'
  BY <1>1 DEF Sees, SeesNext
<1>4. Uploading(uploads)' /\ Owned(ApplyAll(files, todo), uploads)'
  BY <1>1
<1>5. QED
  BY <1>1, <1>2, <1>3, <1>4 DEF IInv

\* A handler that removes no event and takes on no create.
LEMMA PlainBeginInv ==
    ASSUME IInv, Idle, NEW ops, Begin(ops), Safe(files, ops, torn), UNCHANGED uploads,
           \A i \in 1..Len(ops) : ops[i].content = Gone => ops[i].path[1] \notin {"dir", "description"}
    PROVE  IInv'
<1>1. Owned(files, uploads) /\ Uploading(uploads) /\ ops \in Seq(Fitting)
  BY Found DEF Idle, IInv, Safe
<1>2. Owned(ApplyAll(files, ops), uploads)
  BY <1>1, OwnedKept
<1>3. QED
  BY <1>1, <1>2, BeginInv DEF Idle

LEMMA AccountInv ==
    ASSUME IInv, Idle, NEW u \in UIDs, NEW p \in Passwords,
           \/ Login(u, p) \/ Logout(u, p) \/ Unregister(u, p)
           \/ \E new \in Passwords : ChangePass(u, p, new)
    PROVE  IInv'
<1>1. Sound(files, torn) /\ passwd = Accounts(files)
  BY Found DEF Idle, Sees
<1>2. u \in DOMAIN passwd <=> password_path(u) \in DOMAIN files
  BY <1>1 DEF Accounts
<1>3. ASSUME NEW ops \in Seq(Fitting), Safe(files, ops, torn), Begin(ops), UNCHANGED uploads,
             \A i \in 1..Len(ops) : ops[i].path \in {password_path(u), logged_in_path(u)}
      PROVE  IInv'
  <2>1. \A i \in 1..Len(ops) : ops[i].path[1] \notin {"dir", "description"}
    BY <1>3, FirstParts
  <2>2. QED
    BY <1>3, <2>1, PlainBeginInv
<1>4. CASE Login(u, p)
  <2>1. CASE ~Store!does_user_exist(u) /\ Begin(create_user(u, p))
    <3> DEFINE ops == create_user(u, p)
    <3>1. Safe(files, ops, torn)
      BY <1>1, <1>2, <2>1, RegistrationSafe DEF Store!does_user_exist
    <3>2. Begin(ops) /\ UNCHANGED uploads
      BY <1>4, <2>1 DEF Login
    <3>3. \A i \in 1..Len(ops) : ops[i].path \in {password_path(u), logged_in_path(u)}
      <4>1. \A i \in 1..3 : i = 1 \/ i = 2 \/ i = 3
        OBVIOUS
      <4>2. QED
        BY <4>1, PutParts DEF create_user
    <3> HIDE DEF ops
    <3>4. ops \in Seq(Fitting)
      BY <3>1 DEF Safe
    <3>5. QED
      BY <1>3, <3>1, <3>2, <3>3, <3>4
  <2>2. CASE Store!check_password(u, p) /\ Begin(<<put(logged_in_path(u), Empty)>>)
    <3> DEFINE ops == <<put(logged_in_path(u), Empty)>>
    <3>1. Safe(files, ops, torn)
      BY <1>1, <1>2, <2>2, LoginSafe DEF Store!check_password
    <3>2. Begin(ops) /\ UNCHANGED uploads
      BY <1>4, <2>2 DEF Login
    <3>3. \A i \in 1..Len(ops) : ops[i].path \in {password_path(u), logged_in_path(u)}
      BY PutParts
    <3> HIDE DEF ops
    <3>4. ops \in Seq(Fitting)
      BY <3>1 DEF Safe
    <3>5. QED
      BY <1>3, <3>1, <3>2, <3>3, <3>4
  <2>3. QED
    BY <1>4, <2>1, <2>2 DEF Login
<1>5. CASE Logout(u, p)
  <2> DEFINE ops == <<remove(logged_in_path(u))>>
  <2>1. Safe(files, ops, torn)
    BY <1>1, LogoutSafe
  <2>2. Begin(ops) /\ UNCHANGED uploads
    BY <1>5 DEF Logout
  <2>3. \A i \in 1..Len(ops) : ops[i].path \in {password_path(u), logged_in_path(u)}
    BY PutParts
  <2> HIDE DEF ops
  <2>4. ops \in Seq(Fitting)
    BY <2>1 DEF Safe
  <2>5. QED
    BY <1>3, <2>1, <2>2, <2>3, <2>4
<1>6. CASE Unregister(u, p)
  <2> DEFINE ops == unregister(u)
  <2>1. Safe(files, ops, torn)
    BY <1>1, LogoutSafe
  <2>2. Begin(ops) /\ UNCHANGED uploads
    BY <1>6 DEF Unregister
  <2>3. \A i \in 1..Len(ops) : ops[i].path \in {password_path(u), logged_in_path(u)}
    <3>1. \A i \in 1..2 : i = 1 \/ i = 2
      OBVIOUS
    <3>2. QED
      BY <3>1, PutParts DEF unregister
  <2> HIDE DEF ops
  <2>4. ops \in Seq(Fitting)
    BY <2>1 DEF Safe
  <2>5. QED
    BY <1>3, <2>1, <2>2, <2>3, <2>4
<1>7. CASE \E new \in Passwords : ChangePass(u, p, new)
  <2>1. PICK new \in Passwords : ChangePass(u, p, new)
    BY <1>7
  <2> DEFINE ops == <<put(password_path(u), Empty), put(password_path(u), new)>>
  <2>2. Safe(files, ops, torn)
    BY <1>1, <1>2, <2>1, LoginSafe DEF ChangePass, Store!changePass, Store!does_user_exist
  <2>3. Begin(ops) /\ UNCHANGED uploads
    BY <2>1 DEF ChangePass
  <2>4. \A i \in 1..Len(ops) : ops[i].path \in {password_path(u), logged_in_path(u)}
    <3>1. \A i \in 1..2 : i = 1 \/ i = 2
      OBVIOUS
    <3>2. QED
      BY <3>1, PutParts
  <2> HIDE DEF ops
  <2>5. ops \in Seq(Fitting)
    BY <2>2 DEF Safe
  <2>6. QED
    BY <1>3, <2>2, <2>3, <2>4, <2>5
<1>8. QED
  BY <1>4, <1>5, <1>6, <1>7

\* The number a create takes: no file is about it, and no create under way.
LEMMA CreateGuard ==
    ASSUME IInv, Idle, NEW u, NEW p, Store!start_create_event(u, p) = "OK"
    PROVE  /\ lastEvent = LastEvent(files) /\ lastEvent + 1 \in EIDs
           /\ \A x \in DOMAIN files : ~About(x, lastEvent + 1)
           /\ \A c \in DOMAIN uploads : uploads[c].eid # lastEvent + 1 /\ uploads[c].eid \in EIDs
<1>1. lastEvent = LastEvent(files) /\ lastEvent \in 0..MaxEvents /\ Numbered(files) /\ MaxEvents \in Nat
  BY Found, LastEventType, LimitAssumption DEF Idle, Sees, Sound
<1>2. lastEvent # MaxEvents
  BY DEF Store!start_create_event
<1>3. lastEvent + 1 \in EIDs /\ lastEvent + 1 > lastEvent
  BY <1>1, <1>2 DEF EIDs
<1>4. \A x \in DOMAIN files : ~About(x, lastEvent + 1)
  BY <1>1, <1>3 DEF Numbered
<1>5. ASSUME NEW c \in DOMAIN uploads
      PROVE  uploads[c].eid # lastEvent + 1 /\ uploads[c].eid \in EIDs
  <2>1. uploads[c].eid \in EIDs
    BY DEF IInv, Uploading, Store!Upload, Store!EIDs, EIDs
  <2>2. event_description_path(uploads[c].eid) \in DOMAIN files
    BY Found DEF Idle, Owned, Described
  <2>3. About(event_description_path(uploads[c].eid), uploads[c].eid)
    BY <2>1, PathsBelow, PathsApart
  <2>4. QED
    BY <1>4, <2>1, <2>2, <2>3
<1>6. QED
  BY <1>1, <1>3, <1>4, <1>5

\* The operations of a create leave the descriptions of the others.
LEMMA CreateOwned ==
    ASSUME IInv, Idle, NEW n \in EIDs, \A c \in DOMAIN uploads : uploads[c].eid # n,
           \A c \in DOMAIN uploads : uploads[c].eid \in EIDs,
           NEW u, NEW d, NEW a, NEW s, NEW ops, Creates(ops, n, u, d, a, s),
           [creator |-> u, date |-> d, attendance |-> a, filesize |-> s] \in Details
    PROVE  Owned(ApplyAll(files, ops), uploads)
<1>1. Owned(files, uploads) /\ ops \in Seq(Fitting)
  BY Found DEF Idle, Creates
<1>2. ASSUME NEW c \in DOMAIN uploads
      PROVE  Described(ApplyAll(files, ops), uploads[c].eid)
  <2> DEFINE e == uploads[c].eid
  <2>1. e \in EIDs /\ e # n /\ Described(files, e)
    BY <1>1, <1>2 DEF Owned
  <2> HIDE DEF e
  <2>2. ASSUME NEW i \in 1..Len(ops)
        PROVE  ~About(ops[i].path, e)
    <3>1. ops[i].path = event_count_path \/ About(ops[i].path, n)
      <4>1. i <= 2 \/ i > 2
        OBVIOUS
      <4>2. QED
        BY <4>1, CreatePaths
    <3>2. QED
      BY <2>1, <3>1, PathsApart
  <2>3. Described(ApplyAll(files, ops), e)
    BY <1>1, <2>1, <2>2, OwnedElsewhere
  <2>4. QED
    BY <2>3 DEF e
<1>3. QED
  BY <1>1, <1>2 DEF Owned

LEMMA DescriptionPut ==
    ASSUME NEW n \in EIDs, NEW b \in Nat
    PROVE  /\ b \in Data /\ b # Gone /\ Holds(event_description_path(n), b)
           /\ put(event_description_path(n), b) \in Fitting
<1>1. b \in Int
  OBVIOUS
<1>2. b \in Data
  BY <1>1, Zenon DEF Data
<1>3. b # Gone /\ Holds(event_description_path(n), b)
  BY <1>1, MarkersApart, KindsOfContent, Zenon
<1>4. event_description_path(n) \in Paths
  BY PathsOfEvents
<1>5. QED
  BY <1>2, <1>3, <1>4, FittingPut, Zenon

\* Only the last operation of a create removes anything.
LEMMA LastRemoves ==
    ASSUME NEW n \in EIDs, NEW u, NEW d, NEW a, NEW s, NEW ops, Creates(ops, n, u, d, a, s),
           [creator |-> u, date |-> d, attendance |-> a, filesize |-> s] \in Details
    PROVE  \A i \in 1..Len(ops) : ops[i].content = Gone => i = Len(ops)
<1>1. ASSUME NEW i \in 1..Len(ops)
      PROVE  ops[i].content = Gone => ops[i] = remove(event_dir(n)) /\ i = Len(ops) /\ i > 9
  BY CreatePaths
<1>2. QED
  BY <1>1

\* A create that stays under way has its event and its description.
LEMMA CreateDescribed ==
    ASSUME NEW f, NEW n \in EIDs, NEW u, NEW d, NEW a, NEW s, NEW ops, Creates(ops, n, u, d, a, s),
           [creator |-> u, date |-> d, attendance |-> a, filesize |-> s] \in Details,
           Len(ops) = 10, NEW b \in Nat, ops[10] = put(event_description_path(n), b)
    PROVE  Described(ApplyAll(f, ops), n)
<1>1. \A i \in 1..10 : ops[i].content = Gone => i = 10
  BY LastRemoves
<1> DEFINE x == event_description_path(n)
           y == event_dir(n)
<1>2. ops[3] = put(y, Empty) /\ ops[10] = put(x, b) /\ b # Gone
  BY DescriptionPut DEF Creates
<1>3. /\ Concerns(ops[10], x) /\ Concerns(ops[3], y) /\ 3 \in 1..10 /\ 10 \in 1..10 /\ 10 \in Nat
      /\ \A i \in 1..10 : ops[i].content # Gone
  BY <1>1, <1>2, PutParts DEF Concerns
<1> HIDE DEF x, y
<1>4. x \in DOMAIN Tree(f, ops, 10) /\ y \in DOMAIN Tree(f, ops, 10)
  BY <1>3, Stays
<1>5. QED
  BY <1>4 DEF ApplyAll, Described, x, y

LEMMA CreateInv ==
    ASSUME IInv, Idle, NEW c \in Connections, NEW u \in UIDs, NEW p \in Passwords,
           NEW d \in Times, NEW a \in Attendances, NEW s \in FileSizes,
           \/ \E k \in 0..MaxRead, newline \in BOOLEAN : CreateHeader(c, u, p, d, a, s, k, newline)
           \/ CreateCannotOpen(c, u, p, d, a, s)
    PROVE  IInv'
<1> DEFINE n == lastEvent + 1
           started == start_create_event(n, u, d, a, s)
<1>1. /\ c \notin DOMAIN uploads
      /\ Store!start_create_event(u, p) = "OK"
  BY DEF CreateHeader, CreateCannotOpen
<1>2. /\ n \in EIDs /\ n = LastEvent(files) + 1
      /\ \A e \in DOMAIN uploads : uploads[e].eid # n /\ uploads[e].eid \in EIDs
  BY <1>1, CreateGuard
<1> HIDE DEF n
<1>3. Sound(files, torn) /\ Uploading(uploads) /\ up
  BY Found DEF Idle, IInv
<1>4. [creator |-> u, date |-> d, attendance |-> a, filesize |-> s] \in Details
  BY DEF Details
<1>5. ASSUME NEW ops, Creates(ops, n, u, d, a, s)
      PROVE  Safe(files, ops, torn) /\ Owned(ApplyAll(files, ops), uploads)
  <2>1. Safe(files, ops, torn)
    BY <1>2, <1>3, <1>5, CreateSafe
  <2>2. Owned(ApplyAll(files, ops), uploads)
    BY <1>2, <1>4, <1>5, CreateOwned
  <2>3. QED
    BY <2>1, <2>2
<1>6. ASSUME NEW ops, Creates(ops, n, u, d, a, s), Begin(ops), UNCHANGED uploads
      PROVE  IInv'
  <2>1. Uploading(uploads') /\ Owned(ApplyAll(files, ops), uploads')
    BY <1>3, <1>5, <1>6
  <2>2. QED
    BY <1>3, <1>5, <1>6, <2>1, BeginInv
<1>7. CASE CreateCannotOpen(c, u, p, d, a, s)
  <2>1. Begin(started) /\ UNCHANGED uploads
    BY <1>7 DEF CreateCannotOpen, n
  <2>2. Creates(started, n, u, d, a, s)
    BY <1>2, StartCreates
  <2> HIDE DEF started
  <2>3. QED
    BY <1>6, <2>1, <2>2
<1>8. ASSUME NEW k \in 0..MaxRead, NEW newline \in BOOLEAN,
             CreateHeader(c, u, p, d, a, s, k, newline)
      PROVE  IInv'
  <2>1. k \in Nat /\ s \in Nat /\ 0 \in Nat
    <3>1. MaxRead \in Nat /\ s \in parse_filesize /\ MAX_FILESIZE \in Nat
      BY LimitAssumption, RequestAssumption DEF MAX_FILESIZE
    <3>2. QED
      BY <3>1 DEF parse_filesize
  <2>2. \A b \in Nat : put(event_description_path(n), b) \in Fitting
    BY <1>2, DescriptionPut
  <2>3. remove(event_dir(n)) \in Fitting
    BY <1>2, PathsOfEvents, FittingRemove
  <2>4. CASE /\ \E b \in 0..k : Begin(started \o <<put(event_description_path(n), b)>>)
             /\ uploads' = Store!Put(uploads, c, [eid |-> n, filesize |-> s, written |-> k])
    <3>1. PICK b \in 0..k : Begin(started \o <<put(event_description_path(n), b)>>)
      BY <2>4
    <3> DEFINE tail == <<put(event_description_path(n), b)>>
               ops == started \o tail
    <3>2. b \in Nat
      BY <2>1
    <3>3. /\ tail \in Seq(Fitting) /\ Len(tail) = 1 /\ tail[1] = put(event_description_path(n), b)
          /\ \A i \in 1..Len(tail) : tail[i] = put(event_description_path(n), b)
      BY <2>2, <3>2
    <3> HIDE DEF tail
    <3>4. Creates(ops, n, u, d, a, s) /\ Len(ops) = 9 + Len(tail) /\ \A i \in 1..Len(tail) : ops[9 + i] = tail[i]
      BY <1>2, <3>2, <3>3, CreateOperations
    <3>5. Begin(ops)
      BY <3>1 DEF tail
    <3> HIDE DEF ops
    <3>6. Len(ops) = 10 /\ ops[10] = put(event_description_path(n), b)
      <4>1. 1 \in 1..Len(tail) /\ 9 + 1 = 10
        BY <3>3
      <4>2. QED
        BY <3>3, <3>4, <4>1
    <3>7. Described(ApplyAll(files, ops), n)
      BY <1>2, <1>4, <3>2, <3>4, <3>6, CreateDescribed
    <3>8. Safe(files, ops, torn) /\ Owned(ApplyAll(files, ops), uploads)
      BY <1>5, <3>4
    <3>9. Uploading(uploads') /\ Owned(ApplyAll(files, ops), uploads')
      BY <1>1, <1>2, <1>3, <2>1, <2>4, <3>7, <3>8, UploadAdded
    <3>10. QED
      BY <1>3, <3>5, <3>8, <3>9, BeginInv
  <2>5. CASE /\ Begin(started \o <<put(event_description_path(n), 0), put(event_description_path(n), s)>>)
             /\ UNCHANGED uploads
    <3> DEFINE tail == <<put(event_description_path(n), 0), put(event_description_path(n), s)>>
               ops == started \o tail
    <3>1. tail \in Seq(Fitting) /\ \A i \in 1..Len(tail) : \E b \in Nat : tail[i] = put(event_description_path(n), b)
      <4>1. \A i \in 1..2 : i = 1 \/ i = 2
        OBVIOUS
      <4>2. QED
        BY <2>1, <2>2, <4>1
    <3>2. Begin(ops)
      BY <2>5
    <3> HIDE DEF tail
    <3>3. Creates(ops, n, u, d, a, s)
      BY <1>2, <3>1, CreateOperations
    <3> HIDE DEF ops
    <3>4. QED
      BY <1>6, <2>5, <3>2, <3>3
  <2>6. CASE /\ Begin(started \o <<put(event_description_path(n), 0), remove(event_dir(n))>>)
             /\ UNCHANGED uploads
    <3> DEFINE tail == <<put(event_description_path(n), 0), remove(event_dir(n))>>
               ops == started \o tail
    <3>1. /\ tail \in Seq(Fitting)
          /\ \A i \in 1..Len(tail) :
                \/ \E b \in Nat : tail[i] = put(event_description_path(n), b)
                \/ tail[i] = remove(event_dir(n)) /\ i = Len(tail)
      <4>1. \A i \in 1..2 : i = 1 \/ i = 2
        OBVIOUS
      <4>2. QED
        BY <2>1, <2>2, <2>3, <4>1
    <3>2. Begin(ops)
      BY <2>6
    <3> HIDE DEF tail
    <3>3. Creates(ops, n, u, d, a, s)
      BY <1>2, <3>1, CreateOperations
    <3> HIDE DEF ops
    <3>4. QED
      BY <1>6, <2>6, <3>2, <3>3
  <2>7. QED
    BY <1>8, <2>4, <2>5, <2>6 DEF CreateHeader, n
<1>9. QED
  BY <1>7, <1>8

\* The server ends without a handler to interrupt.
LEMMA CreateThrowsInv ==
    ASSUME IInv, Idle, NEW u, NEW p, CreateThrows(u, p)
    PROVE  IInv'
<1>1. /\ up' = FALSE /\ uploads' = << >> /\ files' = files /\ todo' = todo /\ hurt' = hurt
      /\ torn' = torn /\ crashes' = crashes /\ now' = now /\ todo = << >>
      /\ passwd' = passwd /\ loggedIn' = loggedIn /\ userEvents' = userEvents
      /\ userRes' = userRes /\ lastEvent' = lastEvent /\ event' = event
  BY DEF CreateThrows, view, Idle
<1>2. Uploading(uploads)' /\ Owned(ApplyAll(files, todo), uploads)'
  BY <1>1 DEF Uploading, Owned
<1>3. Sees(ApplyAll(files, todo))'
  BY <1>1 DEF IInv, Sees
<1>4. QED
  BY <1>1, <1>2, <1>3 DEF IInv

\* One read of a description, and a client that goes away.
LEMMA UploadInv ==
    ASSUME IInv, Idle, NEW c \in Connections,
           \/ \E k \in 1..MaxRead, newline \in BOOLEAN : UploadData(c, k, newline)
           \/ Disconnect(c)
    PROVE  IInv'
<1>1. Sound(files, torn) /\ Owned(files, uploads) /\ Uploading(uploads) /\ up
  BY Found DEF Idle, IInv
<1>2. c \in DOMAIN uploads
  BY DEF UploadData, Disconnect
<1> DEFINE n == uploads[c].eid
           x == event_description_path(n)
<1>3. /\ n \in EIDs /\ uploads[c].filesize \in FileSizes /\ uploads[c].written \in Nat
      /\ x \in DOMAIN files /\ \A d \in DOMAIN uploads : d # c => uploads[d].eid # n
      /\ \A d \in DOMAIN uploads : uploads[d].eid \in EIDs
  BY <1>1, <1>2 DEF Owned, Described, Uploading, Store!Upload, Store!EIDs, EIDs
<1>4. uploads[c].filesize \in Nat /\ MaxRead \in Nat
  <2>1. MaxRead \in Nat /\ uploads[c].filesize \in parse_filesize /\ MAX_FILESIZE \in Nat
    BY <1>3, LimitAssumption, RequestAssumption DEF MAX_FILESIZE
  <2>2. QED
    BY <2>1 DEF parse_filesize
<1> HIDE DEF n
<1>5. x \in {event_end_path(n), event_description_path(n)} /\ x[1] = "description"
      /\ x \in Paths /\ files[x] \in Nat /\ n <= LastEvent(files)
  <2>1. About(x, n) /\ x \in Paths
    BY <1>3, PathsBelow, PathsApart, PathsOfEvents
  <2>2. Holds(x, files[x]) /\ Numbered(files)
    BY <1>1, <1>3 DEF Sound, WellFormed
  <2>3. QED
    BY <1>3, <2>1, <2>2, FirstParts, KindsOfContent DEF Numbered
<1> HIDE DEF x
\* The description grows.
<1>6. ASSUME NEW b \in Nat, Begin(<<put(x, b)>>)
      PROVE  /\ \E ops : Begin(ops) /\ Safe(files, ops, torn) /\ Owned(ApplyAll(files, ops), uploads)
             /\ (Uploading(uploads') /\ \A f : Owned(f, uploads) => Owned(f, uploads')) => IInv'
  <2> DEFINE ops == <<put(x, b)>>
  <2>1. b \in Data /\ b # Gone /\ Holds(x, b)
    BY <1>3, DescriptionPut DEF x
  <2>2. Safe(files, ops, torn)
    BY <1>1, <1>3, <1>5, <2>1, OneFileSafe
  <2>3. \A i \in 1..Len(ops) : ops[i].content # Gone
    BY <2>1, PutParts
  <2>4. Begin(ops)
    BY <1>6
  <2> HIDE DEF ops
  <2>5. Owned(ApplyAll(files, ops), uploads)
    BY <1>1, <2>2, <2>3, OwnedKept DEF Safe
  <2>6. QED
    BY <1>1, <2>2, <2>4, <2>5, BeginInv
<1>7. ASSUME NEW f, Owned(f, uploads)
      PROVE  Uploading(Store!Without(uploads, c)) /\ Owned(f, Store!Without(uploads, c))
  <2>1. \A d, e \in DOMAIN uploads : uploads[d].eid = uploads[e].eid => d = e
    BY <1>7 DEF Owned
  <2>2. \A d \in DOMAIN uploads : d # c => Described(f, uploads[d].eid)
    BY <1>7 DEF Owned
  <2>3. QED
    BY <1>1, <1>2, <2>1, <2>2, UploadRemoved
<1>8. CASE Disconnect(c)
  <2>1. Begin(<<put(x, uploads[c].written)>>) /\ uploads' = Store!Without(uploads, c)
    BY <1>8 DEF Disconnect, x, n
  <2>2. Uploading(uploads') /\ \A f : Owned(f, uploads) => Owned(f, uploads')
    BY <1>1, <1>7, <2>1
  <2>3. QED
    BY <1>3, <1>6, <2>1, <2>2
<1>9. ASSUME NEW k \in 1..MaxRead, NEW newline \in BOOLEAN, UploadData(c, k, newline)
      PROVE  IInv'
  <2>1. CASE /\ \E b \in files[x] .. uploads[c].written + k : Begin(<<put(x, b)>>)
             /\ uploads' = [uploads EXCEPT ![c].written = @ + k]
    <3>1. PICK b \in files[x] .. uploads[c].written + k : Begin(<<put(x, b)>>)
      BY <2>1
    <3>2. b \in Nat /\ k \in Nat
      BY <1>3, <1>4, <1>5
    <3>3. ASSUME NEW f, Owned(f, uploads)
          PROVE  Uploading(uploads') /\ Owned(f, uploads')
      BY <1>1, <1>2, <2>1, <3>2, <3>3, UploadContinued
    <3>4. Uploading(uploads') /\ \A f : Owned(f, uploads) => Owned(f, uploads')
      BY <1>1, <3>3
    <3>5. QED
      BY <1>6, <3>1, <3>2, <3>4
  <2>2. CASE Begin(<<put(x, uploads[c].filesize)>>) /\ uploads' = Store!Without(uploads, c)
    <3>1. Uploading(uploads') /\ \A f : Owned(f, uploads) => Owned(f, uploads')
      BY <1>1, <1>7, <2>2
    <3>2. QED
      BY <1>4, <1>6, <2>2, <3>1
  <2>3. CASE Begin(<<remove(event_dir(n))>>) /\ uploads' = Store!Without(uploads, c)
    <3> DEFINE ops == <<remove(event_dir(n))>>
    <3>1. Safe(files, ops, torn)
      BY <1>1, <1>3, <1>5, DestroySafe
    <3>2. Begin(ops) /\ ops \in Seq(Fitting)
      BY <2>3, <3>1 DEF Safe
    <3>3. \A i \in 1..Len(ops) : About(ops[i].path, n)
      BY <1>3, PutParts, PathsBelow, PathsApart
    <3> HIDE DEF ops
    <3>4. ASSUME NEW d \in DOMAIN uploads, d # c
          PROVE  Described(ApplyAll(files, ops), uploads[d].eid)
      <4> DEFINE e == uploads[d].eid
      <4>1. e \in EIDs /\ e # n /\ Described(files, e)
        BY <1>1, <1>3, <3>4 DEF Owned
      <4> HIDE DEF e
      <4>2. \A i \in 1..Len(ops) : ~About(ops[i].path, e)
        BY <3>3, <4>1, PathsApart
      <4>3. Described(ApplyAll(files, ops), e)
        BY <3>2, <4>1, <4>2, OwnedElsewhere
      <4>4. QED
        BY <4>3 DEF e
    <3>5. \A d, e \in DOMAIN uploads : uploads[d].eid = uploads[e].eid => d = e
      BY <1>1 DEF Owned
    <3>6. Uploading(uploads') /\ Owned(ApplyAll(files, ops), uploads')
      BY <1>1, <1>2, <2>3, <3>4, <3>5, UploadRemoved
    <3>7. QED
      BY <1>1, <3>1, <3>2, <3>6, BeginInv
  <2>4. QED
    BY <1>9, <2>1, <2>2, <2>3 DEF UploadData, x, n
<1>10. QED
  BY <1>8, <1>9

LEMMA CloseInv ==
    ASSUME IInv, Idle, NEW u, NEW p, NEW e \in EIDs, Close(u, p, e)
    PROVE  IInv'
<1>1. Sound(files, torn) /\ event = Events(files)
  BY Found DEF Idle, Sees
<1>2. e <= LastEvent(files)
  <2>1. event_dir(e) \in DOMAIN files
    BY <1>1 DEF Close, Store!close_event, Store!does_event_exist, Events
  <2>2. About(event_dir(e), e)
    BY PathsBelow, PathsApart
  <2>3. QED
    BY <1>1, <2>1, <2>2 DEF Sound, Numbered
<1> DEFINE ops == <<put(event_end_path(e), Empty)>>
<1>3. Empty \in Data /\ Empty # Gone /\ Holds(event_end_path(e), Empty)
  BY MarkersApart, KindsOfContent DEF Data
<1>4. Safe(files, ops, torn)
  BY <1>1, <1>2, <1>3, OneFileSafe
<1>5. \A i \in 1..Len(ops) : ops[i].content # Gone
  BY <1>3, PutParts
<1>6. Begin(ops) /\ UNCHANGED uploads
  BY DEF Close
<1> HIDE DEF ops
<1>7. QED
  BY <1>4, <1>5, <1>6, PlainBeginInv

LEMMA ReservePaths ==
    ASSUME WellFormed(files), now \in Times, NEW u \in UIDs, NEW e \in EIDs, NEW n \in Nat,
           event[e].sold \in Int, NEW i \in 1..Len(reserve(u, e, n))
    PROVE  reserve(u, e, n)[i].path
              \in {event_total_res_path(e), user_res_path(u, now, e), event_res_path(e, now, u)}
<1> DEFINE ops == reserve(u, e, n)
           mine == user_res_path(u, now, e)
           its == event_res_path(e, now, u)
           held == Content(files, mine, << >>)
           old == Content(files, its, << >>)
           P == {event_total_res_path(e), mine, its}
<1>1. /\ ops[1] = put(event_total_res_path(e), Empty)
      /\ ops[2] = put(event_total_res_path(e), event[e].sold + n)
      /\ ops[3] = put(mine, held)
      /\ ops[Len(ops)] = put(mine, Append(held, n))
      /\ IF event_reservations_dir(e) \in DOMAIN files
         THEN Len(ops) = 6 /\ ops[4] = put(its, old) /\ ops[5] = put(its, Append(old, n))
         ELSE Len(ops) = 4
  BY ReserveOperations
<1>2. i \in 1..Len(ops)
  OBVIOUS
<1> HIDE DEF ops, mine, its, held, old
<1>3. Len(ops) = 4 \/ (Len(ops) = 6 /\ event_reservations_dir(e) \in DOMAIN files)
  BY <1>1
<1>4. i = 1 \/ i = 2 \/ i = 3 \/ i = Len(ops) \/ (Len(ops) = 6 /\ (i = 4 \/ i = 5))
  <2>1. /\ \A j \in 1..4 : j = 1 \/ j = 2 \/ j = 3 \/ j = 4
        /\ \A j \in 1..6 : j = 1 \/ j = 2 \/ j = 3 \/ j = 6 \/ j = 4 \/ j = 5
    OBVIOUS
  <2>2. CASE Len(ops) = 4
    BY <1>2, <2>1, <2>2, Zenon
  <2>3. CASE Len(ops) = 6
    BY <1>2, <2>1, <2>3, Zenon
  <2>4. QED
    BY <1>3, <2>2, <2>3
<1>5. ASSUME i = 1 \/ i = 2 \/ i = 3 \/ i = Len(ops)
      PROVE  \E x \in P : \E c : ops[i] = put(x, c)
  BY <1>1, <1>5
<1>6. ASSUME Len(ops) = 6, i = 4 \/ i = 5
      PROVE  \E x \in P : \E c : ops[i] = put(x, c)
  <2>1. event_reservations_dir(e) \in DOMAIN files
    BY <1>3, <1>6
  <2>2. QED
    BY <1>1, <1>6, <2>1
<1>7. ops[i].path \in P
  BY <1>4, <1>5, <1>6, PutParts
<1>8. QED
  BY <1>7 DEF ops, mine, its

LEMMA ReserveInv ==
    ASSUME IInv, Idle, NEW u \in UIDs, NEW p, NEW e \in EIDs, NEW n \in Seats, Reserve(u, p, e, n)
    PROVE  IInv'
<1>1. Sound(files, torn) /\ event = Events(files) /\ now \in Times /\ WellFormed(files)
  BY Found DEF Idle, Sees, IInv
<1>2. Store!reserve(u, p, e, n) = "ACC" /\ Begin(reserve(u, e, n)) /\ UNCHANGED uploads
  BY DEF Reserve
<1>3. n \in Nat /\ event[e].sold \in Int
  BY <1>1, <1>2, ReserveGuard
<1> DEFINE ops == reserve(u, e, n)
<1>4. Safe(files, ops, torn)
  BY <1>1, <1>2, ReserveSafe
<1>5. Begin(ops)
  BY <1>2
<1>6. \A i \in 1..Len(ops) : ops[i].path[1] \notin {"dir", "description"}
  <2>1. \A i \in 1..Len(ops) :
           ops[i].path \in {event_total_res_path(e), user_res_path(u, now, e), event_res_path(e, now, u)}
    BY <1>1, <1>3, ReservePaths
  <2>2. QED
    BY <2>1, FirstParts
<1> HIDE DEF ops
<1>7. QED
  BY <1>2, <1>4, <1>5, <1>6, PlainBeginInv

LEMMA DirPaths ==
    ASSUME NEW x \in Paths, x[1] = "dir"
    PROVE  \E e \in EIDs : x = event_dir(e)
<1>1. CASE x \in UNION {{event_dir(e), event_reservations_dir(e), event_total_res_path(e),
                         event_details_path(e), event_end_path(e), event_description_path(e)} : e \in EIDs}
  BY <1>1, FirstParts
<1>2. CASE x \in {event_count_path} \cup {password_path(u) : u \in UIDs} \cup {logged_in_path(u) : u \in UIDs}
  BY <1>2, FirstParts
<1>3. CASE x \in {user_event_path(u, e) : u \in UIDs, e \in EIDs}
               \cup {user_res_path(u, t, e) : u \in UIDs, t \in Times, e \in EIDs}
               \cup {event_res_path(e, t, u) : e \in EIDs, t \in Times, u \in UIDs}
  BY <1>3, FirstParts
<1>4. QED
  BY <1>1, <1>2, <1>3 DEF Paths

\* What Write does to the tree and to what is left to do.
LEMMA WriteStep ==
    ASSUME WellFormed(files), todo \in Seq(Fitting), Write
    PROVE  /\ todo # << >>
           /\ \/ files' = Apply(files, Head(todo)) /\ todo' = Tail(todo)
              \/ \E e \in EIDs, x \in Paths :
                    /\ Head(todo) = remove(event_dir(e)) /\ InEventDir(x, e) /\ x # event_dir(e)
                    /\ files' = Apply(files, remove(x)) /\ todo' = todo
<1> DEFINE op == Head(todo)
           held == {x \in DOMAIN files : InEventDir(x, op.path[2]) /\ x # op.path}
           next == {x \in held : x[1] = "reservations" => \A y \in held : y[1] # "event_res"}
<1>1. todo # << >>
  BY DEF Write
<1>2. op \in Fitting
  BY <1>1
<1>3. CASE op = remove(op.path) /\ op.path[1] = "dir" /\ \E x \in next : files' = Apply(files, remove(x)) /\ UNCHANGED todo
  <2>1. op.path \in Paths
    BY <1>2 DEF Fitting
  <2>2. PICK e \in EIDs : op.path = event_dir(e)
    BY <1>3, <2>1, DirPaths
  <2>3. PICK x \in next : files' = Apply(files, remove(x)) /\ UNCHANGED todo
    BY <1>3
  <2>4. x \in Paths /\ InEventDir(x, e) /\ x # event_dir(e)
    BY <2>2, <2>3, OtherParts DEF WellFormed
  <2>5. op = remove(event_dir(e))
    BY <1>3, <2>2
  <2>6. QED
    BY <1>1, <2>3, <2>4, <2>5
<1>4. CASE files' = Apply(files, op) /\ todo' = Tail(todo)
  BY <1>1, <1>4
<1>5. QED
  BY <1>3, <1>4 DEF Write

\* Each file operation brings the tree nearer to the one its handler will leave.
LEMMA WriteKeeps ==
    ASSUME IInv, Write
    PROVE  /\ WellFormed(files') /\ Safe(files', todo', torn)
           /\ ApplyAll(files', todo') = ApplyAll(files, todo)
<1>1. WellFormed(files) /\ Safe(files, todo, torn) /\ todo \in Seq(Fitting)
  BY DEF IInv, Safe
<1>2. todo # << >>
  BY DEF Write
<1>3. CASE files' = Apply(files, Head(todo)) /\ todo' = Tail(todo)
  BY <1>1, <1>2, <1>3, FirstDone
<1>4. CASE \E e \in EIDs, x \in Paths :
              /\ Head(todo) = remove(event_dir(e)) /\ InEventDir(x, e) /\ x # event_dir(e)
              /\ files' = Apply(files, remove(x)) /\ todo' = todo
  <2>1. PICK e \in EIDs, x \in Paths :
              /\ Head(todo) = remove(event_dir(e)) /\ InEventDir(x, e) /\ x # event_dir(e)
              /\ files' = Apply(files, remove(x)) /\ todo' = todo
    BY <1>4
  <2>2. QED
    BY <1>1, <1>2, <2>1, OneRemoved
<1>5. QED
  BY <1>1, <1>3, <1>4, WriteStep

LEMMA WriteInv ==
    ASSUME IInv, Write
    PROVE  IInv'
<1>1. /\ up' = up /\ hurt' = hurt /\ torn' = torn /\ crashes' = crashes /\ uploads' = uploads /\ now' = now
      /\ passwd' = passwd /\ loggedIn' = loggedIn /\ userEvents' = userEvents
      /\ userRes' = userRes /\ lastEvent' = lastEvent /\ event' = event
  BY DEF Write, view
<1>2. WellFormed(files') /\ Safe(files', todo', torn) /\ ApplyAll(files', todo') = ApplyAll(files, todo)
  BY WriteKeeps
<1>3. todo # << >>
  BY DEF Write
<1>4. Sees(ApplyAll(files, todo))'
  BY <1>1, <1>2 DEF IInv, Sees
<1>5. up
  BY <1>3 DEF IInv
<1>6. QED
  BY <1>1, <1>2, <1>4, <1>5 DEF IInv

LEMMA SubjectType ==
    ASSUME NEW x
    PROVE  Subject(x) \in 0..MaxEvents
<1>1. MaxEvents \in Nat
  BY LimitAssumption
<1>2. CASE \E e \in EIDs : About(x, e)
  <2>1. PICK e \in EIDs : About(x, e)
    BY <1>2
  <2>2. x[2] = e
    BY <2>1 DEF About, InEventDir
  <2>3. QED
    BY <1>1, <1>2, <2>2 DEF Subject, EIDs
<1>3. CASE ~\E e \in EIDs : About(x, e)
  BY <1>1, <1>3 DEF Subject
<1>4. QED
  BY <1>2, <1>3

LEMMA CrashInv ==
    ASSUME IInv, Crash
    PROVE  IInv'
<1>1. /\ up /\ crashes < MaxCrashes /\ crashes' = crashes + 1 /\ up' = FALSE /\ todo' = << >>
      /\ uploads' = << >> /\ SeesNext(files) /\ files' = files /\ now' = now
      /\ hurt' = hurt \cup {Subject(todo[i].path) : i \in DOMAIN todo}
      /\ torn' = torn \cup {e \in EIDs : todo # << >> /\ HalfDone(files, e, Head(todo))}
  BY DEF Crash
<1>2. WellFormed(files) /\ Safe(files, todo, torn) /\ torn \subseteq EIDs
  BY DEF IInv
<1>3. Sound(files, torn')
  <2>1. Tree(files, todo, 0) = files /\ Len(todo) \in Nat /\ 0 \in 0..Len(todo)
    BY <1>2, NothingDone DEF WellFormed, Safe
  <2>2. LoginsHave(files) /\ Numbered(files)
    BY <1>2, <2>1 DEF Safe
  <2>3. ASSUME NEW e \in EIDs \ torn'
        PROVE  Booked(files, e)
    <3>1. e \in EIDs \ torn /\ ~(todo # << >> /\ HalfDone(files, e, Head(todo)))
      BY <1>1, <2>3
    <3>2. MayStop(files, todo, 0, e)
      BY <1>2, <2>1, <3>1 DEF Safe
    <3>3. Booked(files, e) \/ (0 < Len(todo) /\ HalfDone(files, e, todo[0 + 1]))
      BY <2>1, <3>2 DEF MayStop
    <3>4. 0 < Len(todo) => todo # << >> /\ todo[0 + 1] = Head(todo)
      BY <1>2 DEF Safe
    <3>5. QED
      BY <3>1, <3>3, <3>4
  <2>4. QED
    BY <1>2, <2>2, <2>3 DEF Sound
<1>4. Safe(files, << >>, torn') /\ ApplyAll(files, << >>) = files
  <2>1. Tree(files, << >>, Len(<< >>)) = files
    BY <1>2, NothingDone DEF WellFormed
  <2>2. QED
    BY <1>2, <1>3, <2>1, AtRest DEF ApplyAll
<1>5. WellFormed(files') /\ Safe(files', todo', torn')
  BY <1>1, <1>2, <1>4
<1>6. Sees(ApplyAll(files, todo))'
  BY <1>1, <1>4 DEF Sees, SeesNext
<1>7. Uploading(uploads)' /\ Owned(ApplyAll(files, todo), uploads)'
  BY <1>1 DEF Uploading, Owned
<1>8. hurt' \subseteq 0..MaxEvents /\ torn' \subseteq EIDs
  BY <1>1, <1>2, SubjectType DEF IInv
<1>9. crashes' \in 0..MaxCrashes /\ up' \in BOOLEAN /\ now' \in Times
  <2>1. crashes \in 0..MaxCrashes /\ now \in Times /\ MaxCrashes \in Nat
    BY CrashAssumption DEF IInv
  <2>2. crashes < MaxCrashes /\ crashes' = crashes + 1
    BY DEF Crash
  <2>3. crashes' \in 0..MaxCrashes
    BY ONLY <2>1, <2>2
  <2>4. QED
    BY <1>1, <2>1, <2>3
<1>10. QED
  BY <1>1, <1>5, <1>6, <1>7, <1>8, <1>9 DEF IInv

LEMMA StartInv ==
    ASSUME IInv, Start
    PROVE  IInv'
<1>1. /\ ~up /\ up' = TRUE /\ todo' = start_up(files) /\ SeesNext(ApplyAll(files, todo')) /\ files' = files
      /\ hurt' = hurt /\ torn' = torn /\ crashes' = crashes /\ uploads' = uploads /\ now' = now
  BY DEF Start
<1>2. todo = << >> /\ uploads = << >>
  BY <1>1 DEF IInv
<1>3. WellFormed(files') /\ Safe(files', todo', torn')
  BY <1>1, <1>2, Found, StartSafe DEF IInv
<1>4. Sees(ApplyAll(files, todo))'
  BY <1>1 DEF Sees, SeesNext
<1>5. Uploading(uploads)' /\ Owned(ApplyAll(files, todo), uploads)'
  BY <1>1, <1>2 DEF Uploading, Owned
<1>6. QED
  BY <1>1, <1>3, <1>4, <1>5 DEF IInv

LEMMA TickInv ==
    ASSUME IInv, Tick
    PROVE  IInv'
<1>1. /\ now < MaxTime /\ now' = now + 1 /\ files' = files /\ todo' = todo /\ up' = up /\ hurt' = hurt
      /\ torn' = torn /\ crashes' = crashes /\ uploads' = uploads
      /\ passwd' = passwd /\ loggedIn' = loggedIn /\ userEvents' = userEvents
      /\ userRes' = userRes /\ lastEvent' = lastEvent /\ event' = event
  BY DEF Tick, view
<1>2. now' \in Times
  BY <1>1, LimitAssumption DEF IInv, Times
<1>3. Sees(ApplyAll(files, todo))'
  BY <1>1 DEF IInv, Sees
<1>4. QED
  BY <1>1, <1>2, <1>3 DEF IInv

LEMMA NextInv == IInv /\ [Next]_vars => IInv'
<1> SUFFICES ASSUME IInv, [Next]_vars
             PROVE  IInv'
  OBVIOUS
<1>1. CASE UNCHANGED vars
  <2>1. /\ files' = files /\ todo' = todo /\ up' = up /\ hurt' = hurt
        /\ torn' = torn /\ crashes' = crashes /\ uploads' = uploads /\ now' = now
        /\ passwd' = passwd /\ loggedIn' = loggedIn /\ userEvents' = userEvents
        /\ userRes' = userRes /\ lastEvent' = lastEvent /\ event' = event
    BY <1>1 DEF vars, view
  <2>2. Sees(ApplyAll(files, todo))'
    BY <2>1 DEF IInv, Sees
  <2>3. QED
    BY <2>1, <2>2 DEF IInv
<1>2. CASE Handle
  <2>1. Idle
    BY <1>2 DEF Handle
  <2>2. ASSUME NEW u \in UIDs, NEW p \in Passwords,
               \/ Login(u, p) \/ Logout(u, p) \/ Unregister(u, p)
               \/ \E new \in Passwords : ChangePass(u, p, new)
        PROVE  IInv'
    BY <2>1, <2>2, AccountInv
  <2>3. ASSUME NEW u \in UIDs, NEW p \in Passwords, CreateThrows(u, p)
        PROVE  IInv'
    BY <2>1, <2>3, CreateThrowsInv
  <2>4. ASSUME NEW u \in UIDs, NEW p \in Passwords, NEW e \in EIDs,
               Close(u, p, e) \/ \E n \in Seats : Reserve(u, p, e, n)
        PROVE  IInv'
    BY <2>1, <2>4, CloseInv, ReserveInv
  <2>5. ASSUME NEW u \in UIDs, NEW p \in Passwords, NEW c \in Connections, NEW d \in Times,
               NEW a \in Attendances, NEW s \in FileSizes,
               \/ \E k \in 0..MaxRead, newline \in BOOLEAN : CreateHeader(c, u, p, d, a, s, k, newline)
               \/ CreateCannotOpen(c, u, p, d, a, s)
        PROVE  IInv'
    BY <2>1, <2>5, CreateInv
  <2>6. ASSUME NEW c \in Connections,
               \/ \E k \in 1..MaxRead, newline \in BOOLEAN : UploadData(c, k, newline)
               \/ Disconnect(c)
        PROVE  IInv'
    BY <2>1, <2>6, UploadInv
  <2>7. QED
    BY <1>2, <2>2, <2>3, <2>4, <2>5, <2>6, Zenon DEF Handle
<1>3. QED
  BY <1>1, <1>2, WriteInv, CrashInv, StartInv, TickInv DEF Next

\* Every tree an interruption can leave, now or after any number of the running
\* handler's operations, is one the server can start on: the readers parse what
\* it holds, no login lacks its password and no seat is sold twice.
THEOREM Invariant == Spec => []IInv
<1>1. QED
  BY InitInv, NextInv, PTL DEF Spec

-----------------------------------------------------------------------------
(***************************************************************************)
(* What survives, whatever the limits, the users and the requests.         *)
(***************************************************************************)
\* The type invariant: the tree has the server's paths and no others, and every
\* file, written or still to be written, holds what its readers parse.
THEOREM Types == Spec => []TypeOK
<1>1. IInv => TypeOK
  <2> SUFFICES ASSUME IInv
               PROVE  TypeOK
    OBVIOUS
  <2>1. todo \in Seq(Fitting)
    BY DEF IInv, Safe
  <2>2. DOMAIN todo = 1..Len(todo) /\ \A i \in DOMAIN todo : todo[i] \in Fitting
    BY <2>1
  <2>3. ASSUME NEW op \in Fitting
        PROVE  /\ op = put(op.path, op.content) /\ op.path \in Paths
               /\ op.content = Gone \/ Holds(op.path, op.content)
    BY DEF Fitting, put
  <2>4. \A i \in DOMAIN todo : LET op == todo[i] IN
           /\ op = put(op.path, op.content) /\ op.path \in Paths
           /\ op.content = Gone \/ Holds(op.path, op.content)
    BY <2>2, <2>3
  <2>5. DOMAIN files \subseteq Paths /\ \A x \in DOMAIN files : Holds(x, files[x])
    BY DEF IInv, WellFormed
  <2>6. /\ DOMAIN uploads \subseteq Connections
        /\ uploads \in [DOMAIN uploads -> Store!Upload]
        /\ up \in BOOLEAN /\ now \in Times /\ crashes \in 0..MaxCrashes
        /\ hurt \subseteq 0..MaxEvents /\ torn \subseteq EIDs
    BY DEF IInv, Uploading
  <2>7. QED
    BY <2>2, <2>4, <2>5, <2>6 DEF TypeOK
<1>2. QED
  BY <1>1, Invariant, PTL

\* Between any two file operations of any handler, and after every crash, a user
\* with a logged_in file has a passwd file: the order in which create_user and
\* unregister write and remove the two is what this rests on.
THEOREM Logins == Spec => []LoginsSurvive
<1>1. IInv => LoginsSurvive
  <2> SUFFICES ASSUME IInv
               PROVE  LoginsSurvive
    OBVIOUS
  <2>1. Tree(files, todo, 0) = files /\ 0 \in 0..Len(todo)
    BY NothingDone DEF IInv, WellFormed, Safe
  <2>2. LoginsHave(files)
    BY <2>1 DEF IInv, Safe
  <2>3. QED
    BY <2>2 DEF LoginsSurvive, LoggedIn, Accounts, LoginsHave
<1>2. QED
  BY <1>1, Invariant, PTL

\* However many reservations are cut short, an event whose details can be read
\* and whose total-res was not itself lost is not sold beyond its seats, and its
\* files record no seat that total-res does not count.
THEOREM Sales == Spec => []NeverOversold
<1>1. IInv => NeverOversold
  <2> SUFFICES ASSUME IInv, NEW e \in DOMAIN event, event[e].creator # NoUser, e \notin torn
               PROVE  /\ Cardinality(SeatsIn(event[e].reservations)) <= event[e].sold
                      /\ event[e].sold <= event[e].attendance
    BY DEF NeverOversold
  <2> DEFINE g == ApplyAll(files, todo)
  <2>1. e \in EIDs /\ event[e] = EventRecord(g, e)
    BY DEF IInv, Sees, Events
  <2>2. Booked(g, e)
    <3>1. Len(todo) \in 0..Len(todo) /\ ~(Len(todo) < Len(todo))
      BY DEF IInv, Safe
    <3>2. MayStop(files, todo, Len(todo), e)
      BY <2>1, <3>1 DEF IInv, Safe
    <3>3. QED
      BY <3>1, <3>2 DEF MayStop, ApplyAll
  <2> HIDE DEF g
  <2>3. Whole(g, event_details_path(e))
    BY <2>1 DEF EventRecord
  <2>4. /\ event[e].reservations = Reservations(g, e)
        /\ event[e].sold = g[event_total_res_path(e)]
        /\ event[e].attendance = g[event_details_path(e)].attendance
    BY <2>1, <2>2, <2>3 DEF EventRecord, Booked, Reservations
  <2>5. QED
    BY <2>2, <2>3, <2>4 DEF Booked
<1>2. QED
  BY <1>1, Invariant, PTL

-----------------------------------------------------------------------------
(***************************************************************************)
(* What a handler writes is of one of five kinds.                          *)
(***************************************************************************)
Accounting(ops) ==
    \A i \in 1..Len(ops) : ops[i].path # event_count_path /\ \A e : ~About(ops[i].path, e)
Describing(ops) ==
    \E n \in EIDs : \E x \in {event_end_path(n), event_description_path(n)} :
        \E c \in Data : c # Gone /\ ops = <<put(x, c)>>
Destroying(ops) == \E n \in EIDs : ops = <<remove(event_dir(n))>>
Booking(ops) ==
    \E u \in UIDs, p \in Passwords, e \in EIDs, n \in Seats :
        Store!reserve(u, p, e, n) = "ACC" /\ ops = reserve(u, e, n)
Creating(ops) ==
    \E u \in UIDs, d \in Times, a \in Attendances, s \in FileSizes :
        Creates(ops, lastEvent + 1, u, d, a, s)

Kinds(ops) ==
    \/ Accounting(ops) \/ Describing(ops) \/ Destroying(ops)
    \/ Booking(ops)
    \/ Creating(ops) /\ lastEvent + 1 \in EIDs /\ \A x \in DOMAIN files : ~About(x, lastEvent + 1)

LEMMA AccountKind ==
    ASSUME NEW u \in UIDs, NEW p \in Passwords,
           \/ Login(u, p) \/ Logout(u, p) \/ Unregister(u, p)
           \/ \E new \in Passwords : ChangePass(u, p, new)
    PROVE  \E ops : Begin(ops) /\ Accounting(ops)
<1> DEFINE x == password_path(u)
           y == logged_in_path(u)
<1>1. /\ x # event_count_path /\ \A e : ~About(x, e)
      /\ y # event_count_path /\ \A e : ~About(y, e)
  BY PathsApart, FirstParts
<1>2. ASSUME NEW ops, Begin(ops), \A i \in 1..Len(ops) : ops[i].path \in {x, y}
      PROVE  \E o : Begin(o) /\ Accounting(o)
  BY <1>1, <1>2 DEF Accounting
<1> HIDE DEF x, y
<1>3. /\ \A i \in 1..2 : i = 1 \/ i = 2
      /\ \A i \in 1..3 : i = 1 \/ i = 2 \/ i = 3
  OBVIOUS
<1>4. CASE Begin(create_user(u, p))
  <2>1. \A i \in 1..Len(create_user(u, p)) : create_user(u, p)[i].path \in {x, y}
    BY <1>3, PutParts DEF create_user, x, y
  <2>2. QED
    BY <1>2, <1>4, <2>1
<1>5. CASE Begin(<<put(y, Empty)>>)
  <2> DEFINE ops == <<put(y, Empty)>>
  <2>1. \A i \in 1..Len(ops) : ops[i].path \in {x, y}
    BY PutParts
  <2>2. QED
    BY <1>2, <1>5, <2>1
<1>6. CASE Begin(<<remove(y)>>)
  <2> DEFINE ops == <<remove(y)>>
  <2>1. \A i \in 1..Len(ops) : ops[i].path \in {x, y}
    BY PutParts
  <2>2. QED
    BY <1>2, <1>6, <2>1
<1>7. CASE Begin(unregister(u))
  <2>1. \A i \in 1..Len(unregister(u)) : unregister(u)[i].path \in {x, y}
    BY <1>3, PutParts DEF unregister, x, y
  <2>2. QED
    BY <1>2, <1>7, <2>1
<1>8. ASSUME NEW new \in Passwords, Begin(<<put(x, Empty), put(x, new)>>)
      PROVE  \E o : Begin(o) /\ Accounting(o)
  <2> DEFINE ops == <<put(x, Empty), put(x, new)>>
  <2>1. \A i \in 1..Len(ops) : ops[i].path \in {x, y}
    BY <1>3, PutParts
  <2>2. QED
    BY <1>2, <1>8, <2>1
<1>9. QED
  BY <1>4, <1>5, <1>6, <1>7, <1>8 DEF Login, Logout, Unregister, ChangePass, x, y

LEMMA CreateKind ==
    ASSUME IInv, Idle, NEW c, NEW u \in UIDs, NEW p,
           NEW d \in Times, NEW a \in Attendances, NEW s \in FileSizes,
           \/ \E k \in 0..MaxRead, newline \in BOOLEAN : CreateHeader(c, u, p, d, a, s, k, newline)
           \/ CreateCannotOpen(c, u, p, d, a, s)
    PROVE  /\ \E ops : Begin(ops) /\ Creating(ops)
           /\ lastEvent + 1 \in EIDs /\ \A x \in DOMAIN files : ~About(x, lastEvent + 1)
<1> DEFINE n == lastEvent + 1
           started == start_create_event(n, u, d, a, s)
           x == event_description_path(n)
<1>1. n \in EIDs /\ \A y \in DOMAIN files : ~About(y, n)
  BY CreateGuard DEF CreateHeader, CreateCannotOpen
<1> HIDE DEF n
<1>2. /\ \A b \in Nat : put(x, b) \in Fitting
      /\ remove(event_dir(n)) \in Fitting
  BY <1>1, DescriptionPut, FittingRemove, PathsOfEvents
<1>3. s \in Nat /\ 0 \in Nat
  <2>1. s \in parse_filesize /\ MAX_FILESIZE \in Nat
    BY RequestAssumption DEF MAX_FILESIZE
  <2>2. QED
    BY <2>1 DEF parse_filesize
<1>4. ASSUME NEW tail \in Seq(Fitting), Begin(started \o tail),
             \A i \in 1..Len(tail) : \/ \E b \in Nat : tail[i] = put(x, b)
                                     \/ tail[i] = remove(event_dir(n)) /\ i = Len(tail)
      PROVE  \E ops : Begin(ops) /\ Creating(ops)
  <2>1. Creates(started \o tail, n, u, d, a, s)
    BY <1>1, <1>4, CreateOperations
  <2> HIDE DEF started
  <2>2. QED
    BY <1>4, <2>1 DEF Creating, n
<1>5. \A i \in 1..2 : i = 1 \/ i = 2
  OBVIOUS
<1>6. CASE Begin(started)
  <2>1. Creates(started, n, u, d, a, s)
    BY <1>1, StartCreates
  <2> HIDE DEF started
  <2>2. QED
    BY <1>1, <1>6, <2>1 DEF Creating, n
<1>7. CASE \E b \in Nat : Begin(started \o <<put(x, b)>>)
  <2>1. PICK b \in Nat : Begin(started \o <<put(x, b)>>)
    BY <1>7
  <2> DEFINE tail == <<put(x, b)>>
  <2>2. tail \in Seq(Fitting) /\ \A i \in 1..Len(tail) : tail[i] = put(x, b)
    BY <1>2
  <2>3. Begin(started \o tail)
    BY <2>1
  <2> HIDE DEF tail, started
  <2>4. QED
    BY <1>1, <1>4, <2>2, <2>3 DEF n
<1>8. CASE Begin(started \o <<put(x, 0), put(x, s)>>)
  <2> DEFINE tail == <<put(x, 0), put(x, s)>>
  <2>1. tail \in Seq(Fitting) /\ \A i \in 1..Len(tail) : \E b \in Nat : tail[i] = put(x, b)
    BY <1>2, <1>3, <1>5
  <2>2. Begin(started \o tail)
    BY <1>8
  <2> HIDE DEF tail, started
  <2>3. QED
    BY <1>1, <1>4, <2>1, <2>2 DEF n
<1>9. CASE Begin(started \o <<put(x, 0), remove(event_dir(n))>>)
  <2> DEFINE tail == <<put(x, 0), remove(event_dir(n))>>
  <2>1. tail \in Seq(Fitting) /\ \A i \in 1..Len(tail) : \/ \E b \in Nat : tail[i] = put(x, b)
                                                         \/ tail[i] = remove(event_dir(n)) /\ i = Len(tail)
    BY <1>2, <1>3, <1>5
  <2>2. Begin(started \o tail)
    BY <1>9
  <2> HIDE DEF tail, started
  <2>3. QED
    BY <1>1, <1>4, <2>1, <2>2 DEF n
<1>10. ASSUME NEW k \in 0..MaxRead, NEW newline \in BOOLEAN, CreateHeader(c, u, p, d, a, s, k, newline)
       PROVE  \/ \E b \in Nat : Begin(started \o <<put(x, b)>>)
              \/ Begin(started \o <<put(x, 0), put(x, s)>>)
              \/ Begin(started \o <<put(x, 0), remove(event_dir(n))>>)
  <2>1. 0..k \subseteq Nat
    OBVIOUS
  <2> HIDE DEF started
  <2>2. QED
    BY <1>10, <2>1 DEF CreateHeader, n, started
<1>11. QED
  BY <1>1, <1>6, <1>7, <1>8, <1>9, <1>10 DEF CreateCannotOpen, n

LEMMA UploadKind ==
    ASSUME IInv, Idle, NEW c \in Connections,
           \/ \E k \in 1..MaxRead, newline \in BOOLEAN : UploadData(c, k, newline)
           \/ Disconnect(c)
    PROVE  \E ops : Begin(ops) /\ (Describing(ops) \/ Destroying(ops))
<1>1. Owned(files, uploads) /\ Uploading(uploads) /\ WellFormed(files)
  BY Found DEF Idle, IInv
<1>2. c \in DOMAIN uploads
  BY DEF UploadData, Disconnect
<1> DEFINE n == uploads[c].eid
           x == event_description_path(n)
<1>3. /\ n \in EIDs /\ uploads[c].filesize \in FileSizes /\ uploads[c].written \in Nat
      /\ x \in DOMAIN files
  BY <1>1, <1>2 DEF Owned, Described, Uploading, Store!Upload, Store!EIDs, EIDs
<1> HIDE DEF n
<1>4. files[x] \in Nat
  BY <1>1, <1>3, KindsOfContent DEF WellFormed
<1>5. uploads[c].filesize \in Nat /\ MaxRead \in Nat
  <2>1. MaxRead \in Nat /\ uploads[c].filesize \in parse_filesize /\ MAX_FILESIZE \in Nat
    BY <1>3, LimitAssumption, RequestAssumption DEF MAX_FILESIZE
  <2>2. QED
    BY <2>1 DEF parse_filesize
<1>6. ASSUME NEW b \in Nat, Begin(<<put(x, b)>>)
      PROVE  \E ops : Begin(ops) /\ Describing(ops)
  <2>1. b \in Data /\ b # Gone /\ x \in {event_end_path(n), event_description_path(n)}
    BY <1>3, DescriptionPut
  <2>2. Describing(<<put(x, b)>>)
    BY <1>3, <2>1 DEF Describing
  <2>3. QED
    BY <1>6, <2>2
<1> HIDE DEF x
<1>7. CASE Begin(<<remove(event_dir(n))>>)
  BY <1>3, <1>7 DEF Destroying
<1>8. CASE Disconnect(c)
  BY <1>3, <1>6, <1>8 DEF Disconnect, x, n
<1>9. ASSUME NEW k \in 1..MaxRead, NEW newline \in BOOLEAN, UploadData(c, k, newline)
      PROVE  \/ \E b \in files[x] .. uploads[c].written + k : Begin(<<put(x, b)>>)
             \/ Begin(<<put(x, uploads[c].filesize)>>)
             \/ Begin(<<remove(event_dir(n))>>)
  BY <1>9 DEF UploadData, x, n
<1>10. \A k \in 1..MaxRead : files[x] .. uploads[c].written + k \subseteq Nat
  BY <1>3, <1>4, <1>5
<1>11. QED
  BY <1>5, <1>6, <1>7, <1>8, <1>9, <1>10

LEMMA HandleKinds ==
    ASSUME IInv, Handle
    PROVE  \/ \E ops : Begin(ops) /\ Kinds(ops)
           \/ UNCHANGED <<files, todo, hurt, view>>
<1>1. Idle
  BY DEF Handle
<1>2. ASSUME NEW u \in UIDs, NEW p \in Passwords,
             \/ Login(u, p) \/ Logout(u, p) \/ Unregister(u, p)
             \/ \E new \in Passwords : ChangePass(u, p, new)
      PROVE  \E ops : Begin(ops) /\ Kinds(ops)
  BY <1>2, AccountKind DEF Kinds
<1>3. ASSUME NEW u \in UIDs, NEW p \in Passwords, CreateThrows(u, p)
      PROVE  UNCHANGED <<files, todo, hurt, view>>
  BY <1>3 DEF CreateThrows
<1>4. ASSUME NEW u \in UIDs, NEW p \in Passwords, NEW e \in EIDs, Close(u, p, e)
      PROVE  \E ops : Begin(ops) /\ Kinds(ops)
  <2>1. Empty \in Data /\ Empty # Gone
    BY MarkersApart DEF Data
  <2>2. Describing(<<put(event_end_path(e), Empty)>>)
    BY <2>1 DEF Describing
  <2>3. QED
    BY <1>4, <2>2 DEF Kinds, Close
<1>5. ASSUME NEW u \in UIDs, NEW p \in Passwords, NEW e \in EIDs, NEW n \in Seats, Reserve(u, p, e, n)
      PROVE  \E ops : Begin(ops) /\ Kinds(ops)
  <2>1. Begin(reserve(u, e, n)) /\ Booking(reserve(u, e, n))
    BY <1>5 DEF Reserve, Booking
  <2>2. QED
    BY <2>1 DEF Kinds
<1>6. ASSUME NEW u \in UIDs, NEW p \in Passwords, NEW c \in Connections, NEW d \in Times,
             NEW a \in Attendances, NEW s \in FileSizes,
             \/ \E k \in 0..MaxRead, newline \in BOOLEAN : CreateHeader(c, u, p, d, a, s, k, newline)
             \/ CreateCannotOpen(c, u, p, d, a, s)
      PROVE  \E ops : Begin(ops) /\ Kinds(ops)
  BY <1>1, <1>6, CreateKind DEF Kinds
<1>7. ASSUME NEW c \in Connections,
             \/ \E k \in 1..MaxRead, newline \in BOOLEAN : UploadData(c, k, newline)
             \/ Disconnect(c)
      PROVE  \E ops : Begin(ops) /\ Kinds(ops)
  BY <1>1, <1>7, UploadKind DEF Kinds
<1>8. QED
  BY <1>2, <1>3, <1>4, <1>5, <1>6, <1>7, Zenon DEF Handle

\* What a handler that is no create leaves of the counter.
LEMMA CountKept ==
    ASSUME NEW f, NEW ops \in Seq(Fitting), \A i \in 1..Len(ops) : ops[i].path # event_count_path
    PROVE  LastEvent(ApplyAll(f, ops)) = LastEvent(f)
<1>1. \A i \in 1..Len(ops) : ~Concerns(ops[i], event_count_path)
  BY FirstParts DEF Concerns, InEventDir
<1>2. Len(ops) \in Nat
  OBVIOUS
<1>3. SameAt(f, ApplyAll(f, ops), event_count_path)
  BY <1>1, <1>2, Untouched DEF ApplyAll
<1>4. QED
  BY <1>3, SameContent DEF LastEvent

LEMMA CountCreated ==
    ASSUME NEW f, NEW ops, NEW n \in EIDs, NEW u, NEW d, NEW a, NEW s, Creates(ops, n, u, d, a, s),
           [creator |-> u, date |-> d, attendance |-> a, filesize |-> s] \in Details
    PROVE  LastEvent(ApplyAll(f, ops)) = n
<1>1. ops \in Seq(Fitting) /\ Len(ops) >= 9 /\ Len(ops) \in Nat /\ ops[2] = put(event_count_path, n)
  BY DEF Creates
<1>2. Concerns(ops[2], event_count_path) /\ ops[2].content = n
  BY <1>1, PutParts DEF Concerns
<1>3. \A i \in 1..Len(ops) : i > 2 => ~Concerns(ops[i], event_count_path)
  <2> SUFFICES ASSUME NEW i \in 1..Len(ops), i > 2
               PROVE  ~Concerns(ops[i], event_count_path)
    OBVIOUS
  <2>1. About(ops[i].path, n)
    BY CreatePaths
  <2>2. ops[i].path # event_count_path
    BY <2>1, PathsApart
  <2>3. QED
    BY <2>2, FirstParts DEF Concerns, InEventDir
<1>4. 2 \in 1..Len(ops)
  BY <1>1
<1>5. LeftAt(Tree(f, ops, Len(ops)), event_count_path, n)
  BY <1>1, <1>2, <1>3, <1>4, LastLeft
<1>6. n # Gone /\ n # Empty
  <2>1. n \in Int
    BY LimitAssumption DEF EIDs
  <2>2. QED
    BY <2>1, MarkersApart
<1>7. QED
  BY <1>5, <1>6 DEF LeftAt, LastEvent, Content, ApplyAll

LEMMA BookingFacts ==
    ASSUME IInv, Idle, NEW u \in UIDs, NEW p, NEW e \in EIDs, NEW n \in Seats,
           Store!reserve(u, p, e, n) = "ACC"
    PROVE  /\ n \in Nat /\ event[e].sold \in Int /\ e <= LastEvent(files)
           /\ \A i \in 1..Len(reserve(u, e, n)) :
                 reserve(u, e, n)[i].path
                    \in {event_total_res_path(e), user_res_path(u, now, e), event_res_path(e, now, u)}
<1>1. Sound(files, torn) /\ event = Events(files) /\ now \in Times /\ WellFormed(files)
  BY Found DEF Idle, Sees, IInv
<1>2. n \in Nat /\ event[e].sold \in Int /\ event_dir(e) \in DOMAIN files
  BY <1>1, ReserveGuard
<1>3. e <= LastEvent(files)
  <2>1. About(event_dir(e), e)
    BY PathsBelow, PathsApart
  <2>2. QED
    BY <1>1, <1>2, <2>1 DEF Sound, Numbered
<1>4. QED
  BY <1>1, <1>2, <1>3, ReservePaths

\* What each kind of handler writes of the counter: nothing, unless it creates.
LEMMA KindsCount ==
    ASSUME IInv, IInv', Idle, NEW ops, Begin(ops), Kinds(ops)
    PROVE  \/ lastEvent' = lastEvent
           \/ lastEvent' = lastEvent + 1 /\ \A x \in DOMAIN files : ~About(x, lastEvent + 1)
<1>1. /\ lastEvent = LastEvent(files) /\ lastEvent' = LastEvent(ApplyAll(files, ops))
      /\ ops \in Seq(Fitting) /\ now \in Times
  BY Found DEF Idle, Sees, Begin, SeesNext, IInv, Safe
<1>2. ASSUME \A i \in 1..Len(ops) : ops[i].path # event_count_path
      PROVE  lastEvent' = lastEvent
  BY <1>1, <1>2, CountKept
<1>3. CASE Accounting(ops)
  BY <1>2, <1>3 DEF Accounting
<1>4. CASE Describing(ops) \/ Destroying(ops)
  <2>1. PICK x, c : ops = <<put(x, c)>> /\ x[1] \in {"end", "description", "dir"}
    BY <1>4, FirstParts DEF Describing, Destroying, remove
  <2>2. \A i \in 1..Len(ops) : ops[i].path = x
    BY <2>1, PutParts
  <2>3. QED
    BY <1>2, <2>1, <2>2, FirstParts
<1>5. CASE Booking(ops)
  <2>1. PICK u \in UIDs, p \in Passwords, e \in EIDs, n \in Seats :
           Store!reserve(u, p, e, n) = "ACC" /\ ops = reserve(u, e, n)
    BY <1>5 DEF Booking
  <2>2. \A i \in 1..Len(ops) :
           ops[i].path \in {event_total_res_path(e), user_res_path(u, now, e), event_res_path(e, now, u)}
    BY <2>1, BookingFacts
  <2>3. \A i \in 1..Len(ops) : ops[i].path # event_count_path
    BY <2>2, FirstParts
  <2>4. QED
    BY <1>2, <2>3
<1>6. CASE Creating(ops) /\ lastEvent + 1 \in EIDs /\ \A x \in DOMAIN files : ~About(x, lastEvent + 1)
  <2>1. PICK u \in UIDs, d \in Times, a \in Attendances, s \in FileSizes :
           Creates(ops, lastEvent + 1, u, d, a, s)
    BY <1>6 DEF Creating
  <2>2. [creator |-> u, date |-> d, attendance |-> a, filesize |-> s] \in Details
    BY DEF Details
  <2>3. lastEvent' = lastEvent + 1
    BY <1>1, <1>6, <2>1, <2>2, CountCreated
  <2>4. QED
    BY <1>6, <2>3
<1>7. QED
  BY <1>3, <1>4, <1>5, <1>6 DEF Kinds

\* Start-up writes a counter where there is none.
LEMMA StartCount ==
    ASSUME IInv, IInv', Start
    PROVE  lastEvent' = lastEvent
<1>1. /\ ~up /\ todo' = start_up(files) /\ SeesNext(ApplyAll(files, todo'))
  BY DEF Start
<1>2. lastEvent = LastEvent(files) /\ WellFormed(files) /\ todo' \in Seq(Fitting)
  BY <1>1, Found DEF IInv, Sees, Safe
<1>3. CASE event_count_path \in DOMAIN files
  <2>1. \A i \in 1..Len(todo') : todo'[i].path # event_count_path
    BY <1>1, <1>3 DEF start_up
  <2>2. QED
    BY <1>1, <1>2, <2>1, CountKept DEF SeesNext
<1>4. CASE event_count_path \notin DOMAIN files
  <2> DEFINE ops == todo'
  <2>1. ops = <<put(event_count_path, Empty), put(event_count_path, 0)>>
    BY <1>1, <1>4 DEF start_up
  <2>2. Len(ops) = 2 /\ ops[2] = put(event_count_path, 0) /\ 2 \in 1..2 /\ 0 \in Int
    BY <2>1
  <2>3. Concerns(ops[2], event_count_path) /\ ops[2].content = 0 /\ 0 # Gone /\ 0 # Empty
    BY <2>2, PutParts, MarkersApart DEF Concerns
  <2> HIDE DEF ops
  <2>4. Len(ops) \in Nat /\ \A i \in 1..Len(ops) : i > 2 => ~Concerns(ops[i], event_count_path)
    BY <2>2
  <2>5. LeftAt(Tree(files, ops, Len(ops)), event_count_path, 0)
    BY <2>2, <2>3, <2>4, LastLeft
  <2>6. LastEvent(ApplyAll(files, ops)) = 0
    BY <2>3, <2>5 DEF LeftAt, LastEvent, Content, ApplyAll
  <2>7. LastEvent(files) = 0
    BY <1>4, <2>3 DEF LastEvent, Content
  <2>8. QED
    BY <1>1, <1>2, <2>6, <2>7 DEF SeesNext, ops
<1>5. QED
  BY <1>3, <1>4

\* A create cut short leaves a directory, a listing or a file behind, and the
\* counter is written before any of them: the next create takes a number under
\* which nothing was ever left.
THEOREM Numbers == Spec => NumbersStayFresh
<1> DEFINE Fresh == todo = << >> /\ lastEvent' # lastEvent /\ lastEvent' \in EIDs =>
                       \A x \in DOMAIN files : ~About(x, lastEvent')
<1>1. ASSUME IInv, IInv', [Next]_vars
      PROVE  Fresh
  <2> SUFFICES ASSUME todo = << >>, lastEvent' # lastEvent
               PROVE  \A x \in DOMAIN files : ~About(x, lastEvent')
    OBVIOUS
  <2>1. CASE Handle
    <3>1. CASE \E ops : Begin(ops) /\ Kinds(ops)
      <4>1. Idle
        BY <2>1 DEF Handle
      <4>2. QED
        BY <1>1, <3>1, <4>1, KindsCount
    <3>2. CASE UNCHANGED <<files, todo, hurt, view>>
      BY <3>2 DEF view
    <3>3. QED
      BY <1>1, <2>1, <3>1, <3>2, HandleKinds
  <2>2. CASE Crash
    BY <1>1, <2>2, Found DEF Crash, SeesNext, Sees
  <2>3. CASE Start
    BY <1>1, <2>3, StartCount
  <2>4. CASE Write \/ Tick \/ UNCHANGED vars
    BY <2>4 DEF Write, Tick, vars, view
  <2>5. QED
    BY <1>1, <2>1, <2>2, <2>3, <2>4 DEF Next
<1>2. QED
  BY <1>1, Invariant, PTL DEF Spec, NumbersStayFresh


-----------------------------------------------------------------------------
(***************************************************************************)
(* Events no interrupted handler was to write of.  The two copies of every *)
(* reservation, the seats sold and the creator's list agree on them in the *)
(* tree the running handler will leave.                                    *)
(***************************************************************************)
\* Event e as EventStore has it: with every file and directory of its own, and
\* with the files about it that its users keep.
Intact(f, e) ==
    event_dir(e) \in DOMAIN f =>
        /\ Whole(f, event_details_path(e)) /\ Whole(f, event_total_res_path(e))
        /\ event_reservations_dir(e) \in DOMAIN f
        /\ IsFiniteSet(SeatsIn(Reservations(f, e)))
        /\ f[event_total_res_path(e)] = Cardinality(SeatsIn(Reservations(f, e)))
        /\ f[event_total_res_path(e)] <= f[event_details_path(e)].attendance
        /\ \A t \in Times, u \in UIDs :
              Content(f, event_res_path(e, t, u), << >>) = Content(f, user_res_path(u, t, e), << >>)
        /\ \A u \in UIDs :
              user_event_path(u, e) \in DOMAIN f <=> u = f[event_details_path(e)].creator

Unhurt == \A e \in EIDs \ hurt : Intact(ApplyAll(files, todo), e)

\* What Intact reads.
Recording(x) ==
    x[1] \in {"dir", "reservations", "total_res", "details", "event_res", "user_res", "user_event"}

LEMMA SameIntact ==
    ASSUME NEW f, NEW g, NEW e \in EIDs, \A x : About(x, e) /\ Recording(x) => SameAt(f, g, x),
           Intact(f, e)
    PROVE  Intact(g, e)
<1>1. \A x \in {event_dir(e), event_reservations_dir(e), event_total_res_path(e), event_details_path(e)} :
          SameAt(f, g, x)
  BY PathsBelow, PathsApart, FirstParts DEF Recording
<1>2. ASSUME NEW t \in Times, NEW u \in UIDs
      PROVE  /\ SameAt(f, g, event_res_path(e, t, u)) /\ SameAt(f, g, user_res_path(u, t, e))
             /\ SameAt(f, g, user_event_path(u, e))
  <2>1. /\ About(event_res_path(e, t, u), e) /\ About(user_res_path(u, t, e), e)
        /\ About(user_event_path(u, e), e)
    BY FirstParts, OtherParts DEF About, InEventDir
  <2>2. QED
    BY <2>1, FirstParts DEF Recording
<1>3. Reservations(f, e) = Reservations(g, e)
  BY <1>1, <1>2, SameBooked
<1>4. ASSUME event_dir(e) \in DOMAIN g
      PROVE  /\ Whole(g, event_details_path(e)) /\ Whole(g, event_total_res_path(e))
             /\ event_reservations_dir(e) \in DOMAIN g
             /\ g[event_details_path(e)] = f[event_details_path(e)]
             /\ g[event_total_res_path(e)] = f[event_total_res_path(e)]
             /\ event_dir(e) \in DOMAIN f
  BY <1>1, <1>4 DEF SameAt, Intact, Whole
<1>5. ASSUME NEW t \in Times, NEW u \in UIDs
      PROVE  /\ Content(f, event_res_path(e, t, u), << >>) = Content(g, event_res_path(e, t, u), << >>)
             /\ Content(f, user_res_path(u, t, e), << >>) = Content(g, user_res_path(u, t, e), << >>)
  BY <1>2, SameContent
<1>6. ASSUME NEW u \in UIDs
      PROVE  user_event_path(u, e) \in DOMAIN f <=> user_event_path(u, e) \in DOMAIN g
  <2>1. 0 \in Times
    BY LimitAssumption DEF Times
  <2>2. SameAt(f, g, user_event_path(u, e))
    BY <1>2, <2>1
  <2>3. QED
    BY <2>2 DEF SameAt
<1>7. ASSUME event_dir(e) \in DOMAIN g
      PROVE  /\ IsFiniteSet(SeatsIn(Reservations(g, e)))
             /\ g[event_total_res_path(e)] = Cardinality(SeatsIn(Reservations(g, e)))
             /\ g[event_total_res_path(e)] <= g[event_details_path(e)].attendance
  BY <1>3, <1>4, <1>7 DEF Intact
<1>8. ASSUME event_dir(e) \in DOMAIN g
      PROVE  \A t \in Times, u \in UIDs :
                Content(g, event_res_path(e, t, u), << >>) = Content(g, user_res_path(u, t, e), << >>)
  BY <1>4, <1>5, <1>8 DEF Intact
<1>9. ASSUME event_dir(e) \in DOMAIN g
      PROVE  \A u \in UIDs :
                user_event_path(u, e) \in DOMAIN g <=> u = g[event_details_path(e)].creator
  BY <1>4, <1>6, <1>9 DEF Intact
<1>10. QED
  BY <1>4, <1>7, <1>8, <1>9 DEF Intact

LEMMA IntactElsewhere ==
    ASSUME NEW f, NEW ops \in Seq(Fitting), NEW e \in EIDs,
           \A i \in 1..Len(ops) : ~About(ops[i].path, e), Intact(f, e)
    PROVE  Intact(ApplyAll(f, ops), e)
<1>1. Len(ops) \in Nat
  OBVIOUS
<1>2. \A x : About(x, e) => SameAt(f, ApplyAll(f, ops), x)
  BY <1>1, Elsewhere DEF ApplyAll
<1>3. QED
  BY <1>2, SameIntact

\* Close, and an upload's data.
LEMMA IntactDescribing ==
    ASSUME NEW f, NEW ops, Describing(ops), NEW e \in EIDs, Intact(f, e)
    PROVE  Intact(ApplyAll(f, ops), e)
<1>1. PICK x, c : ops = <<put(x, c)>> /\ x[1] \in {"end", "description"} /\ c # Gone
  BY FirstParts DEF Describing
<1>2. Len(ops) = 1 /\ \A i \in 1..Len(ops) : ops[i] = put(x, c)
  BY <1>1
<1>3. \A y : Recording(y) => \A i \in 1..Len(ops) : ~Concerns(ops[i], y)
  BY <1>1, <1>2, ConcernsPut DEF Recording
<1>4. \A y : Recording(y) => SameAt(f, ApplyAll(f, ops), y)
  <2>1. Len(ops) \in Nat
    BY <1>2
  <2>2. QED
    BY <1>3, <2>1, Untouched DEF ApplyAll
<1>5. QED
  BY <1>4, SameIntact

LEMMA IntactDestroying ==
    ASSUME NEW f, NEW ops \in Seq(Fitting), Destroying(ops), NEW e \in EIDs, Intact(f, e)
    PROVE  Intact(ApplyAll(f, ops), e)
<1>1. PICK n \in EIDs : ops = <<remove(event_dir(n))>>
  BY DEF Destroying
<1>2. Len(ops) = 1 /\ ops[1] = remove(event_dir(n)) /\ 1 \in 1..1 /\ \A i \in 1..Len(ops) : ops[i] = remove(event_dir(n))
  BY <1>1
<1>3. CASE e = n
  <2>1. Concerns(ops[1], event_dir(n)) /\ ops[1].content = Gone
    BY <1>2, PutParts DEF Concerns
  <2>2. LeftAt(Tree(f, ops, 1), event_dir(n), Gone)
    <3>1. 1 \in Nat /\ \A j \in 1..1 : ~(j > 1)
      OBVIOUS
    <3>2. QED
      BY <1>2, <2>1, <3>1, LastLeft
  <2>3. event_dir(n) \notin DOMAIN ApplyAll(f, ops)
    BY <1>2, <2>2 DEF LeftAt, ApplyAll
  <2>4. QED
    BY <1>3, <2>3 DEF Intact
<1>4. CASE e # n
  <2>1. \A i \in 1..Len(ops) : ~About(ops[i].path, e)
    BY <1>2, <1>4, PutParts, PathsBelow, PathsApart
  <2>2. QED
    BY <2>1, IntactElsewhere
<1>5. QED
  BY <1>3, <1>4

\* What a create leaves of its event, if it does not destroy it again.
LEMMA Created ==
    ASSUME NEW f, NEW n \in EIDs, \A x \in DOMAIN f : ~About(x, n),
           NEW u \in UIDs, NEW d \in Times, NEW a \in Attendances, NEW s \in FileSizes,
           NEW ops, Creates(ops, n, u, d, a, s), ops[Len(ops)] # remove(event_dir(n))
    PROVE  LET g == ApplyAll(f, ops)
           IN  /\ event_dir(n) \in DOMAIN g /\ event_reservations_dir(n) \in DOMAIN g
               /\ event_details_path(n) \in DOMAIN g
               /\ g[event_details_path(n)] = [creator |-> u, date |-> d, attendance |-> a, filesize |-> s]
               /\ event_total_res_path(n) \in DOMAIN g /\ g[event_total_res_path(n)] = 0
               /\ \A t, v : event_res_path(n, t, v) \notin DOMAIN g /\ user_res_path(v, t, n) \notin DOMAIN g
               /\ \A v : user_event_path(v, n) \in DOMAIN g <=> v = u
<1> DEFINE details == [creator |-> u, date |-> d, attendance |-> a, filesize |-> s]
           g == Tree(f, ops, Len(ops))
<1>1. details \in Details
  BY DEF Details
<1>2. /\ ops \in Seq(Fitting) /\ Len(ops) \in Nat /\ Len(ops) >= 9
      /\ ops[3] = put(event_dir(n), Empty) /\ ops[4] = put(event_reservations_dir(n), Empty)
      /\ ops[6] = put(event_total_res_path(n), 0) /\ ops[8] = put(event_details_path(n), details)
      /\ ops[9] = put(user_event_path(u, n), Empty)
  BY DEF Creates
<1>3. ASSUME NEW i \in 1..Len(ops)
      PROVE  /\ i <= 2 => ops[i].path = event_count_path
             /\ i > 2 => About(ops[i].path, n) /\ ops[i].path[1] \notin {"event_res", "user_res"}
             /\ ops[i].path = event_details_path(n) => i \in {7, 8}
             /\ ops[i].path = event_total_res_path(n) => i \in {5, 6}
             /\ ops[i].path[1] = "user_event" => i = 9
             /\ ops[i].content # Gone
  BY <1>1, CreatePaths
<1> HIDE DEF details
<1>4. ASSUME NEW i \in 1..Len(ops), NEW x
      PROVE  Concerns(ops[i], x) <=> ops[i].path = x
  BY <1>3, PutParts DEF Concerns
<1>5. ASSUME NEW i \in 1..Len(ops), NEW x, ops[i].path = x
      PROVE  x \in DOMAIN g
  <2>1. i \in 1..Len(ops) /\ Concerns(ops[i], x)
    BY <1>4, <1>5
  <2>2. QED
    BY <1>2, <1>3, <2>1, Stays
<1>6. ASSUME NEW i \in 1..Len(ops), NEW x, ops[i].path = x,
             \A j \in 1..Len(ops) : j > i => ops[j].path # x
      PROVE  x \in DOMAIN g /\ g[x] = ops[i].content
  <2>1. LeftAt(g, x, ops[i].content)
    BY <1>2, <1>4, <1>6, LastLeft
  <2>2. QED
    BY <1>3, <2>1 DEF LeftAt
<1>7. ASSUME NEW x, About(x, n), \A i \in 1..Len(ops) : ops[i].path # x
      PROVE  x \notin DOMAIN g
  BY <1>2, <1>7, TreeHolds
<1> HIDE DEF g
<1>8. 3 \in 1..Len(ops) /\ 4 \in 1..Len(ops) /\ 6 \in 1..Len(ops) /\ 8 \in 1..Len(ops) /\ 9 \in 1..Len(ops)
  BY <1>2
<1>9. event_dir(n) \in DOMAIN g /\ event_reservations_dir(n) \in DOMAIN g
  BY <1>2, <1>5, <1>8, PutParts
<1>10. event_details_path(n) \in DOMAIN g /\ g[event_details_path(n)] = details
  <2>1. \A j \in 1..Len(ops) : j > 8 => ops[j].path # event_details_path(n)
    BY <1>3
  <2>2. QED
    BY <1>2, <1>6, <1>8, <2>1, PutParts
<1>11. event_total_res_path(n) \in DOMAIN g /\ g[event_total_res_path(n)] = 0
  <2>1. \A j \in 1..Len(ops) : j > 6 => ops[j].path # event_total_res_path(n)
    BY <1>3
  <2>2. QED
    BY <1>2, <1>6, <1>8, <2>1, PutParts
<1>12. ASSUME NEW i \in 1..Len(ops)
       PROVE  ops[i].path[1] \notin {"event_res", "user_res"}
  <2>1. i <= 2 \/ i > 2
    OBVIOUS
  <2>2. QED
    BY <1>3, <2>1, FirstParts
<1>13. ASSUME NEW t, NEW v
       PROVE  event_res_path(n, t, v) \notin DOMAIN g /\ user_res_path(v, t, n) \notin DOMAIN g
  <2>1. About(event_res_path(n, t, v), n) /\ About(user_res_path(v, t, n), n)
    BY FirstParts, OtherParts DEF About, InEventDir
  <2>2. QED
    BY <1>7, <1>12, <2>1, FirstParts
<1>14. user_event_path(u, n) \in DOMAIN g
  BY <1>2, <1>5, <1>8, PutParts
<1>15. ASSUME NEW v, user_event_path(v, n) \in DOMAIN g
       PROVE  v = u
  <2>1. About(user_event_path(v, n), n)
    BY FirstParts, OtherParts DEF About, InEventDir
  <2>2. PICK i \in 1..Len(ops) : ops[i].path = user_event_path(v, n)
    BY <1>7, <1>15, <2>1
  <2>3. i = 9
    BY <1>3, <2>2, FirstParts
  <2>4. user_event_path(v, n) = user_event_path(u, n)
    BY <1>2, <2>2, <2>3, PutParts
  <2>5. user_event_path(v, n)[3] = v /\ user_event_path(u, n)[3] = u
    BY OtherParts
  <2>6. QED
    BY <2>4, <2>5
<1>16. QED
  BY <1>9, <1>10, <1>11, <1>13, <1>14, <1>15 DEF ApplyAll, g, details

LEMMA IntactCreating ==
    ASSUME NEW f, NEW n \in EIDs, \A x \in DOMAIN f : ~About(x, n),
           NEW u \in UIDs, NEW d \in Times, NEW a \in Attendances, NEW s \in FileSizes,
           NEW ops, Creates(ops, n, u, d, a, s), NEW e \in EIDs, Intact(f, e)
    PROVE  Intact(ApplyAll(f, ops), e)
<1> DEFINE details == [creator |-> u, date |-> d, attendance |-> a, filesize |-> s]
           g == ApplyAll(f, ops)
<1>1. details \in Details /\ details.creator = u /\ details.attendance = a
  BY DEF Details
<1>2. ops \in Seq(Fitting) /\ Len(ops) \in Nat /\ Len(ops) >= 9
  BY DEF Creates
<1>3. CASE e # n
  <2>1. ASSUME NEW i \in 1..Len(ops)
        PROVE  ~About(ops[i].path, e)
    <3>1. ops[i].path = event_count_path \/ About(ops[i].path, n)
      <4>1. i <= 2 \/ i > 2
        OBVIOUS
      <4>2. QED
        BY <1>1, <4>1, CreatePaths
    <3>2. QED
      BY <1>3, <3>1, PathsApart
  <2>2. QED
    BY <1>2, <2>1, IntactElsewhere
<1>4. CASE e = n /\ ops[Len(ops)] = remove(event_dir(n))
  <2>1. Len(ops) \in 1..Len(ops) /\ \A j \in 1..Len(ops) : ~(j > Len(ops))
    BY <1>2
  <2>2. Concerns(ops[Len(ops)], event_dir(n)) /\ ops[Len(ops)].content = Gone
    BY <1>4, PutParts DEF Concerns
  <2>3. LeftAt(Tree(f, ops, Len(ops)), event_dir(n), Gone)
    BY <1>2, <2>1, <2>2, LastLeft
  <2>4. QED
    BY <1>4, <2>3 DEF LeftAt, ApplyAll, Intact
<1>5. CASE e = n /\ ops[Len(ops)] # remove(event_dir(n))
  <2>1. /\ event_dir(n) \in DOMAIN g /\ event_reservations_dir(n) \in DOMAIN g
        /\ event_details_path(n) \in DOMAIN g /\ g[event_details_path(n)] = details
        /\ event_total_res_path(n) \in DOMAIN g /\ g[event_total_res_path(n)] = 0
        /\ \A t, v : event_res_path(n, t, v) \notin DOMAIN g /\ user_res_path(v, t, n) \notin DOMAIN g
        /\ \A v : user_event_path(v, n) \in DOMAIN g <=> v = u
    BY <1>5, Created
  <2> HIDE DEF g, details
  <2>2. Whole(g, event_details_path(n)) /\ Whole(g, event_total_res_path(n))
    BY <1>1, <2>1, MarkersApart DEF Whole
  <2>3. \A t, v : /\ Content(g, event_res_path(n, t, v), << >>) = << >>
                  /\ Content(g, user_res_path(v, t, n), << >>) = << >>
    BY <2>1 DEF Content
  <2>4. Reservations(g, n) = [x \in Times \X UIDs |-> << >>]
    BY <2>3 DEF Reservations
  <2>5. IsFiniteSet(SeatsIn(Reservations(g, n))) /\ Cardinality(SeatsIn(Reservations(g, n))) = 0
    BY <2>4, SeatsInEmpty, FS_EmptySet
  <2>6. 0 <= a
    BY SeatLimits
  <2>7. Intact(g, n)
    BY <1>1, <2>1, <2>2, <2>3, <2>5, <2>6 DEF Intact
  <2>8. QED
    BY <1>5, <2>7 DEF g
<1>6. QED
  BY <1>3, <1>4, <1>5

\* What a reservation leaves, of an event that has the directory for it.
LEMMA Reserved ==
    ASSUME WellFormed(files), now \in Times, NEW u \in UIDs, NEW e \in EIDs, NEW n \in Nat,
           event[e].sold \in Int, event_reservations_dir(e) \in DOMAIN files
    PROVE  LET g == ApplyAll(files, reserve(u, e, n))
               mine == user_res_path(u, now, e)
               its == event_res_path(e, now, u)
               total == event_total_res_path(e)
           IN  /\ \A x : x \notin {mine, its, total} => SameAt(files, g, x)
               /\ LeftAt(g, total, event[e].sold + n)
               /\ LeftAt(g, mine, Append(Content(files, mine, << >>), n))
               /\ LeftAt(g, its, Append(Content(files, its, << >>), n))
<1> DEFINE ops == reserve(u, e, n)
           mine == user_res_path(u, now, e)
           its == event_res_path(e, now, u)
           held == Content(files, mine, << >>)
           old == Content(files, its, << >>)
           total == event_total_res_path(e)
           sum == event[e].sold + n
           g == Tree(files, ops, Len(ops))
<1>1. /\ ops \in Seq(Fitting) /\ ops[1] = put(total, Empty) /\ ops[2] = put(total, sum)
      /\ ops[3] = put(mine, held) /\ ops[Len(ops)] = put(mine, Append(held, n))
      /\ Len(ops) = 6 /\ ops[4] = put(its, old) /\ ops[5] = put(its, Append(old, n))
  BY ReserveOperations
<1>2. held \in Seq(Nat) /\ old \in Seq(Nat)
  BY PathsOfEvents, ReservationFile, FirstParts
<1>3. Append(held, n) \in Seq(Nat) /\ Append(old, n) \in Seq(Nat) /\ sum \in Int
  BY <1>2
<1>4. mine # its /\ mine # total /\ its # total
  BY FirstParts
<1> HIDE DEF ops, held, old, sum, mine, its, total
<1>5. /\ Empty # Gone /\ held # Gone /\ old # Gone /\ sum # Gone
      /\ Append(held, n) # Gone /\ Append(old, n) # Gone
  BY <1>2, <1>3, MarkersApart
<1>6. \A i \in 1..6 : i = 1 \/ i = 2 \/ i = 3 \/ i = 4 \/ i = 5 \/ i = 6
  OBVIOUS
<1>7. /\ \A x : /\ Concerns(ops[1], x) <=> x = total
                /\ Concerns(ops[2], x) <=> x = total
                /\ Concerns(ops[3], x) <=> x = mine
                /\ Concerns(ops[4], x) <=> x = its
                /\ Concerns(ops[5], x) <=> x = its
                /\ Concerns(ops[6], x) <=> x = mine
      /\ ops[2].content = sum /\ ops[5].content = Append(old, n) /\ ops[6].content = Append(held, n)
  <2>1. ops[6] = put(mine, Append(held, n))
    <3>1. Len(ops) = 6 /\ ops[Len(ops)] = put(mine, Append(held, n))
      BY <1>1
    <3>2. QED
      BY <3>1, Zenon
  <2>2. /\ ops[1] = put(total, Empty) /\ ops[2] = put(total, sum) /\ ops[3] = put(mine, held)
        /\ ops[4] = put(its, old) /\ ops[5] = put(its, Append(old, n))
    BY <1>1
  <2>3. ASSUME NEW y, NEW c, c # Gone
        PROVE  (\A x : Concerns(put(y, c), x) <=> x = y) /\ put(y, c).content = c
    BY <2>3, ConcernsPut, PutParts
  <2>4. /\ \A x : /\ Concerns(put(total, Empty), x) <=> x = total
                  /\ Concerns(put(total, sum), x) <=> x = total
                  /\ Concerns(put(mine, held), x) <=> x = mine
                  /\ Concerns(put(its, old), x) <=> x = its
                  /\ Concerns(put(its, Append(old, n)), x) <=> x = its
                  /\ Concerns(put(mine, Append(held, n)), x) <=> x = mine
        /\ put(total, sum).content = sum /\ put(its, Append(old, n)).content = Append(old, n)
        /\ put(mine, Append(held, n)).content = Append(held, n)
    BY <1>5, <2>3, Zenon
  <2>5. QED
    BY <2>1, <2>2, <2>4, Zenon
<1>8. Len(ops) = 6 /\ 6 \in Nat
  BY <1>1
<1> HIDE DEF g
<1>9. ASSUME NEW x, x \notin {mine, its, total}
       PROVE  SameAt(files, g, x)
  <2>1. \A i \in 1..6 : ~Concerns(ops[i], x)
    BY <1>6, <1>7, <1>9, Zenon
  <2>2. QED
    BY <1>8, <2>1, Untouched DEF g
<1>10. LeftAt(g, total, sum)
  <2>1. \A j \in 1..6 : j > 2 => j = 3 \/ j = 4 \/ j = 5 \/ j = 6
    OBVIOUS
  <2>2. \A j \in 1..6 : j > 2 => ~Concerns(ops[j], total)
    BY <1>4, <1>7, <2>1, Zenon
  <2>3. Concerns(ops[2], total) /\ 2 \in 1..6
    BY <1>7
  <2>4. LeftAt(Tree(files, ops, 6), total, ops[2].content)
    BY <1>8, <2>2, <2>3, LastLeft
  <2>5. QED
    BY <1>7, <1>8, <2>4 DEF g
<1>11. LeftAt(g, its, Append(old, n))
  <2>1. \A j \in 1..6 : j > 5 => j = 6
    OBVIOUS
  <2>2. \A j \in 1..6 : j > 5 => ~Concerns(ops[j], its)
    BY <1>4, <1>7, <2>1, Zenon
  <2>3. Concerns(ops[5], its) /\ 5 \in 1..6
    BY <1>7
  <2>4. LeftAt(Tree(files, ops, 6), its, ops[5].content)
    BY <1>8, <2>2, <2>3, LastLeft
  <2>5. QED
    BY <1>7, <1>8, <2>4 DEF g
<1>12. LeftAt(g, mine, Append(held, n))
  <2>1. \A j \in 1..6 : ~(j > 6)
    OBVIOUS
  <2>2. Concerns(ops[6], mine) /\ 6 \in 1..6
    BY <1>7
  <2>3. LeftAt(Tree(files, ops, 6), mine, ops[6].content)
    BY <1>8, <2>1, <2>2, LastLeft
  <2>4. QED
    BY <1>7, <1>8, <2>3 DEF g
<1>13. QED
  BY <1>9, <1>10, <1>11, <1>12 DEF g, ApplyAll, ops, mine, its, total, held, old, sum

LEMMA IntactBooking ==
    ASSUME IInv, Idle, NEW ops \in Seq(Fitting), Booking(ops), NEW e \in EIDs, Intact(files, e)
    PROVE  Intact(ApplyAll(files, ops), e)
<1>1. WellFormed(files) /\ event = Events(files) /\ now \in Times
  BY Found DEF Idle, Sees, IInv
<1>2. PICK u \in UIDs, p \in Passwords, b \in EIDs, n \in Seats :
         Store!reserve(u, p, b, n) = "ACC" /\ ops = reserve(u, b, n)
  BY DEF Booking
<1>3. CASE e # b
  <2>1. \A i \in 1..Len(ops) :
           ops[i].path \in {event_total_res_path(b), user_res_path(u, now, b), event_res_path(b, now, u)}
    BY <1>2, BookingFacts
  <2>2. \A i \in 1..Len(ops) : About(ops[i].path, b)
    BY <1>1, <2>1, PathsApart
  <2>3. \A i \in 1..Len(ops) : ~About(ops[i].path, e)
    BY <1>3, <2>2, PathsApart
  <2>4. QED
    BY <2>3, IntactElsewhere
<1>4. CASE e = b
  <2> DEFINE g == ApplyAll(files, ops)
             mine == user_res_path(u, now, e)
             its == event_res_path(e, now, u)
             total == event_total_res_path(e)
             r == Reservations(files, e)
             sum == event[e].sold + n
  <2>1. /\ n \in Nat /\ event[e].sold \in Int /\ event_dir(e) \in DOMAIN files
        /\ Whole(files, total) => event[e].sold = files[total]
        /\ sum <= files[event_details_path(e)].attendance
    BY <1>1, <1>2, <1>4, ReserveGuard
  <2>2. /\ Whole(files, event_details_path(e)) /\ Whole(files, total)
        /\ event_reservations_dir(e) \in DOMAIN files
        /\ IsFiniteSet(SeatsIn(r))
        /\ files[total] = Cardinality(SeatsIn(r))
        /\ \A t \in Times, v \in UIDs :
              Content(files, event_res_path(e, t, v), << >>) = Content(files, user_res_path(v, t, e), << >>)
        /\ \A v \in UIDs :
              user_event_path(v, e) \in DOMAIN files <=> v = files[event_details_path(e)].creator
    BY <2>1 DEF Intact
  <2>3. /\ \A x : x \notin {mine, its, total} => SameAt(files, g, x)
        /\ LeftAt(g, total, sum)
        /\ LeftAt(g, mine, Append(Content(files, mine, << >>), n))
        /\ LeftAt(g, its, Append(Content(files, its, << >>), n))
    BY <1>1, <1>2, <1>4, <2>1, <2>2, Reserved
  <2> HIDE DEF g
  <2>4. sum \in Int /\ sum # Gone /\ sum # Empty
    <3>1. n \in Nat /\ event[e].sold \in Int
      BY <2>1
    <3>2. sum \in Int
      BY <3>1
    <3>3. QED
      BY <3>2, MarkersApart, Zenon
  <2>5. total \in DOMAIN g /\ g[total] = sum
    BY <2>3, <2>4 DEF LeftAt
  <2>6. ASSUME NEW t \in Times, NEW v \in UIDs, t # now \/ v # u
        PROVE  /\ Content(g, event_res_path(e, t, v), << >>) = Content(files, event_res_path(e, t, v), << >>)
               /\ Content(g, user_res_path(v, t, e), << >>) = Content(files, user_res_path(v, t, e), << >>)
    <3>1. event_res_path(e, t, v) \notin {mine, its, total} /\ user_res_path(v, t, e) \notin {mine, its, total}
      BY <2>6, FirstParts, OtherParts
    <3>2. SameAt(files, g, event_res_path(e, t, v)) /\ SameAt(files, g, user_res_path(v, t, e))
      BY <2>3, <3>1
    <3>3. Content(g, event_res_path(e, t, v), << >>) = Content(files, event_res_path(e, t, v), << >>)
      BY <3>2, SameContent
    <3>4. Content(g, user_res_path(v, t, e), << >>) = Content(files, user_res_path(v, t, e), << >>)
      BY <3>2, SameContent
    <3>5. QED
      BY <3>3, <3>4
  <2>7. /\ Content(g, its, << >>) = Append(Content(files, its, << >>), n)
        /\ Content(g, mine, << >>) = Append(Content(files, mine, << >>), n)
    <3>1. Content(files, its, << >>) \in Seq(Nat) /\ Content(files, mine, << >>) \in Seq(Nat)
      BY <1>1, PathsOfEvents, ReservationFile, FirstParts
    <3>2. Append(Content(files, its, << >>), n) # Gone /\ Append(Content(files, mine, << >>), n) # Gone
      <4>1. n \in Nat
        BY <2>1
      <4>2. Append(Content(files, its, << >>), n) \in Seq(Nat) /\ Append(Content(files, mine, << >>), n) \in Seq(Nat)
        BY <3>1, <4>1
      <4>3. QED
        BY <4>2, MarkersApart, Zenon
    <3>3. QED
      BY <2>3, <3>2 DEF LeftAt, Content
  <2>8. Reservations(g, e) = Recorded(r, <<now, u>>, n)
    BY <1>1, <2>6, <2>7, OneFileMore
  <2>9. /\ IsFiniteSet(SeatsIn(Reservations(g, e)))
        /\ Cardinality(SeatsIn(Reservations(g, e))) = Cardinality(SeatsIn(r)) + n
    <3>1. r \in [Times \X UIDs -> Seq(Nat)] /\ <<now, u>> \in Times \X UIDs
      BY <1>1, ReservationsType
    <3>2. n \in Nat /\ IsFiniteSet(SeatsIn(r))
      BY <2>1, <2>2
    <3> HIDE DEF r
    <3>3. /\ IsFiniteSet(SeatsIn(Recorded(r, <<now, u>>, n)))
          /\ Cardinality(SeatsIn(Recorded(r, <<now, u>>, n))) = Cardinality(SeatsIn(r)) + n
      BY <3>1, <3>2, SeatsInRecorded
    <3>4. QED
      BY <2>8, <3>3
  <2>10. /\ SameAt(files, g, event_details_path(e)) /\ SameAt(files, g, event_dir(e))
         /\ SameAt(files, g, event_reservations_dir(e))
         /\ \A v \in UIDs : SameAt(files, g, user_event_path(v, e))
    BY <2>3, FirstParts
  <2>11. ASSUME NEW t \in Times, NEW v \in UIDs
         PROVE  Content(g, event_res_path(e, t, v), << >>) = Content(g, user_res_path(v, t, e), << >>)
    <3>1. CASE t = now /\ v = u
      BY <1>1, <2>2, <2>7, <3>1
    <3>2. CASE t # now \/ v # u
      BY <2>2, <2>6, <3>2
    <3>3. QED
      BY <3>1, <3>2
  <2>12. /\ Whole(g, event_details_path(e)) /\ g[event_details_path(e)] = files[event_details_path(e)]
         /\ event_reservations_dir(e) \in DOMAIN g
    BY <2>2, <2>10 DEF SameAt, Whole
  <2>13. ASSUME NEW v \in UIDs
         PROVE  user_event_path(v, e) \in DOMAIN g <=> v = g[event_details_path(e)].creator
    <3>1. SameAt(files, g, user_event_path(v, e))
      BY <2>10
    <3>2. user_event_path(v, e) \in DOMAIN g <=> user_event_path(v, e) \in DOMAIN files
      BY <3>1 DEF SameAt
    <3>3. QED
      BY <2>2, <2>12, <3>2
  <2>14. /\ Whole(g, total) /\ g[total] = Cardinality(SeatsIn(Reservations(g, e)))
         /\ g[total] <= g[event_details_path(e)].attendance
    BY <2>1, <2>2, <2>4, <2>5, <2>9, <2>12 DEF Whole
  <2>15. Intact(g, e)
    BY <2>9, <2>11, <2>12, <2>13, <2>14 DEF Intact
  <2>16. QED
    BY <2>15 DEF g
<1>5. QED
  BY <1>3, <1>4

LEMMA KindsUnhurt ==
    ASSUME IInv, IInv', Unhurt, Idle, NEW ops, Begin(ops), Kinds(ops)
    PROVE  Unhurt'
<1>1. /\ files' = files /\ todo' = ops /\ hurt' = hurt /\ ops \in Seq(Fitting)
      /\ ApplyAll(files, todo) = files
  BY Found DEF Begin, Idle, IInv, Safe
<1>2. ASSUME NEW e \in EIDs, Intact(files, e)
      PROVE  Intact(ApplyAll(files, ops), e)
  <2>1. CASE Accounting(ops)
    BY <1>1, <1>2, <2>1, IntactElsewhere DEF Accounting
  <2>2. CASE Describing(ops)
    BY <1>2, <2>2, IntactDescribing
  <2>3. CASE Destroying(ops)
    BY <1>1, <1>2, <2>3, IntactDestroying
  <2>4. CASE Booking(ops)
    BY <1>1, <1>2, <2>4, IntactBooking
  <2>5. CASE Creating(ops) /\ lastEvent + 1 \in EIDs /\ \A x \in DOMAIN files : ~About(x, lastEvent + 1)
    <3>1. PICK u \in UIDs, d \in Times, a \in Attendances, s \in FileSizes :
             Creates(ops, lastEvent + 1, u, d, a, s)
      BY <2>5 DEF Creating
    <3>2. QED
      BY <1>2, <2>5, <3>1, IntactCreating
  <2>6. QED
    BY <2>1, <2>2, <2>3, <2>4, <2>5 DEF Kinds
<1>3. QED
  BY <1>1, <1>2 DEF Unhurt

LEMMA CrashUnhurt ==
    ASSUME IInv, Unhurt, Crash
    PROVE  Unhurt'
<1>1. /\ files' = files /\ todo' = << >>
      /\ hurt' = hurt \cup {Subject(todo[i].path) : i \in DOMAIN todo}
  BY DEF Crash
<1>2. todo \in Seq(Fitting) /\ WellFormed(files)
  BY DEF IInv, Safe
<1>3. ApplyAll(files, << >>) = files
  <2>1. Tree(files, << >>, 0) = files /\ Len(<< >>) = 0
    BY <1>2, NothingDone DEF WellFormed
  <2>2. QED
    BY <2>1 DEF ApplyAll
<1>4. ASSUME NEW e \in EIDs \ hurt'
      PROVE  Intact(files, e)
  <2> DEFINE g == ApplyAll(files, todo)
  <2>1. Intact(g, e)
    BY <1>1, <1>4 DEF Unhurt
  <2>2. ASSUME NEW i \in 1..Len(todo), About(todo[i].path, e)
        PROVE  FALSE
    <3>1. Subject(todo[i].path) = e
      BY <2>2 DEF Subject, About, InEventDir
    <3>2. i \in DOMAIN todo
      BY <1>2
    <3>3. QED
      BY <1>1, <1>4, <3>1, <3>2
  <2>3. Len(todo) \in Nat
    BY <1>2
  <2>4. \A x : About(x, e) => SameAt(files, g, x)
    BY <2>2, <2>3, Elsewhere DEF ApplyAll
  <2> HIDE DEF g
  <2>5. \A x : About(x, e) => SameAt(g, files, x)
    BY <2>4 DEF SameAt
  <2>6. QED
    BY <2>1, <2>5, SameIntact
<1>5. QED
  BY <1>1, <1>3, <1>4 DEF Unhurt

LEMMA StartUnhurt ==
    ASSUME IInv, IInv', Unhurt, Start
    PROVE  Unhurt'
<1>1. /\ ~up /\ todo' = start_up(files) /\ files' = files /\ hurt' = hurt
  BY DEF Start
<1>2. ApplyAll(files, todo) = files /\ todo' \in Seq(Fitting)
  BY <1>1, Found DEF IInv, Safe
<1>3. \A i \in 1..Len(todo') : todo'[i].path = event_count_path
  <2>1. CASE event_count_path \in DOMAIN files
    BY <1>1, <2>1 DEF start_up
  <2>2. CASE event_count_path \notin DOMAIN files
    <3>1. todo' = <<put(event_count_path, Empty), put(event_count_path, 0)>>
      BY <1>1, <2>2 DEF start_up
    <3>2. \A i \in 1..2 : i = 1 \/ i = 2
      OBVIOUS
    <3>3. QED
      BY <3>1, <3>2, PutParts
  <2>3. QED
    BY <2>1, <2>2
<1>4. ASSUME NEW e \in EIDs, Intact(files, e)
      PROVE  Intact(ApplyAll(files, todo'), e)
  <2>1. \A i \in 1..Len(todo') : ~About(todo'[i].path, e)
    BY <1>3, PathsApart
  <2>2. QED
    BY <1>2, <1>4, <2>1, IntactElsewhere
<1>5. QED
  BY <1>1, <1>2, <1>4 DEF Unhurt

LEMMA NextUnhurt == IInv /\ IInv' /\ Unhurt /\ [Next]_vars => Unhurt'
<1> SUFFICES ASSUME IInv, IInv', Unhurt, [Next]_vars
             PROVE  Unhurt'
  OBVIOUS
<1>1. CASE Handle
  <2>1. CASE \E ops : Begin(ops) /\ Kinds(ops)
    <3>1. Idle
      BY <1>1 DEF Handle
    <3>2. QED
      BY <2>1, <3>1, KindsUnhurt
  <2>2. CASE UNCHANGED <<files, todo, hurt, view>>
    BY <2>2 DEF Unhurt
  <2>3. QED
    BY <1>1, <2>1, <2>2, HandleKinds
<1>2. CASE Write
  <2>1. ApplyAll(files', todo') = ApplyAll(files, todo) /\ hurt' = hurt
    BY <1>2, WriteKeeps DEF Write
  <2>2. QED
    BY <2>1 DEF Unhurt
<1>3. CASE Tick \/ UNCHANGED vars
  <2>1. files' = files /\ todo' = todo /\ hurt' = hurt
    BY <1>3 DEF Tick, vars
  <2>2. QED
    BY <2>1 DEF Unhurt
<1>4. QED
  BY <1>1, <1>2, <1>3, CrashUnhurt, StartUnhurt DEF Next

LEMMA InitUnhurt == Init => Unhurt
<1> SUFFICES ASSUME Init, NEW e \in EIDs
             PROVE  Intact(ApplyAll(files, todo), e)
  BY DEF Unhurt
<1>1. ApplyAll(files, todo) = files
  BY InitInv, Found DEF Init
<1>2. event_dir(e) \notin DOMAIN files
  BY DEF Init
<1>3. QED
  BY <1>1, <1>2 DEF Intact

\* An event that no interrupted handler was about is whole once the running
\* handler has ended: reserve, close_event and the creates write nothing of it
\* but what belongs to it, and a directory that is removed is removed entirely.
THEOREM UnhurtStays == Spec => []Unhurt
<1>1. QED
  BY Invariant, InitUnhurt, NextUnhurt, PTL DEF Spec

\* Rest's properties, of the events it ranges over.
LEMMA RestCount ==
    ASSUME NEW S
    PROVE  Rest!Cardinality(S) = Cardinality(S)
BY DEF Rest!Cardinality, Cardinality

LEMMA RestSeats ==
    ASSUME NEW r
    PROVE  Rest!SeatsIn(r) = SeatsIn(r)
BY DEF Rest!SeatsIn, Rest!SeatBlock, SeatsIn, SeatBlock

LEMMA RestConserved ==
    ASSUME \A e \in DOMAIN event \ hurt :
              /\ event[e].sold = Cardinality(SeatsIn(event[e].reservations))
              /\ event[e].sold <= event[e].attendance
    PROVE  Rest!SeatsConserved
BY RestCount, RestSeats DEF Rest!SeatsConserved

LEMMA RestLedgers ==
    ASSUME \A e \in DOMAIN event \ hurt, u \in UIDs, t \in Times :
              event[e].reservations[<<t, u>>] = userRes[u][<<t, e>>]
    PROVE  Rest!LedgersAgree
BY Zenon DEF Rest!LedgersAgree, Rest!Times, Times

LEMMA RestListed ==
    ASSUME \A e \in DOMAIN event \ hurt : {u \in UIDs : e \in userEvents[u]} = {event[e].creator},
           \A u \in UIDs : userEvents[u] \subseteq 1..lastEvent,
           DOMAIN event \ hurt \subseteq 1..lastEvent
    PROVE  Rest!EventsListedOnce
BY DEF Rest!EventsListedOnce

\* A handler cut short damages the event it was about and nothing else: on every
\* other event, after any further crashes and requests, the seats sold are the
\* seats recorded, both copies of each reservation file agree, and exactly the
\* creator lists it under an issued number.
THEOREM Damage == Spec => []DamageStaysLocal
<1>1. IInv /\ Unhurt => DamageStaysLocal
  <2> SUFFICES ASSUME IInv, Unhurt
               PROVE  DamageStaysLocal
    OBVIOUS
  <2> DEFINE g == ApplyAll(files, todo)
  <2>1. Sees(g)
    BY DEF IInv
  <2>2. Numbered(g) /\ WellFormed(g)
    <3>1. todo \in Seq(Fitting) /\ Len(todo) \in 0..Len(todo)
      BY DEF IInv, Safe
    <3>2. QED
      BY <3>1, TreeWellFormed DEF IInv, Safe, ApplyAll
  <2> HIDE DEF g
  <2>3. ASSUME NEW e \in DOMAIN event \ hurt
        PROVE  /\ e \in EIDs /\ event_dir(e) \in DOMAIN g /\ event[e] = EventRecord(g, e)
               /\ Whole(g, event_details_path(e)) /\ Whole(g, event_total_res_path(e))
               /\ g[event_total_res_path(e)] = Cardinality(SeatsIn(Reservations(g, e)))
               /\ g[event_total_res_path(e)] <= g[event_details_path(e)].attendance
               /\ \A t \in Times, u \in UIDs :
                     Content(g, event_res_path(e, t, u), << >>) = Content(g, user_res_path(u, t, e), << >>)
               /\ \A u \in UIDs :
                     user_event_path(u, e) \in DOMAIN g <=> u = g[event_details_path(e)].creator
               /\ e <= LastEvent(g) /\ g[event_details_path(e)] \in Details
    <3>1. e \in EIDs /\ event_dir(e) \in DOMAIN g /\ event[e] = EventRecord(g, e)
      BY <2>1 DEF Sees, Events
    <3>2. Intact(g, e)
      BY <3>1 DEF Unhurt, g
    <3>3. e <= LastEvent(g)
      BY <2>2, <3>1, PathsBelow, PathsApart DEF Numbered
    <3>4. Whole(g, event_details_path(e))
      BY <3>1, <3>2 DEF Intact
    <3>5. g[event_details_path(e)] \in Details
      BY <2>2, <3>4, KindsOfContent DEF WellFormed, Whole
    <3>6. QED
      BY <3>1, <3>2, <3>3, <3>5 DEF Intact
  <2>4. ASSUME NEW e \in DOMAIN event \ hurt
        PROVE  /\ event[e].sold = g[event_total_res_path(e)]
               /\ event[e].attendance = g[event_details_path(e)].attendance
               /\ event[e].creator = g[event_details_path(e)].creator
               /\ event[e].reservations = Reservations(g, e)
    <3>1. event[e] = EventRecord(g, e) /\ Whole(g, event_details_path(e)) /\ Whole(g, event_total_res_path(e))
      BY <2>3
    <3>2. event[e].sold = g[event_total_res_path(e)]
      BY <3>1 DEF EventRecord
    <3>3. event[e].attendance = g[event_details_path(e)].attendance
      BY <3>1 DEF EventRecord
    <3>4. event[e].creator = g[event_details_path(e)].creator
      BY <3>1 DEF EventRecord
    <3>5. event[e].reservations = Reservations(g, e)
      BY <3>1 DEF EventRecord, Reservations
    <3>6. QED
      BY <3>2, <3>3, <3>4, <3>5
  <2>5. Rest!SeatsConserved
    BY <2>3, <2>4, RestConserved
  <2>6. Rest!LedgersAgree
    <3>1. ASSUME NEW e \in DOMAIN event \ hurt, NEW u \in UIDs, NEW t \in Times
          PROVE  event[e].reservations[<<t, u>>] = userRes[u][<<t, e>>]
      <4>1. event[e].reservations[<<t, u>>] = Content(g, event_res_path(e, t, u), << >>)
        BY <2>4 DEF Reservations
      <4>2. userRes[u][<<t, e>>] = Content(g, user_res_path(u, t, e), << >>)
        BY <2>1, <2>3 DEF Sees, UserRes
      <4>3. QED
        BY <2>3, <4>1, <4>2
    <3>2. QED
      BY <3>1, RestLedgers
  <2>7. Rest!EventsListedOnce
    <3>1. \A u \in UIDs : \A e : e \in userEvents[u] <=> e \in EIDs /\ user_event_path(u, e) \in DOMAIN g
      BY <2>1 DEF Sees, UserEvents
    <3>2. ASSUME NEW e \in DOMAIN event \ hurt
          PROVE  {u \in UIDs : e \in userEvents[u]} = {event[e].creator}
      <4>1. event[e].creator \in UIDs
        BY <2>3, <2>4 DEF Details
      <4>2. \A u \in UIDs : e \in userEvents[u] <=> u = event[e].creator
        BY <2>3, <2>4, <3>1
      <4>3. QED
        BY <4>1, <4>2
    <3>3. ASSUME NEW e \in EIDs, e <= LastEvent(g)
          PROVE  e \in 1..lastEvent
      <4>1. lastEvent = LastEvent(g) /\ LastEvent(g) \in 0..MaxEvents /\ MaxEvents \in Nat
        BY <2>1, <2>2, LastEventType, LimitAssumption DEF Sees
      <4>2. QED
        BY <3>3, <4>1 DEF EIDs
    <3>4. ASSUME NEW u \in UIDs, NEW e \in userEvents[u]
          PROVE  e \in 1..lastEvent
      <4>1. e \in EIDs /\ user_event_path(u, e) \in DOMAIN g
        BY <3>1
      <4>2. About(user_event_path(u, e), e)
        BY FirstParts, OtherParts DEF About
      <4>3. QED
        BY <2>2, <3>3, <4>1, <4>2 DEF Numbered
    <3>5. DOMAIN event \ hurt \subseteq 1..lastEvent
      BY <2>3, <3>3
    <3>6. QED
      BY <3>2, <3>4, <3>5, RestListed
  <2>8. QED
    BY <2>5, <2>6, <2>7 DEF DamageStaysLocal
<1>2. QED
  BY <1>1, Invariant, UnhurtStays, PTL
=============================================================================
