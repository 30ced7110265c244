-------------------------- MODULE SelectLoopProofs --------------------------
(***************************************************************************)
(* What is proved about SelectLoop for any number of clients, descriptors  *)
(* and admitted connections, and whatever times out or grows too large.    *)
(***************************************************************************)
EXTENDS SelectLoop, FiniteSetTheorems, WellFoundedInduction, TLAPS

\* The lowest descriptor of a set is one of the set.
LEMMA MinIsMember ==
    ASSUME NEW S \in SUBSET FDs, S # {}
    PROVE  Min(S) \in S
<1>1. S \subseteq Nat
  BY LoopAssumption DEF FDs
<1>2. PICK x \in S : \A y \in S : ~ (<<y, x>> \in OpToRel(<, Nat))
  <2>1. IsWellFoundedOn(OpToRel(<, Nat), Nat)
    BY NatLessThanWellFounded
  <2>2. QED
    BY <1>1, <2>1, WFMin
<1>3. \A y \in S : ~ (y < x)
  BY <1>1, <1>2 DEF OpToRel
<1>4. \A y \in S : x <= y
  BY <1>1, <1>3
<1>5. QED
  BY <1>4 DEF Min

LEMMA FreeIsFree ==
    ASSUME Free # {}
    PROVE  Min(Free) \in FDs /\ Min(Free) \notin DOMAIN sock /\ Min(Free) \notin files
BY MinIsMember DEF Free

-----------------------------------------------------------------------------
(***************************************************************************)
(* Types, and the maps kept per descriptor.  A request read enters the maps *)
(* under its descriptor, so what keeps them within the watched connections  *)
(* is that an open connection is a watched one, but for the one just        *)
(* accepted; that one is not watched because select() has seen that         *)
(* everything watched is open, and the process takes a free descriptor.     *)
(***************************************************************************)
Accepting == phase \in {"cleanup", "admit"}

SocketsAreWatched ==
    /\ DOMAIN sock \subseteq inputs \cup {current_fd}
    /\ IF Accepting THEN current_fd \in FDs ELSE current_fd = 0
    /\ phase = "write" => replying \in DOMAIN sock

Mapped == TypeOK /\ MapsFollowInputs /\ SocketsAreWatched

\* 0, standing for no connection, is not a descriptor.
LEMMA ZeroIsNone == 0 \notin FDs
BY LoopAssumption DEF FDs

LEMMA WatchedAreFinite ==
    ASSUME NEW S \in SUBSET FDs
    PROVE  IsFiniteSet(S) /\ Cardinality(S) \in Nat
<1>1. IsFiniteSet(FDs)
  BY FS_Interval, LoopAssumption DEF FDs
<1>2. QED
  BY <1>1, FS_Subset, FS_CardinalityType

LEMMA InitMapped == Init => Mapped
BY ZeroIsNone DEF Init, Mapped, TypeOK, MapsFollowInputs, SocketsAreWatched, Accepting

\* What disconnect_tcp leaves of the maps.
LEMMA DisconnectMapped ==
    ASSUME Mapped, NEW S \in SUBSET FDs, disconnect_tcp(S)
    PROVE  /\ inputs' \subseteq inputs
           /\ DOMAIN states' \subseteq FDs /\ states' \in [DOMAIN states' -> FDs]
           /\ tcp_buffers' \subseteq FDs
           /\ connection_start' \in [DOMAIN connection_start' -> BOOLEAN]
           /\ DOMAIN sock' \subseteq FDs /\ sock' \in [DOMAIN sock' -> Clients]
           /\ files' \subseteq FDs
           /\ sent' \subseteq Clients /\ gone' \subseteq Clients
           /\ DOMAIN connection_start' = inputs'
           /\ DOMAIN states' \subseteq inputs'
           /\ tcp_buffers' \subseteq inputs'
           /\ DOMAIN sock' \subseteq inputs' \cup {current_fd}
<1> USE DEF Mapped, TypeOK, MapsFollowInputs, SocketsAreWatched, disconnect_tcp
<1>1. DOMAIN states' = DOMAIN states \ S /\ states' \in [DOMAIN states' -> FDs]
  BY DEF Without, Restrict
<1>2. /\ DOMAIN connection_start' = DOMAIN connection_start \ S
      /\ connection_start' \in [DOMAIN connection_start' -> BOOLEAN]
  BY DEF Without, Restrict
<1>3. DOMAIN sock' = DOMAIN sock \ Closed(S) /\ sock' \in [DOMAIN sock' -> Clients]
  BY DEF Without, Restrict
<1>4. S \subseteq Closed(S)
  BY DEF Closed
<1>5. QED
  BY <1>1, <1>2, <1>3, <1>4

LEMMA AcceptMapped ==
    ASSUME Mapped, SelectFails \/ Select \/ SelectAndAccept \/ CleanUp \/ Refuse \/ Admit
    PROVE  Mapped'
<1> USE DEF Mapped, TypeOK, MapsFollowInputs, SocketsAreWatched, Accepting
<1>1. CASE SelectFails
  BY <1>1 DEF SelectFails
<1>2. CASE Select
  BY <1>2 DEF Select, Readable
<1>3. CASE SelectAndAccept
  <2>1. Min(Free) \in FDs /\ Min(Free) \notin inputs
    BY <1>3, FreeIsFree, MinIsMember DEF SelectAndAccept, Free
  <2>2. Head(backlog) \in Clients /\ Tail(backlog) \in Seq(Clients)
    BY <1>3 DEF SelectAndAccept
  <2>3. DOMAIN sock' \subseteq FDs /\ sock' \in [DOMAIN sock' -> Clients]
    BY <1>3, <2>1, <2>2 DEF SelectAndAccept, Put
  <2>4. testfds' \subseteq FDs
    BY <1>3 DEF SelectAndAccept, Readable
  <2>5. DOMAIN sock' \subseteq inputs \cup {Min(Free)}
    BY <1>3, ZeroIsNone DEF SelectAndAccept, Put
  <2>6. QED
    BY <1>3, <2>1, <2>2, <2>3, <2>4, <2>5 DEF SelectAndAccept
<1>4. CASE CleanUp
  <2>1. time_out \in SUBSET FDs
    BY DEF time_out
  <2>2. Cardinality(time_out) \in Nat
    BY <2>1, WatchedAreFinite
  <2>3. active_clients' \in Int
    BY <1>4, <2>2 DEF CleanUp
  <2>4. disconnect_tcp(time_out) /\ current_fd \in FDs
    BY <1>4 DEF CleanUp
  <2>5. QED
    BY <1>4, <2>1, <2>3, <2>4, DisconnectMapped DEF CleanUp
<1>5. CASE Refuse
  <2>1. DOMAIN sock' \subseteq FDs /\ sock' \in [DOMAIN sock' -> Clients]
    BY <1>5 DEF Refuse, Without, Restrict
  <2>2. DOMAIN sock' = DOMAIN sock \ {current_fd}
    BY <1>5 DEF Refuse, Without, Restrict
  <2>3. QED
    BY <1>5, <2>1, <2>2, ZeroIsNone DEF Refuse
<1>6. CASE Admit
  <2>1. current_fd \in FDs
    BY <1>6 DEF Admit
  <2>2. /\ DOMAIN connection_start' = inputs'
        /\ connection_start' \in [DOMAIN connection_start' -> BOOLEAN]
    BY <1>6 DEF Admit, Put
  <2>4. inputs' \subseteq FDs /\ 0 \notin inputs'
    BY <1>6, <2>1, ZeroIsNone DEF Admit
  <2>5. active_clients' \in Int /\ phase' \in {"select", "read"}
    BY <1>6 DEF Admit, After
  <2>6. QED
    BY <1>6, <2>2, <2>4, <2>5 DEF Admit
<1>7. QED
  BY <1>1, <1>2, <1>3, <1>4, <1>5, <1>6

LEMMA ReadMapped ==
    ASSUME Mapped, NEW fd \in FDs, ReadStep(fd), ~ReadList(fd)
    PROVE  Mapped'
<1> USE DEF Mapped, TypeOK, MapsFollowInputs, SocketsAreWatched, Accepting
<1>1. Reading(fd)
  BY DEF ReadStep, ReadFails, ReadEof, ReadPart, ReadRequest, ReadOversize, ReadHeader,
         ReadUpload, ReadUploadEnd
<1>2. /\ phase' \in {"select", "read"} /\ testfds' \subseteq FDs
      /\ UNCHANGED <<current_fd, replying, backlog>> /\ current_fd = 0
  BY <1>1 DEF Reading, Turn, After
<1>3. CASE disconnect_tcp({fd}) /\ active_clients' \in Int
  <2>1. current_fd \notin inputs'
    BY <1>3, DisconnectMapped
  <2>2. QED
    BY <1>2, <1>3, <2>1, DisconnectMapped
<1>4. CASE ReadPart(fd)
  <2>1. fd \in inputs
    BY <1>4, <1>1, ZeroIsNone DEF ReadPart, HasBytes, Reading, Turn
  <2>2. QED
    BY <1>2, <1>4, <2>1 DEF ReadPart, Take
<1>5. CASE ReadUpload(fd)
  BY <1>2, <1>5 DEF ReadUpload, Take
<1>6. CASE ReadHeader(fd)
  <2>1. Min(Free) \in FDs
    BY <1>6, FreeIsFree DEF ReadHeader
  <2>2. DOMAIN states' \subseteq FDs /\ states' \in [DOMAIN states' -> FDs]
    BY <1>6, <2>1 DEF ReadHeader, Put
  <2>3. DOMAIN states' = DOMAIN states \cup {fd}
    BY <1>6 DEF ReadHeader, Put
  <2>4. fd \in inputs
    BY <1>6, <1>1, ZeroIsNone DEF ReadHeader, HasBytes, Reading, Turn
  <2>5. files' \subseteq FDs /\ sent' \subseteq Clients
    BY <1>6, <2>1 DEF ReadHeader, Take
  <2>6. QED
    BY <1>2, <1>6, <2>2, <2>3, <2>4, <2>5 DEF ReadHeader
<1>7. QED
  <2>1. active_clients - 1 \in Int /\ \A times \in {1, 2} : active_clients - times \in Int
    BY LoopAssumption
  <2>2. QED
    BY <1>3, <1>4, <1>5, <1>6, <2>1
    DEF ReadStep, ReadFails, ReadEof, ReadRequest, ReadOversize, ReadUploadEnd

\* A list is written to a connection that stays open until the writing ends.
LEMMA ListMapped ==
    ASSUME Mapped, EndReply \/ \E fd \in FDs : ReadList(fd)
    PROVE  Mapped'
<1> USE DEF Mapped, TypeOK, MapsFollowInputs, SocketsAreWatched, Accepting
<1>1. ASSUME NEW fd \in FDs, ReadList(fd)
      PROVE  Mapped'
  BY <1>1 DEF ReadList, Turn, HasBytes, Take
<1>2. CASE EndReply
  <2>1. /\ replying \in DOMAIN sock /\ replying \in FDs /\ current_fd = 0
        /\ phase' \in {"select", "read"} /\ replying' = 0 /\ active_clients' \in Int
        /\ disconnect_tcp({replying}) /\ UNCHANGED <<current_fd, testfds, backlog>>
    BY <1>2 DEF EndReply, After
  <2>2. {replying} \in SUBSET FDs
    BY <2>1
  <2>3. QED
    BY <2>1, <2>2, ZeroIsNone, DisconnectMapped
<1>3. QED
  BY <1>1, <1>2

LEMMA OtherMapped ==
    ASSUME Mapped, ClientStep \/ (\E fd \in FDs : Expire(fd)) \/ UNCHANGED vars
    PROVE  Mapped'
<1> USE DEF Mapped, TypeOK, MapsFollowInputs, SocketsAreWatched, Accepting
<1>1. ASSUME NEW c \in Clients, Connect(c) \/ Send(c) \/ HangUp(c)
      PROVE  Mapped'
  <2>1. /\ backlog' = backlog \/ backlog' = Append(backlog, c)
        /\ sent' \subseteq Clients /\ gone' \subseteq Clients
    BY <1>1 DEF Connect, Send, HangUp
  <2>2. UNCHANGED server
    BY <1>1 DEF Connect, Send, HangUp
  <2>3. QED
    BY <2>1, <2>2 DEF server
<1>2. ASSUME NEW fd \in FDs, Expire(fd)
      PROVE  Mapped'
  BY <1>2 DEF Expire
<1>3. CASE UNCHANGED vars
  BY <1>3 DEF vars
<1>4. QED
  BY <1>1, <1>2, <1>3 DEF ClientStep

LEMMA StepMapped == Mapped /\ [Next]_vars => Mapped'
BY AcceptMapped, ReadMapped, ListMapped, OtherMapped DEF Next, ServerStep, ReplyFails, ReplyTaken

LEMMA AlwaysMapped == Spec => []Mapped
BY InitMapped, StepMapped, PTL DEF Spec

\* The loop's variables keep their shape for any number of clients and
\* descriptors (main.cpp, select_loop).
THEOREM LoopTypeCorrect == Spec => []TypeOK
<1>1. Mapped => TypeOK
  BY DEF Mapped
<1>2. QED
  BY <1>1, AlwaysMapped, PTL

\* Nothing of a dead connection is kept in a map for the next connection with
\* its number (main.cpp and disconnect_tcp), whatever times out, grows too
\* large or hangs up.
THEOREM MapsAlwaysFollowInputs == Spec => []MapsFollowInputs
<1>1. Mapped => MapsFollowInputs
  BY DEF Mapped
<1>2. QED
  BY <1>1, AlwaysMapped, PTL

-----------------------------------------------------------------------------
(***************************************************************************)
(* The count.  A disconnect takes one off it, also when the descriptor was  *)
(* no longer watched: the count can fall behind and never run ahead.        *)
(***************************************************************************)

\* What a disconnect of watched connections, or of others, leaves watched.
LEMMA DisconnectCounts ==
    ASSUME Mapped, NEW S \in SUBSET FDs, disconnect_tcp(S)
    PROVE  /\ Cardinality(inputs) \in Nat /\ Cardinality(S) \in Nat
           /\ Cardinality(inputs') >= Cardinality(inputs) - Cardinality(S)
           /\ S \subseteq inputs =>
                  Cardinality(inputs') = Cardinality(inputs) - Cardinality(S)
<1>1. inputs \in SUBSET FDs
  BY DEF Mapped, TypeOK
<1>2. Cardinality(inputs') = Cardinality(inputs \ S)
  BY DEF disconnect_tcp
<1>3. IsFiniteSet(inputs) /\ Cardinality(inputs) \in Nat
  BY <1>1, WatchedAreFinite
<1>4. IsFiniteSet(S) /\ Cardinality(S) \in Nat
  BY WatchedAreFinite
<1>5. Cardinality(inputs \ S) = Cardinality(inputs) - Cardinality(inputs \cap S)
  BY <1>3, FS_Difference
<1>6. Cardinality(inputs \cap S) \in Nat /\ Cardinality(inputs \cap S) <= Cardinality(S)
  BY <1>1, <1>4, WatchedAreFinite, FS_Intersection
<1>7. S \subseteq inputs => Cardinality(inputs \cap S) = Cardinality(S)
  <2>1. S \subseteq inputs => inputs \cap S = S
    OBVIOUS
  <2>2. QED
    BY <2>1
<1>8. QED
  BY <1>2, <1>3, <1>4, <1>5, <1>6, <1>7

\* A descriptor is counted in once.
LEMMA AdmitCounts ==
    ASSUME Mapped, Admit
    PROVE  /\ Cardinality(inputs') = Cardinality(inputs) + 1
           /\ active_clients' = active_clients + 1
<1>1. inputs \in SUBSET FDs /\ current_fd \notin inputs
  BY DEF Mapped, TypeOK, MapsFollowInputs
<1>2. QED
  BY <1>1, WatchedAreFinite, FS_AddElement DEF Admit

\* Every read that does not disconnect leaves the count and the watched alone.
LEMMA ReadCounts ==
    ASSUME Mapped, NEW fd \in FDs, ReadStep(fd)
    PROVE  \/ UNCHANGED <<inputs, active_clients>>
           \/ /\ disconnect_tcp({fd})
              /\ \/ active_clients' = active_clients - 1
                 \/ \E times \in {1, 2} : active_clients' = active_clients - times
BY DEF ReadStep, ReadFails, ReadEof, ReadPart, ReadRequest, ReadList, ReadOversize, ReadHeader,
       ReadUpload, ReadUploadEnd

\* A descriptor of testfds that is not watched any more is no connection: nothing
\* was accepted since the clean-up closed it.
LEMMA StaleReadFails ==
    ASSUME Mapped, NEW fd \in FDs, ReadStep(fd), fd \notin inputs
    PROVE  ReadFails(fd)
<1>1. Turn(fd)
  BY DEF ReadStep, ReadFails, ReadEof, ReadPart, ReadRequest, ReadList, ReadOversize, ReadHeader,
         ReadUpload, ReadUploadEnd, Reading
<1>2. fd \notin DOMAIN sock
  BY <1>1, ZeroIsNone DEF Turn, Mapped, SocketsAreWatched, Accepting
<1>3. ~HasBytes(fd)
  BY <1>2 DEF HasBytes
<1>4. QED
  BY <1>2, <1>3 DEF ReadStep, ReadEof, ReadPart, ReadRequest, ReadList, ReadOversize, ReadHeader,
         ReadUpload, ReadUploadEnd

LEMMA OneIsOne == \A fd : Cardinality({fd}) = 1
BY FS_Singleton

\* How far one step moves the count from the number of connections watched.
DriftStep ==
    \/ drift' = drift
    \/ /\ drift' = drift + 1
       /\ \E fd \in testfds : (fd \notin inputs /\ ReadFails(fd)) \/ ReadOversize(fd)

LEMMA ReadDrifts ==
    ASSUME Mapped, NEW fd \in FDs, ReadStep(fd)
    PROVE  /\ DriftStep
           /\ fd \notin inputs => drift' = drift + 1
<1>1. active_clients \in Int /\ Cardinality(inputs) \in Nat
  BY WatchedAreFinite DEF Mapped, TypeOK
<1>2. fd \in testfds
  BY DEF ReadStep, ReadFails, ReadEof, ReadPart, ReadRequest, ReadList, ReadOversize, ReadHeader,
         ReadUpload, ReadUploadEnd, Reading, Turn
<1>3. ASSUME disconnect_tcp({fd}), fd \in inputs
      PROVE  Cardinality(inputs') = Cardinality(inputs) - 1
  <2>1. {fd} \in SUBSET FDs /\ {fd} \subseteq inputs
    BY <1>3
  <2>2. QED
    BY <1>3, <2>1, DisconnectCounts, OneIsOne
<1>4. CASE fd \notin inputs
  <2>1. ReadFails(fd)
    BY <1>4, StaleReadFails
  <2>2. inputs' = inputs /\ active_clients' = active_clients - 1
    BY <1>4, <2>1 DEF ReadFails, disconnect_tcp
  <2>3. drift' = drift + 1
    BY <1>1, <2>2 DEF drift
  <2>4. QED
    BY <1>2, <1>4, <2>1, <2>3 DEF DriftStep
<1>5. CASE fd \in inputs /\ ReadOversize(fd)
  <2>1. PICK times \in {1, 2} : active_clients' = active_clients - times
    BY <1>5 DEF ReadOversize
  <2>2. Cardinality(inputs') = Cardinality(inputs) - 1
    BY <1>3, <1>5 DEF ReadOversize
  <2>3. drift' = drift \/ drift' = drift + 1
    BY <1>1, <2>1, <2>2 DEF drift
  <2>4. QED
    BY <1>2, <1>5, <2>3 DEF DriftStep
<1>6. CASE fd \in inputs /\ ~ReadOversize(fd)
  <2>1. \/ UNCHANGED <<inputs, active_clients>>
        \/ disconnect_tcp({fd}) /\ active_clients' = active_clients - 1
    BY <1>6 DEF ReadStep, ReadFails, ReadEof, ReadPart, ReadRequest, ReadList, ReadHeader,
       ReadUpload, ReadUploadEnd
  <2>2. drift' = drift
    BY <1>1, <1>3, <1>6, <2>1 DEF drift
  <2>3. QED
    BY <1>6, <2>2 DEF DriftStep
<1>7. QED
  BY <1>4, <1>5, <1>6

LEMMA StepDrifts ==
    ASSUME Mapped, [Next]_vars
    PROVE  DriftStep
<1>1. active_clients \in Int /\ Cardinality(inputs) \in Nat
  BY WatchedAreFinite DEF Mapped, TypeOK
<1>2. CASE CleanUp
  <2>1. time_out \in SUBSET FDs /\ time_out \subseteq inputs
    BY DEF time_out, Mapped, TypeOK, MapsFollowInputs
  <2>2. Cardinality(inputs') = Cardinality(inputs) - Cardinality(time_out)
    BY <1>2, <2>1, DisconnectCounts DEF CleanUp
  <2>3. Cardinality(time_out) \in Nat
    BY <2>1, WatchedAreFinite
  <2>4. drift' = drift
    BY <1>1, <1>2, <2>2, <2>3 DEF CleanUp, drift
  <2>5. QED
    BY <2>4 DEF DriftStep
<1>3. CASE Admit
  BY <1>1, <1>3, AdmitCounts DEF drift, DriftStep
<1>4. CASE EndReply
  <2>1. replying \in FDs /\ replying \in inputs
    BY <1>4, ZeroIsNone DEF EndReply, Mapped, SocketsAreWatched, Accepting, TypeOK
  <2>2. Cardinality(inputs') = Cardinality(inputs) - 1
    <3>1. {replying} \in SUBSET FDs /\ {replying} \subseteq inputs
      BY <2>1
    <3>2. QED
      BY <1>4, <3>1, DisconnectCounts, OneIsOne DEF EndReply
  <2>3. drift' = drift
    BY <1>1, <1>4, <2>2 DEF EndReply, drift
  <2>4. QED
    BY <2>3 DEF DriftStep
<1>5. ASSUME NEW fd \in FDs, ReadStep(fd)
      PROVE  DriftStep
  BY <1>5, ReadDrifts
<1>6. UNCHANGED <<inputs, active_clients>> => DriftStep
  BY DEF drift, DriftStep
<1>7. SelectFails \/ Select \/ SelectAndAccept \/ Refuse => UNCHANGED <<inputs, active_clients>>
  BY DEF SelectFails, Select, SelectAndAccept, Refuse
<1>8. ClientStep => UNCHANGED <<inputs, active_clients>>
  BY DEF ClientStep, Connect, Send, HangUp, server
<1>9. \A fd \in FDs : Expire(fd) => UNCHANGED <<inputs, active_clients>>
  BY DEF Expire
<1>10. QED
  BY <1>2, <1>3, <1>4, <1>5, <1>6, <1>7, <1>8, <1>9
  DEF Next, ServerStep, ReplyFails, ReplyTaken, vars

\* No history of timeouts, oversized requests and disconnects counts a client
\* in that is not served (main.cpp, active_clients).
THEOREM CountNeverRunsAhead == Spec => []NeverOvercounts
<1>1. Init => NeverOvercounts
  BY FS_EmptySet DEF Init, NeverOvercounts
<1>2. Mapped /\ NeverOvercounts /\ [Next]_vars => NeverOvercounts'
  <2> SUFFICES ASSUME Mapped, NeverOvercounts, [Next]_vars, Mapped'
               PROVE  NeverOvercounts'
    BY StepMapped
  <2>1. /\ active_clients \in Int /\ Cardinality(inputs) \in Nat
        /\ active_clients' \in Int /\ Cardinality(inputs') \in Nat
    BY WatchedAreFinite DEF Mapped, TypeOK
  <2>2. drift' = drift \/ drift' = drift + 1
    BY StepDrifts DEF DriftStep
  <2>3. QED
    BY <2>1, <2>2 DEF drift, NeverOvercounts
<1>3. QED
  BY <1>1, <1>2, AlwaysMapped, PTL DEF Spec

\* A connection is lost from the count where the read half meets a descriptor the
\* clean-up of the accept half has closed, or after a request that is too long
\* (main.cpp, active_clients), and nowhere else.
THEOREM CountSlipsOnlyThere == Spec => CountSlipsOnlyWhenStale
<1>1. Mapped /\ [Next]_vars =>
        [drift' # drift =>
            /\ drift' = drift + 1
            /\ \E fd \in testfds : (fd \notin inputs /\ ReadFails(fd)) \/ ReadOversize(fd)]_vars
  BY StepDrifts DEF DriftStep
<1>2. QED
  BY <1>1, AlwaysMapped, PTL DEF Spec, CountSlipsOnlyWhenStale

-----------------------------------------------------------------------------
(***************************************************************************)
(* The books.  While no connection has been lost from the count, no stale   *)
(* descriptor has been read: a file's descriptor is never a connection's,   *)
(* and what the loop closes it also forgets.  A descriptor that is watched   *)
(* no more may be reused for a file in the same iteration; reading it then   *)
(* closes the file and loses a connection from the count for good, because  *)
(* the count never comes nearer again.                                     *)
(***************************************************************************)
Books ==
    /\ inputs \subseteq DOMAIN sock
    /\ \A fd \in DOMAIN states : states[fd] \in files
    /\ \A fd, other \in DOMAIN states : states[fd] = states[other] => fd = other
    /\ files \cap DOMAIN sock = {}
    /\ Accepting => current_fd \in DOMAIN sock

Vouched == drift = 0 => Books

\* Closing watched connections leaves every other one with what it holds.
LEMMA DisconnectKeepsBooks ==
    ASSUME Mapped, Books, NEW S \in SUBSET inputs, disconnect_tcp(S),
           current_fd' = current_fd, Accepting' => Accepting
    PROVE  Books'
<1> USE DEF Mapped, TypeOK, MapsFollowInputs, Books
<1>1. /\ inputs' = inputs \ S /\ files' = files \ Closed(S)
      /\ DOMAIN states' = DOMAIN states \ S
      /\ \A g \in DOMAIN states' : states'[g] = states[g]
      /\ DOMAIN sock' = DOMAIN sock \ Closed(S)
  BY DEF disconnect_tcp, Without, Restrict
<1>2. \A g : g \in Closed(S) <=> g \in S \/ \E h \in S \cap DOMAIN states : g = states[h]
  BY DEF Closed
<1>3. \A g \in DOMAIN sock : g \in Closed(S) => g \in S
  BY <1>2
<1>4. inputs' \subseteq DOMAIN sock'
  BY <1>1, <1>3
<1>5. \A g \in DOMAIN states' : states'[g] \in files'
  <2>1. SUFFICES ASSUME NEW g \in DOMAIN states'
                 PROVE  states[g] \in files'
    BY <1>1
  <2>2. g \in DOMAIN states /\ g \notin S /\ states[g] \in files
    BY <1>1
  <2>3. states[g] \notin S
    BY <2>2
  <2>4. \A h \in S \cap DOMAIN states : states[h] # states[g]
    BY <2>2
  <2>5. QED
    BY <1>1, <1>2, <2>2, <2>3, <2>4
<1>6. \A g, h \in DOMAIN states' : states'[g] = states'[h] => g = h
  BY <1>1
<1>7. files' \cap DOMAIN sock' = {}
  BY <1>1
<1>8. Accepting' => current_fd' \in DOMAIN sock'
  BY <1>1, <1>3
<1>9. QED
  BY <1>4, <1>5, <1>6, <1>7, <1>8

LEMMA ReadKeepsBooks ==
    ASSUME Mapped, Books, NEW fd \in inputs, ReadStep(fd)
    PROVE  Books'
<1>1. /\ current_fd' = current_fd /\ phase' \in {"select", "read", "write"}
  BY DEF ReadStep, ReadFails, ReadEof, ReadPart, ReadRequest, ReadList, ReadOversize, ReadHeader,
         ReadUpload, ReadUploadEnd, Reading, Turn, After
<1>2. ~Accepting'
  BY <1>1 DEF Accepting
<1>3. CASE ReadHeader(fd)
  <2> DEFINE desc == Min(Free)
  <2>1. desc \in FDs /\ desc \notin DOMAIN sock /\ desc \notin files
    BY <1>3, FreeIsFree DEF ReadHeader
  <2>2. /\ files' = files \cup {desc}
        /\ DOMAIN states' = DOMAIN states \cup {fd} /\ states'[fd] = desc
        /\ \A g \in DOMAIN states : states'[g] = states[g]
    BY <1>3 DEF ReadHeader, Put
  <2> HIDE DEF desc
  <2>3. UNCHANGED <<inputs, sock>>
    BY <1>3 DEF ReadHeader
  <2>4. \A g \in DOMAIN states' : states'[g] \in files'
    BY <2>2 DEF Books
  <2>5. \A g, h \in DOMAIN states' : states'[g] = states'[h] => g = h
    BY <2>1, <2>2 DEF Books
  <2>6. files' \cap DOMAIN sock' = {}
    BY <2>1, <2>2, <2>3 DEF Books
  <2>7. QED
    BY <1>2, <2>3, <2>4, <2>5, <2>6 DEF Books
<1>4. CASE ReadPart(fd) \/ ReadUpload(fd) \/ ReadList(fd)
  BY <1>2, <1>4 DEF ReadPart, ReadUpload, ReadList, Books
<1>5. CASE disconnect_tcp({fd})
  <2>1. {fd} \in SUBSET inputs
    OBVIOUS
  <2>2. QED
    BY <1>1, <1>2, <1>5, <2>1, DisconnectKeepsBooks
<1>6. QED
  BY <1>3, <1>4, <1>5
  DEF ReadStep, ReadFails, ReadEof, ReadRequest, ReadOversize, ReadUploadEnd

LEMMA AcceptKeepsBooks ==
    ASSUME Mapped, Books, SelectFails \/ Select \/ SelectAndAccept \/ CleanUp \/ Refuse \/ Admit
    PROVE  Books'
<1> USE DEF Books
<1>1. CASE Select \/ SelectFails
  BY <1>1 DEF Select, SelectFails, Accepting
<1>2. CASE SelectAndAccept
  <2>1. DOMAIN sock' = DOMAIN sock \cup {Min(Free)}
    BY <1>2 DEF SelectAndAccept, Put
  <2>2. Min(Free) \notin files
    BY <1>2, FreeIsFree DEF SelectAndAccept
  <2>3. QED
    BY <1>2, <2>1, <2>2 DEF SelectAndAccept
<1>3. CASE CleanUp
  <2>1. time_out \in SUBSET inputs
    BY DEF time_out, Mapped, MapsFollowInputs
  <2>2. disconnect_tcp(time_out) /\ current_fd' = current_fd /\ Accepting
    BY <1>3 DEF CleanUp, Accepting
  <2>3. QED
    BY <2>1, <2>2, DisconnectKeepsBooks
<1>4. CASE Refuse
  <2>1. DOMAIN sock' = DOMAIN sock \ {current_fd}
    BY <1>4 DEF Refuse, Without, Restrict
  <2>2. QED
    BY <1>4, <2>1 DEF Refuse, Mapped, MapsFollowInputs, Accepting
<1>5. CASE Admit
  <2>1. /\ inputs' = inputs \cup {current_fd} /\ UNCHANGED <<states, sock, files>>
        /\ phase' \in {"select", "read"} /\ phase = "admit"
    BY <1>5 DEF Admit, After
  <2>2. QED
    BY <2>1 DEF Accepting
<1>6. QED
  BY <1>1, <1>2, <1>3, <1>4, <1>5

LEMMA StepVouched ==
    ASSUME Mapped, NeverOvercounts, Vouched, [Next]_vars
    PROVE  Vouched'
<1> SUFFICES ASSUME drift' = 0
             PROVE  Books'
  BY DEF Vouched
<1>1. active_clients \in Int /\ Cardinality(inputs) \in Nat /\ drift \in Nat
  BY WatchedAreFinite DEF Mapped, TypeOK, NeverOvercounts, drift
<1>2. drift = 0
  BY <1>1, StepDrifts DEF DriftStep
<1>3. Books
  BY <1>2 DEF Vouched
<1>4. CASE SelectFails \/ Select \/ SelectAndAccept \/ CleanUp \/ Refuse \/ Admit
  BY <1>3, <1>4, AcceptKeepsBooks
<1>5. ASSUME NEW fd \in FDs, ReadStep(fd)
      PROVE  Books'
  <2>1. fd \in inputs
    BY <1>1, <1>2, <1>5, ReadDrifts
  <2>2. QED
    BY <1>3, <1>5, <2>1, ReadKeepsBooks
<1>6. CASE EndReply
  <2>1. replying \in inputs /\ disconnect_tcp({replying}) /\ current_fd' = current_fd
    BY <1>6, ZeroIsNone DEF EndReply, Mapped, SocketsAreWatched, Accepting, TypeOK
  <2>2. {replying} \in SUBSET inputs /\ ~Accepting'
    BY <1>6, <2>1 DEF EndReply, Accepting, After
  <2>3. QED
    BY <1>3, <2>1, <2>2, DisconnectKeepsBooks
<1>7. CASE UNCHANGED <<inputs, states, files, sock, current_fd, phase>>
  BY <1>3, <1>7 DEF Books, Accepting
<1>8. ClientStep \/ (\E fd \in FDs : Expire(fd)) \/ UNCHANGED vars
        => UNCHANGED <<inputs, states, files, sock, current_fd, phase>>
  BY DEF ClientStep, Connect, Send, HangUp, Expire, server, vars
<1>9. QED
  BY <1>4, <1>5, <1>6, <1>7, <1>8 DEF Next, ServerStep, ReplyFails, ReplyTaken

\* The count is a witness of the books: whatever times out, grows too large, hangs
\* up or is left waiting, while active_clients is the number of connections the
\* loop watches, each of them is open and each create under way holds a file of
\* its own (main.cpp, select_loop and disconnect_tcp).
THEOREM ExactCountVouches == Spec => []CountVouchesForBooks
<1>1. Init => Vouched
  BY DEF Init, Vouched, Books, Accepting
<1>2. Mapped /\ NeverOvercounts /\ Vouched /\ [Next]_vars => Vouched'
  BY StepVouched
<1>3. Vouched => CountVouchesForBooks
  BY DEF Vouched, Books, CountVouchesForBooks
<1>4. QED
  BY <1>1, <1>2, <1>3, AlwaysMapped, CountNeverRunsAhead, PTL DEF Spec

=============================================================================
