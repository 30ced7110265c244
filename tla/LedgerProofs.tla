---------------------------- MODULE LedgerProofs ----------------------------
(***************************************************************************)
(* Lemmas about the seats on file: appending a number to one reservation   *)
(* file adds that many elements to the set of all seats.                   *)
(***************************************************************************)
EXTENDS Ledger, FiniteSetTheorems, TLAPS

\* Appending a number to one reservation file leaves files of numbers.
LEMMA RecordedType ==
    ASSUME NEW K, NEW f \in [K -> Seq(Nat)], NEW k \in K, NEW n \in Nat
    PROVE  Recorded(f, k, n) \in [K -> Seq(Nat)]
BY DEF Recorded

LEMMA SeatsInEmpty ==
    ASSUME NEW K
    PROVE  SeatsIn([k \in K |-> << >>]) = {}
BY DEF SeatsIn

LEMMA SeatsInMember ==
    ASSUME NEW f, NEW x
    PROVE  x \in SeatsIn(f) <=> \E k \in DOMAIN f : \E j \in DOMAIN f[k] :
                                    \E i \in 1..f[k][j] : x = <<k, j, i>>
BY DEF SeatsIn, SeatBlock

\* n seats under one file name and one position are n seats.
LEMMA BlockOfSeats ==
    ASSUME NEW k, NEW j, NEW n \in Nat
    PROVE  IsFiniteSet(SeatBlock(k, j, n)) /\ Cardinality(SeatBlock(k, j, n)) = n
<1> DEFINE T == SeatBlock(k, j, n)
           g == [i \in 1..n |-> <<k, j, i>>]
<1>1. g \in Bijection(1..n, T)
  BY DEF SeatBlock, Bijection, Injection, Surjection, IsInjective
<1>2. ExistsBijection(1..n, T)
  BY <1>1 DEF ExistsBijection
<1>3. IsFiniteSet(T)
  BY <1>2, FS_NatBijection
<1>4. Cardinality(T) = n
  BY <1>2, FS_CountingElements
<1>5. QED
  BY <1>3, <1>4

\* Appending a number to one reservation file loses no seat.
LEMMA SeatsKept ==
    ASSUME NEW K, NEW f \in [K -> Seq(Nat)], NEW k \in K, NEW n \in Nat
    PROVE  SeatsIn(f) \subseteq SeatsIn(Recorded(f, k, n))
<1> DEFINE g == Recorded(f, k, n)
<1>1. DOMAIN g = K /\ DOMAIN f = K
  BY DEF Recorded
<1>2. ASSUME NEW x \in K, NEW j \in DOMAIN f[x]
      PROVE  j \in DOMAIN g[x] /\ g[x][j] = f[x][j]
  <2>1. CASE x # k
    BY <2>1 DEF Recorded
  <2>2. CASE x = k
    <3>1. g[k] = Append(f[k], n) /\ f[k] \in Seq(Nat)
      BY DEF Recorded
    <3>2. QED
      BY <2>2, <3>1
  <2>3. QED
    BY <2>1, <2>2
<1> HIDE DEF g
<1>3. ASSUME NEW x \in SeatsIn(f)
      PROVE  x \in SeatsIn(g)
  <2>1. PICK y, j, i : y \in K /\ j \in DOMAIN f[y] /\ i \in 1..f[y][j] /\ x = <<y, j, i>>
    BY <1>1, <1>3, SeatsInMember
  <2>2. j \in DOMAIN g[y] /\ g[y][j] = f[y][j]
    BY <1>2, <2>1
  <2>3. QED
    BY <1>1, <2>1, <2>2, SeatsInMember
<1>4. QED
  BY <1>3 DEF g

\* Appending n to a reservation file adds n seats: none is lost or counted
\* twice, also when the file already has numbers of the same second.
LEMMA SeatsInRecorded ==
    ASSUME NEW K, NEW f \in [K -> Seq(Nat)], NEW k \in K, NEW n \in Nat,
           IsFiniteSet(SeatsIn(f))
    PROVE  /\ IsFiniteSet(SeatsIn(Recorded(f, k, n)))
           /\ Cardinality(SeatsIn(Recorded(f, k, n))) = Cardinality(SeatsIn(f)) + n
<1> DEFINE last == Len(f[k]) + 1
           T == SeatBlock(k, last, n)
           g == Recorded(f, k, n)
<1>1. f[k] \in Seq(Nat) /\ last \in Nat /\ DOMAIN f[k] = 1..Len(f[k])
  OBVIOUS
<1>2. /\ DOMAIN g = K
      /\ \A x \in K : x # k => g[x] = f[x]
      /\ g[k] = Append(f[k], n)
  BY DEF Recorded
<1>3. /\ DOMAIN g[k] = DOMAIN f[k] \cup {last}
      /\ g[k][last] = n
      /\ \A j \in DOMAIN f[k] : g[k][j] = f[k][j]
  BY <1>1, <1>2
<1>4. last \notin DOMAIN f[k]
  BY <1>1
<1>5. SeatsIn(g) = SeatsIn(f) \cup T
  <2>1. ASSUME NEW x \in SeatsIn(g)
        PROVE  x \in SeatsIn(f) \cup T
    <3>1. PICK y, j, i : /\ y \in K /\ j \in DOMAIN g[y] /\ i \in 1..g[y][j]
                           /\ x = <<y, j, i>>
      BY <1>2, <2>1, SeatsInMember
    <3>2. CASE y = k /\ j = last
      BY <1>3, <3>1, <3>2 DEF SeatBlock
    <3>3. CASE y # k \/ j # last
      <4>1. j \in DOMAIN f[y] /\ g[y][j] = f[y][j]
        BY <1>2, <1>3, <3>1, <3>3
      <4>2. QED
        BY <3>1, <4>1, SeatsInMember
    <3>4. QED
      BY <3>2, <3>3
  <2>2. ASSUME NEW x \in SeatsIn(f)
        PROVE  x \in SeatsIn(g)
    <3>1. PICK y, j, i : /\ y \in K /\ j \in DOMAIN f[y] /\ i \in 1..f[y][j]
                           /\ x = <<y, j, i>>
      BY <2>2, SeatsInMember
    <3>2. j \in DOMAIN g[y] /\ g[y][j] = f[y][j]
      BY <1>2, <1>3, <3>1
    <3>3. QED
      BY <1>2, <3>1, <3>2, SeatsInMember
  <2>3. ASSUME NEW x \in T
        PROVE  x \in SeatsIn(g)
    <3>1. PICK i \in 1..n : x = <<k, last, i>>
      BY <2>3 DEF SeatBlock
    <3>2. last \in DOMAIN g[k] /\ i \in 1..g[k][last]
      BY <1>3, <3>1
    <3>3. QED
      BY <1>2, <3>1, <3>2, SeatsInMember
  <2>4. QED
    BY <2>1, <2>2, <2>3
<1>6. SeatsIn(f) \cap T = {}
  <2>1. ASSUME NEW x \in SeatsIn(f), x \in T
        PROVE  FALSE
    <3>1. PICK y, j, i : /\ y \in K /\ j \in DOMAIN f[y] /\ i \in 1..f[y][j]
                           /\ x = <<y, j, i>>
      BY <2>1, SeatsInMember
    <3>2. y = k /\ j = last
      BY <2>1, <3>1 DEF SeatBlock
    <3>3. QED
      BY <1>4, <3>1, <3>2
  <2>2. QED
    BY <2>1
<1>7. IsFiniteSet(T) /\ Cardinality(T) = n
  BY BlockOfSeats
<1> HIDE DEF T, g
<1>8. /\ IsFiniteSet(SeatsIn(f) \cup T)
      /\ Cardinality(SeatsIn(f) \cup T) =
            Cardinality(SeatsIn(f)) + Cardinality(T) - Cardinality(SeatsIn(f) \cap T)
  BY <1>7, FS_Union
<1>9. Cardinality(SeatsIn(f)) \in Nat /\ Cardinality(SeatsIn(f) \cap T) = 0
  BY <1>6, FS_CardinalityType, FS_EmptySet
<1>10. Cardinality(SeatsIn(f) \cup T) = Cardinality(SeatsIn(f)) + n
  BY <1>7, <1>8, <1>9
<1>11. QED
  BY <1>5, <1>8, <1>10 DEF g

=============================================================================
