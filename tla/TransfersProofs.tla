-------------------------- MODULE TransfersProofs ---------------------------
(***************************************************************************)
(* What is proved about Transfers for every size of file, header, chunk,   *)
(* read and window, and for every way of cutting the streams.              *)
(***************************************************************************)
EXTENDS Transfers, TLAPS

LEMMA MaxOfTwo ==
    ASSUME NEW a \in Int, NEW b \in Int
    PROVE  Max({a, b}) = IF a >= b THEN a ELSE b
<1> DEFINE m == IF a >= b THEN a ELSE b
<1>1. m \in {a, b} /\ m \in Int /\ \A y \in {a, b} : m >= y
  OBVIOUS
<1>2. \A x \in {a, b} : (\A y \in {a, b} : x >= y) => x = m
  <2>1. \A x \in {a, b} : x \in Int /\ (x >= m => x = m \/ x > m)
    OBVIOUS
  <2>2. \A x \in {a, b} : m >= x
    BY <1>1
  <2> HIDE DEF m
  <2>3. QED
    BY <1>1, <2>1, <2>2
<1> HIDE DEF m
<1>3. Max({a, b}) = m
  BY <1>1, <1>2 DEF Max
<1>4. QED
  BY <1>3 DEF m

LEMMA MinOfTwo ==
    ASSUME NEW a \in Int, NEW b \in Int
    PROVE  Min({a, b}) = IF a <= b THEN a ELSE b
<1> DEFINE m == IF a <= b THEN a ELSE b
<1>1. m \in {a, b} /\ m \in Int /\ \A y \in {a, b} : m <= y
  OBVIOUS
<1>2. \A x \in {a, b} : (\A y \in {a, b} : x <= y) => x = m
  <2>1. \A x \in {a, b} : x \in Int
    OBVIOUS
  <2>2. \A x \in {a, b} : m <= x
    BY <1>1
  <2> HIDE DEF m
  <2>3. QED
    BY <1>1, <2>1, <2>2
<1> HIDE DEF m
<1>3. Min({a, b}) = m
  BY <1>1, <1>2 DEF Min
<1>4. QED
  BY <1>3 DEF m

-----------------------------------------------------------------------------
(***************************************************************************)
(* The create.  A connection still read has its header's start or a part    *)
(* of the file that fits, of which no more is on disk; one no longer read   *)
(* may have left any of the outcomes.  A copy of it in a child is of a      *)
(* connection on which all of the file had come.                           *)
(***************************************************************************)
CreateStands ==
    /\ conn = "open" =>
          /\ answer = "none"
          /\ \/ event = "none" /\ got <= Prefix /\ flushed = 0
             \/ /\ event = "pending" /\ Header <= got /\ got <= Header + announced
                /\ flushed <= got - Header
    /\ server = "terminated" => conn = "closed"
    /\ event = "pending" => conn = "open"
    /\ answer = "OK" => event = "whole" /\ flushed = announced
    /\ holds => flushed = announced /\ got >= Header + announced
    /\ answer = "NOK" \/ event = "destroyed" => body # announced
    /\ report = "OK" => answer = "OK"

(***************************************************************************)
(* The show.  Once a child has been started the whole file is on disk, and  *)
(* the viewer's copy is what it has taken, less the header and the last     *)
(* newline.                                                                 *)
(***************************************************************************)
ShowStands ==
    /\ child = "none" => out = 0 /\ ~holds /\ viewer \in {"idle", "asked", "failed"}
    /\ child # "none" => flushed = announced /\ ~request /\ viewer \notin {"idle", "asked"}
    /\ child = "forked" => out = 0
    /\ child \in {"sending", "ended"} => ShowHeader <= out
    /\ child = "failed" => viewer \in {"failed", "saved"} \/ ShowHeader <= out
    /\ viewer = "idle" => ~request
    /\ IF taken = 0 THEN saved = 0
       ELSE /\ ShowHeader <= taken
            /\ saved = IF taken - ShowHeader <= announced THEN taken - ShowHeader ELSE announced
    /\ viewer = "reading" => saved < announced
    /\ viewer = "saved" => saved = announced

(***************************************************************************)
(* The list.  The server is at it only while bytes of it remain.           *)
(***************************************************************************)
ListStands ==
    /\ server = "listing" => listed < ListSize
    /\ lister \in {"idle", "asked"} => listed = 0

Stands == TypeOK /\ CreateStands /\ ShowStands /\ ListStands

-----------------------------------------------------------------------------
LEMMA SizesAreNumbers == \A x \in parse_filesize : x \in Nat \ {0}
BY DEF parse_filesize

LEMMA Numbers ==
    ASSUME TypeOK
    PROVE  /\ announced \in Nat \ {0} /\ body \in Nat \ {0}
           /\ {Prefix, Digits, ShowHeader, ListSize, Window, Chunk} \subseteq Nat \ {0}
           /\ {Header, Stream, sent, got, flushed, saved, taken, out} \subseteq Nat
           /\ Header > Prefix /\ Stream = Header + body + 1
           /\ ShowHeader < Chunk
<1>1. /\ {Prefix, Digits, ShowHeader, ListSize, Window} \subseteq Nat \ {0}
      /\ Chunk \in Nat \ {0} /\ ShowHeader < Chunk
  BY TransfersAssumption
<1>2. announced \in Nat \ {0} /\ body \in Nat \ {0}
  BY TransfersAssumption, SizesAreNumbers DEF TypeOK
<1>3. Header \in Nat /\ Header > Prefix
  BY <1>1 DEF Header
<1>4. Stream \in Nat /\ Stream = Header + body + 1
  BY <1>2, <1>3 DEF Stream
<1>5. {sent, got, flushed, saved, taken, out} \subseteq Nat
  BY <1>1, <1>2, <1>4 DEF TypeOK
<1>6. QED
  BY <1>1, <1>2, <1>3, <1>4, <1>5

LEMMA InitStands == Init => Stands
<1> SUFFICES ASSUME Init PROVE Stands
  OBVIOUS
<1>1. /\ announced \in Nat \ {0} /\ body \in Nat \ {0}
      /\ {Prefix, Digits, ShowHeader, ListSize} \subseteq Nat \ {0}
  BY TransfersAssumption, SizesAreNumbers DEF Init
<1>2. Stream \in Nat
  BY <1>1 DEF Stream, Header
<1>3. TypeOK
  <2>1. sent \in 0..Stream /\ got \in 0..sent
    BY <1>2 DEF Init
  <2>2. flushed \in 0..announced /\ saved \in 0..announced
    BY <1>1 DEF Init
  <2>3. taken \in 0..out /\ out \in 0 .. ShowHeader + announced + 1
    BY <1>1 DEF Init
  <2>4. heard \in 0..listed /\ listed \in 0..ListSize
    BY <1>1 DEF Init
  <2>5. QED
    BY <2>1, <2>2, <2>3, <2>4 DEF Init, TypeOK
<1>4. QED
  BY <1>1, <1>3 DEF Init, Stands, CreateStands, ShowStands, ListStands

\* The creating client's own steps: it may report success only of an answer OK.
LEMMA CreatorStands ==
    ASSUME Stands, CreatorSends \/ CreatorHears \/ CreatorTimesOut \/ CreatorReset \/ CreatorQuits
    PROVE  Stands'
<1> USE DEF Stands
<1>1. CASE CreatorSends
  <2> USE DEF CreatorSends
  <2>1. Stream' = Stream /\ Stream \in Nat /\ sent \in Nat
    BY <1>1, Numbers DEF Stream, Header
  <2>2. sent' \in sent + 1 .. Stream /\ creator' \in {"sending", "waiting"}
    BY <1>1
  <2>3. TypeOK'
    BY <1>1, <2>1, <2>2 DEF TypeOK, showVars, listVars, serverVars
  <2>4. CreateStands' /\ ShowStands'
    BY <1>1 DEF CreateStands, ShowStands, Header, showVars, listVars, serverVars
  <2>5. ListStands'
    BY <1>1 DEF ListStands, listVars, serverVars
  <2>6. QED
    BY <2>3, <2>4, <2>5
<1>2. ASSUME NEW r \in {"OK", "failed"}, CreatorCloses(r), r = "OK" => answer = "OK"
      PROVE  Stands'
  <2>1. TypeOK'
    BY <1>2 DEF CreatorCloses, TypeOK, Stream, Header, showVars, listVars, serverVars
  <2>2. CreateStands' /\ ShowStands'
    BY <1>2 DEF CreatorCloses, CreateStands, ShowStands, Header, showVars, listVars, serverVars
  <2>3. ListStands'
    BY <1>2 DEF CreatorCloses, ListStands, listVars, serverVars
  <2>4. QED
    BY <2>1, <2>2, <2>3
<1>3. QED
  BY <1>1, <1>2 DEF CreatorHears, CreatorTimesOut, CreatorReset, CreatorQuits

-----------------------------------------------------------------------------
\* What a read of the create leaves alone.
LEMMA ReadLeaves ==
    ASSUME Stands, ParentOnly
    PROVE  /\ Stream' = Stream /\ Header' = Header
           /\ UNCHANGED <<announced, body, creator, report, sent, old, accepted, child, holds,
                          out, viewer, request, taken, saved, lister, listed, heard>>
BY DEF ParentOnly, Stream, Header, showVars, listVars

\* The types after a step of the server on the create's connection.
LEMMA ReadTypes ==
    ASSUME Stands, ParentOnly, got' \in 0..sent, flushed' \in 0..announced,
           conn' \in {"open", "closed"}, server' \in {"up", "listing", "terminated"},
           answer' \in {"none", "OK", "NOK", "refused"},
           event' \in {"none", "pending", "whole", "partial", "destroyed"}
    PROVE  TypeOK'
<1>1. accepted' \subseteq {"viewer", "lister"}
  BY ReadLeaves DEF Stands, TypeOK
<1>2. old' \in BOOLEAN /\ holds' \in BOOLEAN /\ request' \in BOOLEAN
  BY ReadLeaves DEF Stands, TypeOK
<1>3. /\ sent' \in 0..Stream' /\ got' \in 0..sent'
      /\ flushed' \in 0..announced' /\ saved' \in 0..announced'
  BY ReadLeaves DEF Stands, TypeOK
<1>4. /\ taken' \in 0..out' /\ out' \in 0 .. ShowHeader + announced' + 1
      /\ heard' \in 0..listed' /\ listed' \in 0..ListSize
  BY ReadLeaves DEF Stands, TypeOK
<1>5. QED
  BY <1>1, <1>2, <1>3, <1>4, ReadLeaves DEF Stands, TypeOK

\* A read of k bytes up to byte n has, with those stored before, the n - Header
\* bytes of the file that have come: however the stream was cut, write_event
\* judges the same sum.
LEMMA SumOfReads ==
    ASSUME Stands, NEW n \in Nat, n > got, n >= Header
    PROVE  /\ Rest(n) \in Nat
           /\ Max({0, n - Rest(n) - Header}) \in Nat
           /\ Max({0, n - Rest(n) - Header}) + Rest(n) = n - Header
<1>1. Header \in Nat /\ got \in Nat
  BY Numbers DEF Stands
<1> DEFINE m == IF got >= Header THEN got ELSE Header
<1>2. Max({got, Header}) = m
  BY <1>1, MaxOfTwo
<1>3. Rest(n) = n - m
  BY <1>2 DEF Rest
<1>4. m \in Nat /\ n - Rest(n) - Header = m - Header /\ m - Header >= 0 /\ m <= n
  BY <1>1, <1>3
<1>5. Max({0, m - Header}) = m - Header
  <2>1. m - Header \in Int /\ 0 \in Int
    BY <1>1, <1>4
  <2>2. Max({0, m - Header}) = IF 0 >= m - Header THEN 0 ELSE m - Header
    BY <2>1, MaxOfTwo
  <2>3. QED
    BY <1>1, <1>4, <2>2
<1>6. QED
  BY <1>1, <1>3, <1>4, <1>5

\* What is stored of the file when its event is pending, or has been none.
LEMMA ReadMore ==
    ASSUME Stands, ParentOnly, NEW n \in got + 1 .. sent, got' = n, n >= Header,
           conn = "open", server = "up", NEW newline \in BOOLEAN,
           StoreBytes(n, Rest(n), newline)
    PROVE  Stands'
<1> DEFINE w == Max({0, n - Rest(n) - Header})
           r == write_event(w, announced, Rest(n), EndsWithNewline(n, newline))
<1>1. /\ announced \in Nat \ {0} /\ body \in Nat \ {0} /\ flushed \in Nat
      /\ Header \in Nat /\ Stream = Header + body + 1 /\ n \in Nat /\ n > got
      /\ n <= Stream /\ Header > Prefix /\ Prefix \in Nat
      /\ sent \in Nat /\ got \in Nat
  BY Numbers DEF Stands, TypeOK
<1>2. w \in Nat /\ Rest(n) \in Nat /\ w + Rest(n) = n - Header
  BY <1>1, SumOfReads
<1>3. UNCHANGED server
  BY DEF StoreBytes
<1>4. answer = "none" /\ flushed <= announced /\ event \in {"none", "pending"}
  BY DEF Stands, CreateStands, TypeOK
<1>5. event = "none" => flushed = 0
  BY DEF Stands, CreateStands
<1>6. /\ child # "none" => flushed = announced
      /\ holds => flushed = announced /\ got >= Header + announced
  BY DEF Stands, ShowStands, CreateStands
<1>7. got' \in 0..sent /\ sent' = sent /\ sent \in 0..Stream
  BY <1>1, ReadLeaves DEF Stands, TypeOK
<1> HIDE DEF w
<1>8. CASE r = "more"
  <2>1. n - Header <= announced
    BY <1>1, <1>2, <1>8 DEF write_event, EndsWithNewline
  <2>2. PICK b \in flushed .. n - Header : flushed' = b
    BY <1>8 DEF StoreBytes, w
  <2>3. event' = "pending" /\ UNCHANGED <<conn, answer>>
    BY <1>8 DEF StoreBytes, w
  <2>4. flushed' \in 0..announced /\ flushed' <= n - Header /\ flushed <= flushed'
    BY <1>1, <2>1, <2>2
  <2>5. child # "none" => flushed' = announced
    BY <1>1, <1>6, <2>1, <2>2
  <2>6. TypeOK'
    BY <1>3, <1>4, <1>7, <2>3, <2>4, ReadTypes DEF Stands, TypeOK
  <2>7. CreateStands'
    BY <1>1, <1>3, <1>6, <2>1, <2>3, <2>4, ReadLeaves DEF Stands, CreateStands
  <2>8. ShowStands' /\ ListStands'
    BY <1>3, <2>5, ReadLeaves DEF Stands, ShowStands, ListStands
  <2>9. QED
    BY <2>6, <2>7, <2>8 DEF Stands
<1>9. CASE r = "done"
  <2>1. flushed' = announced /\ event' = "whole" /\ answer' = "OK" /\ conn' = "closed"
    BY <1>9 DEF StoreBytes, AnswerAndClose, w
  <2>2. flushed' \in 0..announced
    BY <1>1, <2>1
  <2>3. TypeOK'
    BY <1>3, <1>7, <2>1, <2>2, ReadTypes DEF Stands, TypeOK
  <2>4. CreateStands'
    BY <1>1, <1>3, <1>6, <2>1, ReadLeaves DEF Stands, CreateStands
  <2>5. ShowStands' /\ ListStands'
    BY <1>3, <2>1, ReadLeaves DEF Stands, ShowStands, ListStands
  <2>6. QED
    BY <2>3, <2>4, <2>5 DEF Stands
<1>10. CASE r = "destroyed"
  <2>1. /\ event' = "destroyed" /\ answer' = "NOK" /\ conn' = "closed"
        /\ UNCHANGED flushed
    BY <1>10 DEF StoreBytes, AnswerAndClose, w
  <2>2. body # announced
    BY <1>1, <1>2, <1>10 DEF write_event, EndsWithNewline
  <2>3. TypeOK'
    BY <1>3, <1>7, <2>1, ReadTypes DEF Stands, TypeOK
  <2>4. CreateStands'
    BY <1>1, <1>3, <1>4, <1>6, <2>1, <2>2, ReadLeaves DEF Stands, CreateStands
  <2>5. ShowStands' /\ ListStands'
    BY <1>3, <2>1, ReadLeaves DEF Stands, ShowStands, ListStands
  <2>6. QED
    BY <2>3, <2>4, <2>5 DEF Stands
<1>11. r \in {"more", "done", "destroyed"}
  BY DEF write_event
<1>12. QED
  BY <1>8, <1>9, <1>10, <1>11

\* disconnect_tcp in the middle of an upload, by whichever handler: what has come
\* of the file is on disk, and a child's copy was of a file that had come whole.
LEMMA CutStands ==
    ASSUME Stands, conn = "open", Cut, Stream' = Stream, Header' = Header, accepted' \subseteq {"viewer", "lister"},
           UNCHANGED <<announced, body, creator, report, sent, old, got, answer, server, child,
                       holds, out, viewer, request, taken, saved, lister, listed, heard>>
    PROVE  Stands'
<1>1. /\ conn' = "closed" /\ event' = IF event = "pending" THEN "partial" ELSE event
      /\ flushed' = written
  BY DEF Cut
<1>2. /\ {Header, Prefix, got, flushed} \subseteq Nat /\ Header > Prefix
      /\ announced \in Nat \ {0}
  BY Numbers DEF Stands
<1>3. written = IF 0 >= got - Header THEN 0 ELSE got - Header
  <2>1. 0 \in Int /\ got - Header \in Int
    BY <1>2
  <2>2. QED
    BY <2>1, MaxOfTwo DEF written
<1>4. flushed' \in 0..announced
  BY <1>1, <1>2, <1>3 DEF Stands, CreateStands
<1>5. /\ child # "none" => flushed' = announced
      /\ holds => flushed' = announced /\ got >= Header + announced
  BY <1>1, <1>2, <1>3 DEF Stands, CreateStands, ShowStands
<1>6. TypeOK'
  BY <1>1, <1>4 DEF Stands, TypeOK
<1>7. CreateStands'
  BY <1>1, <1>5 DEF Stands, CreateStands
<1>8. ShowStands' /\ ListStands'
  BY <1>1, <1>5 DEF Stands, ShowStands, ListStands
<1>9. QED
  BY <1>6, <1>7, <1>8 DEF Stands

\* A connection accepted while the upload has aged cuts it.
LEMMA AcceptStands ==
    ASSUME Stands, SessionAges \/ \E c \in {"viewer", "lister"} : ServerAccepts(c)
    PROVE  Stands'
<1>1. CASE SessionAges
  <2>1. /\ old' = TRUE
        /\ UNCHANGED <<announced, body, creator, report, sent, conn, got, answer, event, flushed>>
        /\ UNCHANGED <<showVars, listVars, serverVars>>
    BY <1>1 DEF SessionAges
  <2>2. Stream' = Stream /\ Header' = Header
    BY <2>1 DEF Stream, Header
  <2>3. TypeOK'
    BY <2>1, <2>2 DEF Stands, TypeOK, showVars, listVars, serverVars
  <2>4. CreateStands' /\ ShowStands' /\ ListStands'
    BY <2>1, <2>2 DEF Stands, CreateStands, ShowStands, ListStands, showVars, listVars, serverVars
  <2>5. QED
    BY <2>3, <2>4 DEF Stands
<1>2. ASSUME NEW c \in {"viewer", "lister"}, ServerAccepts(c)
      PROVE  Stands'
  <2>1. /\ accepted' \subseteq {"viewer", "lister"}
        /\ UNCHANGED <<announced, body, creator, report, sent, old, got, answer, server, child,
                       holds, out, viewer, request, taken, saved, lister, listed, heard>>
    BY <1>2 DEF ServerAccepts, Stands, TypeOK, showVars, listVars
  <2>2. Stream' = Stream /\ Header' = Header
    BY <2>1 DEF Stream, Header
  <2>3. CASE conn = "open" /\ Cut
    BY <2>1, <2>2, <2>3, CutStands
  <2>4. CASE UNCHANGED <<conn, event, flushed>>
    <3>1. TypeOK'
      BY <2>1, <2>2, <2>4 DEF Stands, TypeOK
    <3>2. CreateStands' /\ ShowStands' /\ ListStands'
      BY <2>1, <2>2, <2>4 DEF Stands, CreateStands, ShowStands, ListStands
    <3>3. QED
      BY <3>1, <3>2 DEF Stands
  <2>5. QED
    BY <1>2, <2>3, <2>4 DEF ServerAccepts
<1>3. QED
  BY <1>1, <1>2

LEMMA ReadStands ==
    ASSUME Stands, ServerReads \/ ServerReadsEof
    PROVE  Stands'
<1>1. CASE ServerReads
  <2>1. PICK n \in got + 1 .. sent, newline \in BOOLEAN :
          /\ got' = n
          /\ \/ ~FieldsParse(n) /\ UNCHANGED <<conn, server, answer, event, flushed>>
             \/ FieldsParse(n) /\ event = "none" /\ Refuse
             \/ FieldsParse(n) /\ n < Header /\ ServerTerminates
             \/ n >= Header /\ event = "none" /\ CannotOpen
             \/ n >= Header /\ StoreBytes(n, Rest(n), newline)
    BY <1>1 DEF ServerReads
  <2>2. ParentOnly /\ server = "up" /\ conn = "open"
    BY <1>1 DEF ServerReads
  <2>3. /\ {Header, Prefix, got, sent, n} \subseteq Nat /\ n > got /\ n <= sent
        /\ Header > Prefix
    BY Numbers DEF Stands
  <2>4. /\ got' \in 0..sent /\ sent' = sent /\ got' > got
        /\ holds => flushed = announced /\ got >= Header + announced
    BY <2>1, <2>2, <2>3, ReadLeaves DEF Stands, CreateStands
  <2>5. CASE ~FieldsParse(n) /\ UNCHANGED <<conn, server, answer, event, flushed>>
    <3>1. n <= Prefix /\ got < Header
      BY <2>3, <2>5 DEF FieldsParse
    <3>2. TypeOK'
      BY <2>2, <2>4, <2>5, ReadTypes DEF Stands, TypeOK
    <3>3. CreateStands' /\ ShowStands' /\ ListStands'
      BY <2>1, <2>2, <2>3, <2>4, <2>5, <3>1, ReadLeaves DEF Stands, CreateStands, ShowStands, ListStands
    <3>4. QED
      BY <3>2, <3>3 DEF Stands
  <2>6. announced \in Nat /\ flushed \in Nat
    BY Numbers DEF Stands
  <2>7. CASE event = "none" /\ Refuse
    <3>1. answer' = "refused" /\ conn' = "closed" /\ UNCHANGED <<event, flushed, server>>
      BY <2>7 DEF Refuse, AnswerAndClose
    <3>2. TypeOK'
      BY <2>2, <2>4, <3>1, ReadTypes DEF Stands, TypeOK
    <3>3. CreateStands'
      BY <2>2, <2>3, <2>4, <2>6, <2>7, <3>1, ReadLeaves DEF Stands, CreateStands
    <3>4. ShowStands' /\ ListStands'
      BY <3>1, <2>2, ReadLeaves DEF Stands, ShowStands, ListStands
    <3>5. QED
      BY <3>2, <3>3, <3>4 DEF Stands
  <2>8. CASE event = "none" /\ CannotOpen
    <3>1. /\ answer' = "refused" /\ conn' = "closed" /\ event' = "partial"
          /\ UNCHANGED <<flushed, server>>
      BY <2>8 DEF CannotOpen, AnswerAndClose
    <3>2. TypeOK'
      BY <2>2, <2>4, <3>1, ReadTypes DEF Stands, TypeOK
    <3>3. CreateStands'
      BY <2>2, <2>3, <2>4, <2>6, <2>8, <3>1, ReadLeaves DEF Stands, CreateStands
    <3>4. ShowStands' /\ ListStands'
      BY <3>1, <2>2, ReadLeaves DEF Stands, ShowStands, ListStands
    <3>5. QED
      BY <3>2, <3>3, <3>4 DEF Stands
  <2>9. CASE FieldsParse(n) /\ n < Header /\ ServerTerminates
    <3>1. /\ conn' = "closed" /\ server' = "terminated"
          /\ UNCHANGED <<answer, event, flushed>>
      BY <2>9 DEF ServerTerminates
    <3>2. event # "pending"
      BY <2>2, <2>3, <2>9 DEF Stands, CreateStands
    <3>3. TypeOK'
      BY <2>2, <2>4, <3>1, ReadTypes DEF Stands, TypeOK
    <3>4. CreateStands' /\ ShowStands' /\ ListStands'
      BY <2>2, <2>3, <2>4, <2>6, <3>1, <3>2, ReadLeaves DEF Stands, CreateStands, ShowStands, ListStands
    <3>5. QED
      BY <3>3, <3>4 DEF Stands
  <2>10. CASE n >= Header /\ StoreBytes(n, Rest(n), newline)
    BY <2>1, <2>2, <2>10, ReadMore
  <2>11. QED
    BY <2>1, <2>5, <2>9, <2>10, <2>7, <2>8
<1>2. CASE ServerReadsEof
  <2>1. ParentOnly /\ conn = "open" /\ Cut /\ UNCHANGED <<got, answer, server>>
    BY <1>2 DEF ServerReadsEof
  <2>2. /\ accepted' \subseteq {"viewer", "lister"} /\ Stream' = Stream /\ Header' = Header
        /\ UNCHANGED <<announced, body, creator, report, sent, old, child, holds, out, viewer,
                       request, taken, saved, lister, listed, heard>>
    BY <2>1, ReadLeaves DEF Stands, TypeOK
  <2>3. QED
    BY <2>1, <2>2, CutStands
<1>3. QED
  BY <1>1, <1>2

-----------------------------------------------------------------------------
\* What the steps of a show and of a list leave alone.
LEMMA CreateKept ==
    ASSUME Stands, UNCHANGED createVars
    PROVE  /\ Stream' = Stream /\ Header' = Header
           /\ announced' \in Sizes /\ body' \in Sizes
           /\ sent' \in 0..Stream' /\ got' \in 0..sent' /\ flushed' \in 0..announced'
           /\ creator' \in {"sending", "waiting", "closed"} /\ report' \in {"none", "OK", "failed"}
           /\ conn' \in {"open", "closed"} /\ old' \in BOOLEAN
           /\ answer' \in {"none", "OK", "NOK", "refused"}
           /\ event' \in {"none", "pending", "whole", "partial", "destroyed"}
           /\ UNCHANGED <<announced, flushed, got, event, conn>>
           /\ /\ server' = "terminated" => server = "terminated"
              /\ holds' = holds \/ (flushed = announced /\ got >= Header + announced)
              => CreateStands'
<1>1. Stream' = Stream /\ Header' = Header
  BY DEF createVars, Stream, Header
<1>2. QED
  BY <1>1 DEF createVars, Stands, TypeOK, CreateStands

LEMMA ShowKeeps ==
    ASSUME Stands, ShowOnly, ShowStands',
           holds' = holds \/ (flushed = announced /\ got >= Header + announced),
           taken' \in 0..out', out' \in 0 .. ShowHeader + announced + 1, saved' \in 0..announced,
           child' \in {"none", "forked", "sending", "ended", "failed"}, holds' \in BOOLEAN,
           viewer' \in {"idle", "asked", "reading", "saved", "failed"}, request' \in BOOLEAN
    PROVE  Stands'
<1>1. UNCHANGED createVars /\ UNCHANGED <<server, accepted, lister, listed, heard>>
  BY DEF ShowOnly, listVars, serverVars
<1>2. TypeOK'
  BY <1>1, CreateKept DEF Stands, TypeOK
<1>3. ListStands'
  BY <1>1 DEF Stands, ListStands
<1>4. QED
  BY <1>1, <1>2, <1>3, CreateKept DEF Stands

LEMMA ChildStands ==
    ASSUME Stands, ViewerAsks \/ ServerShows \/ ChildOpens \/ ChildSends \/ ChildGivesUp
    PROVE  Stands'
<1>1. /\ announced \in Nat \ {0} /\ {out, taken, saved, flushed} \subseteq Nat
      /\ ShowHeader \in Nat \ {0} /\ Window \in Nat
  BY Numbers DEF Stands
<1>2. /\ taken \in 0..out /\ out \in 0 .. ShowHeader + announced + 1 /\ saved \in 0..announced
      /\ child \in {"none", "forked", "sending", "ended", "failed"} /\ holds \in BOOLEAN
      /\ viewer \in {"idle", "asked", "reading", "saved", "failed"} /\ request \in BOOLEAN
  BY DEF Stands, TypeOK
<1>3. ShowOnly => UNCHANGED <<announced, flushed>>
  BY DEF ShowOnly, createVars
<1>4. CASE ViewerAsks
  <2>1. ShowStands'
    BY <1>3, <1>4 DEF ViewerAsks, Stands, ShowStands
  <2>2. QED
    BY <1>2, <1>4, <2>1, ShowKeeps DEF ViewerAsks
<1>5. CASE ServerShows
  <2>1. ShowOnly /\ UNCHANGED <<out, taken, saved>> /\ request /\ request' = FALSE
    BY <1>5 DEF ServerShows
  <2>2. child = "none" /\ out = 0 /\ ~holds /\ viewer \in {"asked", "failed"} /\ taken = 0 /\ saved = 0
    BY <1>2, <2>1 DEF Stands, ShowStands
  <2>3. CASE /\ Showable /\ child' = "forked" /\ holds' = (conn = "open")
             /\ viewer' = IF viewer = "asked" THEN "reading" ELSE viewer
    <3>1. ShowStands'
      BY <1>1, <1>3, <2>1, <2>2, <2>3 DEF ShowStands, Showable
    <3>2. holds' => flushed = announced /\ got >= Header + announced
      <4>1. {Header, got} \subseteq Nat
        BY Numbers DEF Stands
      <4>2. QED
        BY <1>1, <2>3, <4>1 DEF Showable, Stands, TypeOK, CreateStands
    <3>3. QED
      BY <1>2, <1>3, <2>1, <2>2, <2>3, <3>1, <3>2, ShowKeeps
  <2>4. CASE ~Showable /\ viewer' = "failed" /\ UNCHANGED <<child, holds>>
    <3>1. ShowStands'
      BY <1>1, <1>3, <2>1, <2>2, <2>4 DEF ShowStands
    <3>2. QED
      BY <1>2, <1>3, <2>1, <2>4, <3>1, ShowKeeps
  <2>5. QED
    BY <1>5, <2>3, <2>4 DEF ServerShows
<1>6. CASE ChildOpens
  <2>1. /\ ShowOnly /\ UNCHANGED <<holds, viewer, request, taken, saved>>
        /\ child = "forked" /\ child' \in {"failed", "sending"} /\ out' = ShowHeader
    BY <1>6 DEF ChildOpens
  <2>2. out = 0 /\ taken = 0
    BY <1>2, <2>1 DEF Stands, ShowStands
  <2>3. ShowStands'
    BY <1>1, <1>3, <2>1, <2>2 DEF Stands, ShowStands
  <2>4. taken' \in 0..out' /\ out' \in 0 .. ShowHeader + announced + 1
    BY <1>1, <2>1, <2>2
  <2>5. QED
    BY <1>2, <2>1, <2>3, <2>4, ShowKeeps
<1>7. CASE ChildSends
  <2>1. ShowOnly /\ UNCHANGED <<holds, viewer, request, taken, saved>> /\ child = "sending"
    BY <1>7 DEF ChildSends
  <2>2. PICK n \in out + 1 .. Min({taken + Window, ShowHeader + announced + 1}) :
          out' = n /\ child' = IF n = ShowHeader + announced + 1 THEN "ended" ELSE "sending"
    BY <1>7 DEF ChildSends
  <2>3. Min({taken + Window, ShowHeader + announced + 1})
          = IF taken + Window <= ShowHeader + announced + 1
            THEN taken + Window ELSE ShowHeader + announced + 1
    <3>1. taken + Window \in Int /\ ShowHeader + announced + 1 \in Int
      BY <1>1
    <3>2. QED
      BY <3>1, MinOfTwo
  <2>4. out' \in Nat /\ out' <= ShowHeader + announced + 1 /\ out' > out
    BY <1>1, <2>2, <2>3
  <2>5. child' \in {"sending", "ended"}
    BY <2>2
  <2>6. ShowStands'
    <3>1. /\ flushed = announced /\ ~request /\ viewer \notin {"idle", "asked"}
          /\ ShowHeader <= out /\ UNCHANGED <<announced, flushed>>
      BY <1>3, <2>1 DEF Stands, ShowStands
    <3>2. ShowHeader <= out'
      BY <1>1, <2>4, <3>1
    <3>3. QED
      BY <2>1, <2>5, <3>1, <3>2 DEF Stands, ShowStands
  <2>7. taken' \in 0..out' /\ out' \in 0 .. ShowHeader + announced + 1
    BY <1>1, <1>2, <2>1, <2>4
  <2>8. QED
    BY <1>2, <1>3, <2>1, <2>5, <2>6, <2>7, ShowKeeps
<1>8. CASE ChildGivesUp
  <2>1. ShowStands'
    BY <1>3, <1>8 DEF ChildGivesUp, Epipe, Stands, ShowStands
  <2>2. QED
    BY <1>2, <1>3, <1>8, <2>1, ShowKeeps DEF ChildGivesUp
<1>9. QED
  BY <1>4, <1>5, <1>6, <1>7, <1>8

LEMMA ViewerStands ==
    ASSUME Stands, ViewerReads \/ ViewerTimesOut
    PROVE  Stands'
<1>1. /\ announced \in Nat \ {0} /\ {out, taken, saved, flushed} \subseteq Nat
      /\ {ShowHeader, Chunk} \subseteq Nat \ {0} /\ ShowHeader < Chunk
  BY Numbers DEF Stands
<1>2. /\ taken \in 0..out /\ out \in 0 .. ShowHeader + announced + 1 /\ saved \in 0..announced
      /\ child \in {"none", "forked", "sending", "ended", "failed"} /\ holds \in BOOLEAN
      /\ viewer \in {"idle", "asked", "reading", "saved", "failed"} /\ request \in BOOLEAN
  BY DEF Stands, TypeOK
<1>3. ShowOnly => UNCHANGED <<announced, flushed>>
  BY DEF ShowOnly, createVars
<1>4. CASE ViewerReads
  <2> DEFINE n == Min({Chunk, out - taken})
             bytes == IF taken = 0 THEN n - ShowHeader ELSE n
  <2>1. /\ taken' = taken + n /\ saved' = SavedAfter(bytes)
        /\ viewer' = IF saved + bytes >= announced THEN "saved" ELSE "reading"
        /\ UNCHANGED <<child, holds, out, request>> /\ ShowOnly
        /\ viewer = "reading" /\ ChunkReady
    BY <1>4 DEF ViewerReads
  <2>2. n = IF Chunk <= out - taken THEN Chunk ELSE out - taken
    <3>1. Chunk \in Int /\ out - taken \in Int
      BY <1>1
    <3>2. QED
      BY <3>1, MinOfTwo
  <2> HIDE DEF n
  <2>3. n \in Nat /\ taken + n <= out
    BY <1>1, <1>2, <2>2
  <2>4. taken = 0 => n >= ShowHeader
    BY <1>1, <2>1, <2>2 DEF ChunkReady, Stands, ShowStands
  <2>5. bytes \in Nat
    BY <1>1, <2>3, <2>4
  <2>6. saved' = IF announced <= saved + bytes THEN announced ELSE saved + bytes
    <3>1. announced \in Int /\ saved + bytes \in Int
      BY <1>1, <2>5
    <3>2. QED
      BY <2>1, <3>1, MinOfTwo DEF SavedAfter
  <2>7. saved < announced
    BY <2>1 DEF Stands, ShowStands
  <2>8. saved + bytes = taken' - ShowHeader /\ taken' >= ShowHeader /\ taken' \in Nat
    BY <1>1, <2>1, <2>3, <2>4, <2>7 DEF Stands, ShowStands
  <2>9. /\ saved' = IF taken' - ShowHeader <= announced THEN taken' - ShowHeader ELSE announced
        /\ saved' \in 0..announced
        /\ viewer' \in {"reading", "saved"}
        /\ viewer' = "reading" => saved' < announced
        /\ viewer' = "saved" => saved' = announced
    BY <1>1, <2>1, <2>5, <2>6, <2>8
  <2>10. ShowStands'
    BY <1>1, <1>3, <2>1, <2>8, <2>9 DEF Stands, ShowStands
  <2>11. taken' \in 0..out'
    BY <1>1, <1>2, <2>1, <2>3
  <2>12. QED
    BY <1>2, <1>3, <2>1, <2>9, <2>10, <2>11, ShowKeeps
<1>5. CASE ViewerTimesOut
  <2>1. ShowStands'
    BY <1>3, <1>5 DEF ViewerTimesOut, Stands, ShowStands
  <2>2. QED
    BY <1>2, <1>3, <1>5, <2>1, ShowKeeps DEF ViewerTimesOut
<1>6. QED
  BY <1>4, <1>5

LEMMA ListerStands ==
    ASSUME Stands, ListerAsks \/ ServerLists \/ ServerWritesList \/ ListerReads \/ ListerQuits
    PROVE  Stands'
<1> USE DEF ListerAsks, ServerLists, ServerWritesList, ListerReads, ListerQuits
<1>1. UNCHANGED createVars /\ UNCHANGED showVars /\ accepted' = accepted /\ holds' = holds
  BY DEF showVars, serverVars
<1>2. heard' \in 0..listed' /\ listed' \in 0..ListSize
  <2>1. /\ ListSize \in Nat /\ listed \in Nat /\ heard \in Nat
        /\ heard <= listed /\ listed <= ListSize
    BY TransfersAssumption DEF Stands, TypeOK
  <2>2. ServerWritesList => listed' = listed \/ listed < ListSize
    BY DEF Stands, ListStands
  <2>3. QED
    BY <2>1, <2>2
<1>3. /\ lister' \in {"idle", "asked", "reading", "gone"}
      /\ server' \in {"up", "listing", "terminated"}
      /\ server' = "terminated" => server = "terminated"
  BY DEF Stands, TypeOK, serverVars
<1>4. TypeOK'
  BY <1>1, <1>2, <1>3, CreateKept DEF Stands, TypeOK, showVars
<1>5. ShowStands'
  BY <1>1, CreateKept DEF Stands, ShowStands, showVars
<1>6. ListStands'
  BY <1>2, TransfersAssumption DEF Stands, ListStands, serverVars
<1>7. QED
  BY <1>1, <1>3, <1>4, <1>5, <1>6, CreateKept DEF Stands

-----------------------------------------------------------------------------
LEMMA StepStands == Stands /\ [Next]_vars => Stands'
<1> SUFFICES ASSUME Stands, [Next]_vars PROVE Stands'
  OBVIOUS
<1>1. CASE ServerStep
  BY <1>1, ReadStands, AcceptStands, ChildStands, ListerStands DEF ServerStep
<1>2. CASE CreatorStep \/ CreatorReset \/ CreatorQuits
  BY <1>2, CreatorStands DEF CreatorStep
<1>3. CASE ViewerStep
  BY <1>3, ViewerStands DEF ViewerStep
<1>4. CASE ChildStep \/ ViewerAsks
  BY <1>4, ChildStands DEF ChildStep
<1>5. CASE ListerReads \/ ListerAsks \/ ListerQuits \/ SessionAges
  BY <1>5, ListerStands, AcceptStands
<1>6. CASE UNCHANGED vars
  <2>1. /\ UNCHANGED createVars /\ UNCHANGED showVars /\ UNCHANGED listVars
        /\ UNCHANGED <<server, accepted>> /\ holds' = holds
    BY <1>6 DEF vars, serverVars, showVars
  <2>2. TypeOK'
    BY <2>1, CreateKept DEF Stands, TypeOK, showVars, listVars
  <2>3. ShowStands' /\ ListStands'
    BY <2>1, CreateKept DEF Stands, ShowStands, ListStands, showVars, listVars
  <2>4. QED
    BY <2>1, <2>2, <2>3, CreateKept DEF Stands
<1>7. QED
  BY <1>1, <1>2, <1>3, <1>4, <1>5, <1>6 DEF Next

LEMMA AlwaysStands == Spec => []Stands
BY InitStands, StepStands, PTL DEF Spec

\* No byte is written, read or stored that was not sent: neither the file that
\* write_event fills on the server nor the one the client's show() fills grows
\* beyond the announced size.
THEOREM CountersStayInBounds == Spec => []TypeOK
<1>1. Stands => TypeOK
  BY DEF Stands
<1>2. QED
  BY <1>1, AlwaysStands, PTL

\* write_event gives the same verdict wherever the reads of new_data cut the
\* header and the description: a description of the announced size is never
\* refused, an accepted one is on disk whole, and the client reports success
\* only of an accepted one.
THEOREM UploadsSurviveAnyCut == Spec => []CutsDoNotMatter
<1>1. Stands => CutsDoNotMatter
  BY DEF Stands, CreateStands, CutsDoNotMatter
<1>2. QED
  BY <1>1, AlwaysStands, PTL

\* The copy the client's show() reports as saved is the description without the
\* newline after it, for every length, chunk and header, although the event may
\* be destroyed while the child sends.
THEOREM SavedCopiesAreExact == Spec => []SavedIsTheDescription
<1>1. Stands => SavedIsTheDescription
  BY DEF Stands, ShowStands, SavedIsTheDescription
<1>2. QED
  BY <1>1, AlwaysStands, PTL

\* Only a show that finds the file complete forks (show's test of the file's size),
\* so the connection its child inherits is of a create that lacked no more than
\* the newline, and stays so whatever becomes of the event: the client left
\* without an end of stream is one whose event is there for everybody to see.
THEOREM HeldCreatesAreComplete == Spec => []OnlyFullFilesAreHeld
<1>1. Stands => OnlyFullFilesAreHeld
  BY DEF Stands, CreateStands, OnlyFullFilesAreHeld
<1>2. QED
  BY <1>1, AlwaysStands, PTL


=============================================================================
