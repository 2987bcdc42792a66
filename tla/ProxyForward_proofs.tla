------------------------- MODULE ProxyForward_proofs -------------------------
(***************************************************************************)
(* Proofs about one connection of the proxy, for any requests, responses,  *)
(* buffer sizes and segments.                                              *)
(***************************************************************************)
EXTENDS ProxyForward, DataLemmas, SequenceTheorems, FiniteSetTheorems, TLAPS

Byte == (Kind \X Nat) \cup {<<"G", 0>>, Garbage}
Bytes == Seq(Byte)

\* Where the thread is in a call that reads lines, reads bytes, or writes, and where in none.
LineAt == {"browser header", "status", "header"}
PieceAt == {"to the end", "part read"}
ToServer == {"request", "header sent", "blank sent"}
ToBrowser == {"status sent", "line sent", "piece sent", "part sent"}
Between == {"connect", "body", "by length", "insert", "exit", "undefined"}

\* Whom a call reads from, and whom it writes to.
Source == IF pc = "browser header" THEN "browser" ELSE "server"
Target == IF pc \in ToServer THEN "server" ELSE "browser"
ReadCalls(kind, p) == [call : {kind}, peer : {p}, left : Nat \ {0}, got : Bytes]
WriteCalls(p) == [call : {"write"}, peer : {p}, left : Bytes]

TypeOK ==
  /\ pc \in LineAt \cup PieceAt \cup ToServer \cup ToBrowser \cup Between
  /\ ret \in Int /\ buf \in Bytes /\ serverfd \in Int
  /\ rio \in [Peer -> Bytes] /\ net \in [Peer -> Bytes] /\ recv \in [Peer -> Bytes]
  /\ down \in [Peer -> BOOLEAN]
  /\ tsize \in Int /\ csize \in Int
  /\ response \in [bytes : Seq(Kind), length : Int, sent : Nat]

\* Each call is with the peer, and of the kind, that the place in proxy.c says.
IoOK ==
  \/ io = Idle
  \/ pc \in LineAt /\ io \in ReadCalls("line", Source)
  \/ pc \in PieceAt /\ io \in ReadCalls("bytes", Source)
  \/ pc \in ToServer \cup ToBrowser /\ io \in WriteCalls(Target)
  \/ pc \in ToServer /\ io = [call |-> "for ever"]

-----------------------------------------------------------------------------
(* What the calls of the RIO package do.                                   *)

\* A byte string cut in two.
LEMMA SplitAt ==
  ASSUME NEW q \in Bytes, NEW n \in 0..Len(q)
  PROVE  /\ SubSeq(q, 1, n) \in Bytes /\ SubSeq(q, n + 1, Len(q)) \in Bytes
         /\ q = SubSeq(q, 1, n) \o SubSeq(q, n + 1, Len(q))
         /\ Len(SubSeq(q, 1, n)) = n /\ Len(SubSeq(q, n + 1, Len(q))) = Len(q) - n
<1> USE DEF Bytes
<1>1. Len(q) \in Nat /\ n \in Nat /\ n <= Len(q)
  OBVIOUS
<1>2. \A i \in 1..Len(q) : q[i] \in Byte
  OBVIOUS
<1>3. SubSeq(q, 1, n) \in Bytes /\ Len(SubSeq(q, 1, n)) = n
  BY <1>1, <1>2
<1>4. SubSeq(q, n + 1, Len(q)) \in Bytes /\ Len(SubSeq(q, n + 1, Len(q))) = Len(q) - n
  BY <1>1, <1>2
<1>5. SubSeq(q, 1, n) \o SubSeq(q, n + 1, Len(q)) = SubSeq(q, 1, Len(q))
  <2>1. 1 \in 1..(Len(q) + 1) /\ n \in (1 - 1)..Len(q) /\ Len(q) \in n..Len(q)
    BY <1>1
  <2> QED BY <2>1, ConcatAdjacentSubSeq
<1>6. SubSeq(q, 1, Len(q)) = q
  BY SubSeqFull
<1> QED BY <1>3, <1>4, <1>5, <1>6

\* Two byte strings put together.
LEMMA Joined ==
  ASSUME NEW a \in Bytes, NEW b \in Bytes
  PROVE  a \o b \in Bytes /\ Len(a \o b) = Len(a) + Len(b) /\ Len(a) \in Nat /\ Len(b) \in Nat
BY DEF Bytes

\* The length of a string of bytes, zero only for the empty one.
LEMMA BytesLen == \A b \in Bytes : Len(b) \in Nat /\ (Len(b) = 0 <=> b = <<>>)
BY DEF Bytes

\* A call that goes on with more bytes got is a call of the same kind.
LEMMA ReadGoesOn ==
  ASSUME NEW kind, NEW p, NEW r \in ReadCalls(kind, p), NEW g \in Bytes, NEW l \in Nat \ {0}
  PROVE  /\ [r EXCEPT !.got = g, !.left = l] \in ReadCalls(kind, p)
         /\ [r EXCEPT !.got = g, !.left = l].got = g
         /\ [r EXCEPT !.got = g, !.left = l].left = l
BY DEF ReadCalls

\* A write of which a part is done is still the write its place asked for.
LEMMA WriteGoesOn ==
  ASSUME NEW p, NEW r \in WriteCalls(p), NEW l \in Bytes
  PROVE  /\ [r EXCEPT !.left = l] \in WriteCalls(p)
         /\ [r EXCEPT !.left = l].left = l
BY DEF WriteCalls

\* A call in progress is not Idle.
LEMMA Busy ==
  /\ \A kind, p : \A r \in ReadCalls(kind, p) : r.call = kind /\ r.peer = p
  /\ \A p : \A r \in WriteCalls(p) : r.call = "write" /\ r.peer = p
  /\ Idle.call = "none" /\ [call |-> "for ever"].call = "for ever"
BY DEF ReadCalls, WriteCalls, Idle

\* The read in progress: where the thread is, and whom it reads from.
LEMMA ReadCall ==
  ASSUME IoOK, Reading
  PROVE  /\ io # Idle /\ io.peer = Source /\ Source \in Peer
         /\ pc \in LineAt \cup PieceAt
         /\ io \in ReadCalls(io.call, Source)
         /\ IF pc \in LineAt THEN io.call = "line" ELSE io.call = "bytes"
         /\ io.left \in Nat \ {0} /\ io.got \in Bytes
<1>1. io # Idle /\ io \notin WriteCalls(Target) /\ io # [call |-> "for ever"]
  BY Busy DEF Reading
<1>2. (pc \in LineAt /\ io \in ReadCalls("line", Source)) \/ (pc \in PieceAt /\ io \in ReadCalls("bytes", Source))
  BY <1>1 DEF IoOK
<1>3. /\ \/ pc \in LineAt /\ io.call = "line" /\ io \in ReadCalls("line", Source)
         \/ pc \in PieceAt /\ io.call = "bytes" /\ io \in ReadCalls("bytes", Source)
      /\ io.peer = Source
  <2>1. CASE pc \in LineAt /\ io \in ReadCalls("line", Source)
    BY <2>1, Busy
  <2>2. CASE pc \in PieceAt /\ io \in ReadCalls("bytes", Source)
    BY <2>2, Busy
  <2> QED BY <1>2, <2>1, <2>2
<1>4. io \in ReadCalls(io.call, Source)
  <2>1. CASE io.call = "line" /\ io \in ReadCalls("line", Source)
    BY <2>1, Zenon
  <2>2. CASE io.call = "bytes" /\ io \in ReadCalls("bytes", Source)
    BY <2>2, Zenon
  <2> QED BY <1>3, <2>1, <2>2
<1>5. io.left \in Nat \ {0} /\ io.got \in Bytes
  BY <1>4 DEF ReadCalls
<1>6. ~(pc \in LineAt /\ pc \in PieceAt) /\ Source \in Peer
  BY DEF LineAt, PieceAt, Source, Peer
<1> QED BY <1>1, <1>2, <1>3, <1>4, <1>5, <1>6

\* The write in progress.
LEMMA WriteCall ==
  ASSUME IoOK, io.call = "write"
  PROVE  /\ io # Idle /\ io.peer = Target /\ Target \in Peer
         /\ pc \in ToServer \cup ToBrowser
         /\ io \in WriteCalls(Target) /\ io.left \in Bytes
<1>1. io # Idle /\ io # [call |-> "for ever"]
      /\ io \notin ReadCalls("line", Source) /\ io \notin ReadCalls("bytes", Source)
  BY Busy
<1>2. pc \in ToServer \cup ToBrowser /\ io \in WriteCalls(Target)
  BY <1>1 DEF IoOK
<1>3. io.left \in Bytes /\ Target \in Peer
  BY <1>2 DEF WriteCalls, Target, Peer
<1> QED BY <1>1, <1>2, <1>3, Busy

\* rio_readlineb and rio_readnb with unread bytes: some of them go to the buffer, and
\* the call goes on if more are wanted.
LEMMA TakeEffect ==
  ASSUME TypeOK, IoOK, Take
  PROVE  \E c, rest \in Bytes :
           /\ rio[io.peer] = c \o rest /\ rio' = [rio EXCEPT ![io.peer] = rest]
           /\ Len(c) \in 1..io.left /\ (io.call = "line" => Len(c) = 1)
           /\ io.got \o c \in Bytes /\ Len(io.got \o c) = Len(io.got) + Len(c)
           /\ \/ /\ io' \in ReadCalls(io.call, Source) /\ io' # Idle
                 /\ io'.got = io.got \o c /\ io'.left = io.left - Len(c)
                 /\ io.call = "line" => c[1][1] # "n"
                 /\ UNCHANGED <<ret, buf>>
              \/ /\ io' = Idle /\ buf' = io.got \o c
                 /\ ret' \in Int /\ ret' > 0
                 /\ Len(c) = io.left \/ (io.call = "line" /\ c[1][1] = "n")
                 /\ io.call = "bytes" => ret' = Len(buf')
<1> DEFINE s == io.peer
           cnt == IF io.call = "line" THEN 1 ELSE IF Len(rio[s]) < io.left THEN Len(rio[s]) ELSE io.left
           c == SubSeq(rio[s], 1, cnt)
           rest == SubSeq(rio[s], cnt + 1, Len(rio[s]))
           got == io.got \o c
           left == io.left - cnt
<1>1. Reading /\ rio[s] # <<>>
  BY DEF Take
<1>2. /\ io.left \in Nat \ {0} /\ io.got \in Bytes /\ s \in Peer
      /\ io.call = "line" \/ io.call = "bytes"
  BY <1>1, ReadCall DEF Reading
<1>3. rio[s] \in Bytes /\ Len(rio[s]) \in Nat \ {0}
  BY <1>1, <1>2 DEF TypeOK, Bytes
<1>4. cnt \in 1..io.left /\ cnt \in 0..Len(rio[s]) /\ (io.call = "line" => cnt = 1)
  <2> HIDE DEF s
  <2> QED BY <1>2, <1>3
<1>5. rio' = [rio EXCEPT ![s] = rest]
  BY DEF Take
<1>6. IF left = 0 \/ (io.call = "line" /\ LineDone(got, left))
      THEN /\ Return(IF io.call = "line" /\ got[Len(got)][1] # "n" THEN Len(got) + 1 ELSE Len(got))
           /\ buf' = got
      ELSE io' = [io EXCEPT !.got = got, !.left = left] /\ UNCHANGED <<ret, buf>>
  BY DEF Take
<1> HIDE DEF cnt, s
<1>7. c \in Bytes /\ rest \in Bytes /\ rio[s] = c \o rest /\ Len(c) = cnt
  BY <1>3, <1>4, SplitAt
<1> HIDE DEF c, rest
<1>8. got \in Bytes /\ Len(got) = Len(io.got) + Len(c) /\ Len(got) \in Nat
  BY <1>2, <1>7, Joined
<1>11. io.call = "line" => (LineDone(got, left) <=> left = 0 \/ c[1][1] = "n")
  <2> SUFFICES ASSUME io.call = "line"
               PROVE  LineDone(got, left) <=> left = 0 \/ c[1][1] = "n"
    OBVIOUS
  <2>1. Len(c) = 1 /\ Len(io.got) \in Nat /\ Len(got) = Len(io.got) + 1
    BY <1>2, <1>4, <1>7, <1>8 DEF Bytes
  <2>2. got[Len(io.got) + 1] = c[1]
    BY <1>2, <1>7, <2>1 DEF Bytes
  <2>3. got # <<>> /\ got[Len(got)] = c[1]
    BY <1>8, <2>1, <2>2
  <2> HIDE DEF got, left
  <2> QED BY <2>3 DEF LineDone
<1> HIDE DEF got
<1>9. CASE left = 0 \/ (io.call = "line" /\ LineDone(got, left))
  <2>1. /\ io' = Idle /\ buf' = got
        /\ ret' = IF io.call = "line" /\ got[Len(got)][1] # "n" THEN Len(got) + 1 ELSE Len(got)
    BY <1>6, <1>9 DEF Return
  <2>2. ret' \in Int /\ ret' > 0 /\ (io.call = "bytes" => ret' = Len(buf'))
    <3>1. Len(io.got) \in Nat /\ Len(c) > 0 /\ Len(c) \in Nat
      <4>1. Len(io.got) \in Nat
        BY <1>2 DEF Bytes
      <4>2. Len(c) \in 1..io.left
        BY <1>4, <1>7
      <4> QED BY <4>1, <4>2, <1>2
    <3> QED BY <2>1, <3>1, <1>8
  <2>3. Len(c) = io.left \/ (io.call = "line" /\ c[1][1] = "n")
    BY <1>2, <1>4, <1>7, <1>9, <1>11
  <2> QED BY <2>1, <2>2, <2>3, <1>4, <1>5, <1>7, <1>8 DEF got, s
<1>10. CASE ~(left = 0 \/ (io.call = "line" /\ LineDone(got, left)))
  <2>1. io' = [io EXCEPT !.got = got, !.left = left] /\ UNCHANGED <<ret, buf>>
    BY <1>6, <1>10
  <2>2. left \in Nat \ {0} /\ left = io.left - Len(c)
    BY <1>2, <1>4, <1>7, <1>10
  <2>3. io \in ReadCalls(io.call, Source)
    BY <1>1, ReadCall
  <2>4. /\ [io EXCEPT !.got = io.got \o c, !.left = io.left - Len(c)] \in ReadCalls(io.call, Source)
        /\ [io EXCEPT !.got = io.got \o c, !.left = io.left - Len(c)].got = io.got \o c
        /\ [io EXCEPT !.got = io.got \o c, !.left = io.left - Len(c)].left = io.left - Len(c)
    <3>1. io.left - Len(c) \in Nat \ {0} /\ io.got \o c \in Bytes
      BY <1>8, <2>2 DEF got
    <3>2. io.left - Len(c) \in Nat \ {0} /\ io.got \o c \in Bytes /\ io \in ReadCalls(io.call, Source)
      BY <2>3, <3>1
    <3>3. [io EXCEPT !.got = io.got \o c, !.left = io.left - Len(c)] \in ReadCalls(io.call, Source)
      BY ONLY <3>2, ReadGoesOn
    <3>4. [io EXCEPT !.got = io.got \o c, !.left = io.left - Len(c)].got = io.got \o c
      BY ONLY <3>2 DEF ReadCalls
    <3>5. [io EXCEPT !.got = io.got \o c, !.left = io.left - Len(c)].left = io.left - Len(c)
      BY ONLY <3>2 DEF ReadCalls
    <3> QED BY <3>3, <3>4, <3>5
  <2>5. io' \in ReadCalls(io.call, Source) /\ io'.got = got /\ io'.left = io.left - Len(c)
    <3>1. io' = [io EXCEPT !.got = io.got \o c, !.left = io.left - Len(c)]
      BY <2>1, <2>2 DEF got
    <3> QED BY <2>4, <3>1 DEF got
  <2>6. io' # Idle
    <3>1. io'.call = io.call
      BY <2>5, Busy
    <3> QED BY <3>1, <1>2, Busy
  <2>7. io.call = "line" => c[1][1] # "n"
    BY <1>10, <1>11
  <2> QED BY <2>1, <2>5, <2>6, <2>7, <1>4, <1>5, <1>7, <1>8 DEF got, s
<1> QED BY <1>9, <1>10

\* rio_writen: what is left is written in parts, from its start.
LEMMA WriteEffect ==
  ASSUME TypeOK, IoOK, NEW k \in 1..MAXLINE, Write(k)
  PROVE  \E c, rest \in Bytes :
           /\ io.left = c \o rest /\ Len(c) > 0
           /\ io' \in WriteCalls(Target) /\ io' # Idle /\ io'.left = rest
           /\ recv' = [recv EXCEPT ![io.peer] = @ \o c]
<1>1. io.call = "write" /\ io.left \in Bytes /\ k \in 0..Len(io.left) /\ k > 0
  BY WriteCall, SizeAssumption DEF Write, Bytes
<1> DEFINE c == SubSeq(io.left, 1, k)
           rest == SubSeq(io.left, k + 1, Len(io.left))
<1>2. c \in Bytes /\ rest \in Bytes /\ io.left = c \o rest /\ Len(c) = k
  BY <1>1, SplitAt
<1>3. io' = [io EXCEPT !.left = rest] /\ recv' = [recv EXCEPT ![io.peer] = @ \o c]
  BY DEF Write
<1> HIDE DEF c, rest
<1>4. io' \in WriteCalls(Target) /\ io'.left = rest
  BY <1>1, <1>2, <1>3, WriteCall, WriteGoesOn
<1>5. io' # Idle
  BY <1>4, Busy
<1> QED BY <1>1, <1>2, <1>3, <1>4, <1>5

\* rio_read refills its buffer from the start of what has come.
LEMMA RefillEffect ==
  ASSUME TypeOK, IoOK, NEW k \in 1..RIO_BUFSIZE, Refill(k)
  PROVE  \E c, rest \in Bytes :
           /\ net[io.peer] = c \o rest
           /\ rio' = [rio EXCEPT ![io.peer] = c]
           /\ net' = [net EXCEPT ![io.peer] = rest]
<1>1. io.peer \in Peer
  BY ReadCall DEF Refill
<1>2. net[io.peer] \in Bytes /\ k \in 0..Len(net[io.peer])
  BY <1>1, SizeAssumption DEF Refill, TypeOK, Bytes
<1> DEFINE q == net[io.peer]
           c == SubSeq(q, 1, k)
           rest == SubSeq(q, k + 1, Len(q))
<1>3. c \in Bytes /\ rest \in Bytes /\ q = c \o rest
  BY <1>2, SplitAt
<1>4. rio' = [rio EXCEPT ![io.peer] = c] /\ net' = [net EXCEPT ![io.peer] = rest]
  BY DEF Refill
<1> HIDE DEF c, rest
<1> QED BY <1>3, <1>4

\* What a call is when it begins.
LEMMA CallBegins ==
  /\ \A s : readlineb(s) => io' \in ReadCalls("line", s)
  /\ \A s : \A n \in Nat \ {0} : readnb(s, n) => io' \in ReadCalls("bytes", s)
  /\ \A s : \A b \in Bytes : writen(s, b) => io' \in WriteCalls(s) /\ io'.left = b
<1>1. MAXLINE - 1 \in Nat \ {0} /\ <<>> \in Bytes
  BY SizeAssumption DEF Bytes
<1>2. \A s : readlineb(s) => io' \in ReadCalls("line", s)
  BY <1>1 DEF readlineb, ReadCalls
<1>3. \A s : \A n \in Nat \ {0} : readnb(s, n) => io' \in ReadCalls("bytes", s)
  BY <1>1 DEF readnb, ReadCalls
<1>4. \A s : \A b \in Bytes : writen(s, b) => io' \in WriteCalls(s) /\ io'.left = b
  BY DEF writen, WriteCalls
<1> QED BY <1>2, <1>3, <1>4

\* A call of RIO has begun when the thread has made it.
LEMMA CallNotIdle ==
  /\ \A s : readlineb(s) => io' # Idle
  /\ \A s, n : readnb(s, n) => io' # Idle
  /\ \A s, b : writen(s, b) => io' # Idle
BY DEF readlineb, readnb, writen, Idle

\* The constants the thread writes by itself.
LEMMA OwnBytes == CRLF \in Bytes /\ <<<<"G", 0>>>> \in Bytes /\ <<>> \in Bytes /\ <<Garbage>> \in Bytes
<1>2. \A b \in Byte : <<b>> \in Bytes
  BY DEF Bytes
<1>3. \A b, d \in Byte : <<b, d>> \in Bytes
  BY DEF Bytes
<1>4. <<"r", 0>> \in Byte /\ <<"n", 0>> \in Byte /\ <<"G", 0>> \in Byte /\ <<"?", 0>> \in Byte
  BY DEF Byte, Kind, Garbage
<1>5. CRLF \in Bytes /\ <<<<"G", 0>>>> \in Bytes /\ <<Garbage>> \in Bytes
  BY <1>2, <1>3, <1>4 DEF CRLF, Garbage
<1> QED BY <1>5 DEF Bytes

-----------------------------------------------------------------------------
(* Types.                                                                  *)

Places == LineAt \cup PieceAt \cup ToServer \cup ToBrowser \cup Between

\* A place that is on one list is on no other.
LEMMA PlacesApart ==
  /\ pc \in LineAt => pc \notin PieceAt \cup ToServer \cup ToBrowser \cup Between
  /\ pc \in PieceAt => pc \notin LineAt \cup ToServer \cup ToBrowser \cup Between
  /\ pc \in ToServer => pc \notin LineAt \cup PieceAt \cup ToBrowser \cup Between
  /\ pc \in ToBrowser => pc \notin LineAt \cup PieceAt \cup ToServer \cup Between
BY DEF LineAt, PieceAt, ToServer, ToBrowser, Between

\* What a peer sends is a byte string, as long as its kinds.
LEMMA StreamBytes ==
  ASSUME NEW q \in Seq(Kind)
  PROVE  Stream(q) \in Bytes /\ Len(Stream(q)) = Len(q)
<1>1. Len(q) \in Nat /\ DOMAIN q = 1..Len(q) /\ \A k \in 1..Len(q) : <<q[k], k>> \in Byte
  BY DEF Byte
<1>2. Stream(q) \in [1..Len(q) -> Byte]
  BY <1>1 DEF Stream
<1>3. Stream(q) \in Bytes
  BY <1>1, <1>2, SeqDef DEF Bytes
<1>4. DOMAIN Stream(q) = 1..Len(q)
  BY <1>1 DEF Stream
<1> QED BY <1>1, <1>3, <1>4, LenProperties DEF Bytes

\* A connection begins well typed and with no call under way.
LEMMA TypeInit == Init => TypeOK /\ IoOK
<1> SUFFICES ASSUME Init PROVE TypeOK /\ IoOK
  OBVIOUS
<1>0. PICK request \in Requests, r \in Responses : \E k \in 0..Len(r.bytes) :
        /\ response = [bytes |-> r.bytes, length |-> r.length, sent |-> k]
        /\ net = [s \in Peer |-> IF s = "browser" THEN Stream(request)
                                 ELSE SubSeq(Stream(r.bytes), 1, k)]
  BY DEF Init
<1>1. PICK k \in 0..Len(r.bytes) :
        /\ response = [bytes |-> r.bytes, length |-> r.length, sent |-> k]
        /\ net = [s \in Peer |-> IF s = "browser" THEN Stream(request)
                                 ELSE SubSeq(Stream(r.bytes), 1, k)]
  BY <1>0
<1>2. r.bytes \in Seq(Kind) /\ r.length \in Int /\ request \in Seq(Kind)
  BY PeerAssumption
<1>3. \A q \in Seq(Kind) : Stream(q) \in Bytes /\ Len(Stream(q)) = Len(q)
  BY StreamBytes
<1>4. k \in Nat /\ SubSeq(Stream(r.bytes), 1, k) \in Bytes
  <2>1. k \in Nat /\ k \in 0..Len(Stream(r.bytes)) /\ Stream(r.bytes) \in Bytes
    BY <1>2, <1>3
  <2> QED BY <2>1, SplitAt
<1>5. net \in [Peer -> Bytes] /\ response \in [bytes : Seq(Kind), length : Int, sent : Nat]
  BY <1>1, <1>2, <1>3, <1>4
<1> QED BY <1>5, OwnBytes DEF Init, TypeOK, IoOK, Between

\* Each step of the RIO package keeps the types and the call it is part of.
LEMMA TypeTake == TypeOK /\ IoOK /\ Take => TypeOK' /\ IoOK'
<1> SUFFICES ASSUME TypeOK, IoOK, Take PROVE TypeOK' /\ IoOK'
  OBVIOUS
<1>1. PICK c \in Bytes, rest \in Bytes :
        /\ rio' = [rio EXCEPT ![io.peer] = rest]
        /\ io.got \o c \in Bytes
        /\ \/ /\ io' \in ReadCalls(io.call, Source) /\ io' # Idle
              /\ io'.got = io.got \o c /\ io'.left = io.left - Len(c)
              /\ UNCHANGED <<ret, buf>>
           \/ io' = Idle /\ buf' = io.got \o c /\ ret' \in Int
  BY TakeEffect
<1>2. io \in ReadCalls(io.call, Source) /\ io.left \in Nat /\ Len(c) \in Nat
      /\ IF pc \in LineAt THEN io.call = "line" ELSE pc \in PieceAt /\ io.call = "bytes"
  BY ReadCall DEF Take, Bytes
<1>3. UNCHANGED <<pc, peerVars, serverfd, copyVars, response>> /\ Source' = Source
  BY DEF Take, Source
<1>4. TypeOK'
  <2>1. buf' \in Bytes /\ ret' \in Int
    BY <1>1 DEF TypeOK
  <2>2. rio' \in [Peer -> Bytes]
    BY <1>1 DEF TypeOK
  <2> QED BY <2>1, <2>2, <1>3 DEF TypeOK, peerVars, copyVars
<1>5. CASE io' = Idle
  BY <1>4, <1>5 DEF IoOK, Idle
<1>6. CASE io' # Idle
  <2>1. io' \in ReadCalls(io.call, Source)
    BY <1>1, <1>6
  <2>2. CASE pc \in LineAt
    <3>1. io.call = "line" /\ pc' \in LineAt
      BY <1>2, <1>3, <2>2
    <3>2. io' \in ReadCalls("line", Source')
      BY <1>3, <2>1, <3>1, Zenon
    <3> QED BY <1>4, <3>1, <3>2 DEF IoOK
  <2>3. CASE pc \notin LineAt
    <3>1. io.call = "bytes" /\ pc' \in PieceAt
      BY <1>2, <1>3, <2>3
    <3>2. io' \in ReadCalls("bytes", Source')
      BY <1>3, <2>1, <3>1, Zenon
    <3> QED BY <1>4, <3>1, <3>2 DEF IoOK
  <2> QED BY <2>2, <2>3
<1> QED BY <1>4, <1>5, <1>6

\* A partial write keeps the types and the call.
LEMMA TypeWrite ==
  ASSUME TypeOK, IoOK, NEW k \in 1..MAXLINE, Write(k)
  PROVE  TypeOK' /\ IoOK'
<1>1. PICK c \in Bytes, rest \in Bytes :
        /\ io' \in WriteCalls(Target)
        /\ recv' = [recv EXCEPT ![io.peer] = @ \o c]
  BY WriteEffect
<1>2. io \in WriteCalls(Target) /\ io.peer \in Peer /\ pc \in ToServer \cup ToBrowser
  BY WriteCall DEF Write
<1>3. UNCHANGED <<pc, ret, buf, rio, net, down, serverfd, copyVars, response>> /\ Target' = Target
  BY DEF Write, Target
<1>4. recv[io.peer] \o c \in Bytes
  BY <1>2, Joined DEF TypeOK
<1>5. TypeOK'
  BY <1>1, <1>2, <1>3, <1>4 DEF TypeOK, copyVars
<1> QED BY <1>1, <1>2, <1>3, <1>5 DEF IoOK

\* So does a refill of rio_buf.
LEMMA TypeRefill ==
  ASSUME TypeOK, IoOK, NEW k \in 1..RIO_BUFSIZE, Refill(k)
  PROVE  TypeOK' /\ IoOK'
<1>1. PICK c \in Bytes, rest \in Bytes :
        /\ rio' = [rio EXCEPT ![io.peer] = c]
        /\ net' = [net EXCEPT ![io.peer] = rest]
  BY RefillEffect
<1>2. UNCHANGED <<pc, io, ret, buf, down, recv, serverfd, copyVars, response>>
      /\ Source' = Source /\ Target' = Target
  BY DEF Refill, Source, Target
<1>3. TypeOK'
  BY <1>1, <1>2 DEF TypeOK, copyVars
<1> QED BY <1>2, <1>3 DEF IoOK

\* So does the return of a read or a write.
LEMMA TypeReturns ==
  TypeOK /\ IoOK /\ (ReadEof \/ ReadFails \/ WriteDone \/ WriteFails) => TypeOK' /\ IoOK'
<1> SUFFICES ASSUME TypeOK, IoOK, ReadEof \/ ReadFails \/ WriteDone \/ WriteFails
             PROVE  TypeOK' /\ IoOK'
  OBVIOUS
<1>1. Len(buf) \in Nat
  BY DEF TypeOK, Bytes
<1>2. UNCHANGED <<pc, rio, peerVars, serverfd, copyVars, response>>
  BY DEF ReadEof, ReadFails, WriteDone, WriteFails
<1>3. buf' \in Bytes /\ ret' \in Int
  <2>1. CASE ReadEof
    <3>1. io.got \in Bytes
      BY <2>1, ReadCall DEF ReadEof
    <3>2. Len(io.got) \in Nat
      BY <3>1 DEF Bytes
    <3> QED BY <2>1, <3>1, <3>2 DEF ReadEof, Return, TypeOK
  <2>2. CASE ReadFails
    <3>1. io.got \in Bytes
      BY <2>2, ReadCall DEF ReadFails
    <3>2. SubSeq(buf, Len(io.got) + 1, Len(buf)) \in Bytes
      <4>1. \A k \in 1..Len(buf) : buf[k] \in Byte
        BY DEF TypeOK, Bytes
      <4>2. Len(io.got) \in Nat
        BY <3>1 DEF Bytes
      <4> QED BY <1>1, <4>1, <4>2 DEF Bytes
    <3>3. io.got \o SubSeq(buf, Len(io.got) + 1, Len(buf)) \in Bytes
      BY <3>1, <3>2, Joined
    <3> QED BY <2>2, <3>3 DEF ReadFails, Return, Overwritten
  <2>3. CASE WriteDone
    BY <1>1, <2>3 DEF WriteDone, Return, TypeOK
  <2>4. CASE WriteFails
    <3>1. buf' = buf /\ (ret' = Len(buf) \/ ret' = ret \/ ret' = -1)
      BY <2>4 DEF WriteFails, Return
    <3> QED BY <1>1, <3>1 DEF TypeOK
  <2> QED BY <2>1, <2>2, <2>3, <2>4
<1>4. io' = Idle \/ (pc \in ToServer /\ io' = [call |-> "for ever"])
  <2>1. CASE WriteFails
    <3>1. pc \in ToServer \cup ToBrowser /\ io.peer = Target
      BY <2>1, WriteCall DEF WriteFails
    <3> QED BY <2>1, <3>1 DEF WriteFails, Return, Target
  <2>2. CASE ReadEof \/ ReadFails \/ WriteDone
    BY <2>2 DEF ReadEof, ReadFails, WriteDone, Return
  <2> QED BY <2>1, <2>2
<1>5. TypeOK'
  BY <1>2, <1>3 DEF TypeOK, peerVars, copyVars
<1> QED BY <1>2, <1>4, <1>5 DEF IoOK

\* A step of the thread between two calls starts the next call of its place, or none.
LEMMA TypeThread ==
  TypeOK /\ IoOK /\ Thread /\ ~Call => TypeOK' /\ IoOK'
<1> SUFFICES ASSUME TypeOK, IoOK, Thread, ~Call PROVE TypeOK' /\ IoOK'
  OBVIOUS
<1> USE DEF LineAt, PieceAt, ToServer, ToBrowser, Between
<1>0. MAXLINE \in Nat \ {0} /\ (csize > 0 => Smaller(csize, MAXLINE) \in Nat \ {0}) /\ buf \in Bytes
  <2>1. csize \in Int /\ buf \in Bytes
    BY DEF TypeOK
  <2> QED BY <2>1, SizeAssumption DEF Smaller
<1>20. \A n \in Int : Store(n, TRUE) \/ Store(n, FALSE) => tsize' \in Int
  <2>1. tsize \in Int
    BY DEF TypeOK
  <2> QED BY <2>1 DEF Store
<1>1. CASE Open_clientfd
  <2>1. IoOK'
    BY <1>0, <1>1, CallBegins, OwnBytes DEF Open_clientfd, IoOK, Idling, Source, Target, Idle, Exit, Forward
  <2>2. TypeOK'
    BY <1>0, <1>1, OwnBytes DEF Open_clientfd, TypeOK, Exit, peerVars, copyVars
  <2> QED BY <2>1, <2>2
<1>2. CASE RequestSent
  <2>1. IoOK'
    BY <1>0, <1>2, CallBegins DEF RequestSent, IoOK, Idling, Source, Target, Idle, Exit, Forward
  <2>2. TypeOK'
    BY <1>0, <1>2 DEF RequestSent, TypeOK, Exit, peerVars, copyVars
  <2> QED BY <2>1, <2>2
<1>3. CASE BrowserHeader
  <2>1. IoOK'
    BY <1>0, <1>3, CallBegins, OwnBytes DEF BrowserHeader, IoOK, Idling, Source, Target, Idle, Exit, Forward
  <2>2. TypeOK'
    BY <1>0, <1>3, OwnBytes DEF BrowserHeader, TypeOK, Exit, peerVars, copyVars
  <2> QED BY <2>1, <2>2
<1>4. CASE HeaderSent
  <2>1. IoOK'
    BY <1>0, <1>4, CallBegins DEF HeaderSent, IoOK, Idling, Source, Target, Idle, Exit, Forward
  <2>2. TypeOK'
    BY <1>0, <1>4 DEF HeaderSent, TypeOK, Exit, peerVars, copyVars
  <2> QED BY <2>1, <2>2
<1>5. CASE BlankSent
  <2>1. IoOK'
    BY <1>0, <1>5, CallBegins, OwnBytes DEF BlankSent, IoOK, Idling, Source, Target, Idle, Exit, Forward
  <2>2. TypeOK'
    BY <1>0, <1>5, OwnBytes DEF BlankSent, TypeOK, Exit, peerVars
  <2> QED BY <2>1, <2>2
<1>6. CASE Status
  <2>1. IoOK'
    BY <1>0, <1>6, CallBegins DEF Status, IoOK, Idling, Source, Target, Idle, Exit, Forward
  <2>2. TypeOK'
    BY <1>0, <1>6 DEF Status, TypeOK, Exit, peerVars, copyVars
  <2> QED BY <2>1, <2>2
<1>7. CASE StatusSent
  <2>1. IoOK'
    BY <1>0, <1>7, CallBegins DEF StatusSent, IoOK, Idling, Source, Target, Idle, Exit, Forward
  <2>2. TypeOK'
    <3>1. tsize' \in Int
      BY <1>7, <1>20 DEF StatusSent, TypeOK
    <3> QED BY <1>0, <1>7, <3>1 DEF StatusSent, TypeOK, Exit, peerVars
  <2> QED BY <2>1, <2>2
<1>8. CASE Header
  <2>1. IoOK'
    BY <1>0, <1>8, CallBegins DEF Header, IoOK, Idling, Source, Target, Idle, Exit, Forward
  <2>2. TypeOK'
    BY <1>0, <1>8 DEF Header, TypeOK, Exit, peerVars
  <2> QED BY <2>1, <2>2
<1>9. CASE LineSent
  <2>1. IoOK'
    BY <1>0, <1>9, CallBegins DEF LineSent, IoOK, Idling, Source, Target, Idle, Exit, Forward
  <2>2. TypeOK'
    <3>1. tsize' \in Int
      BY <1>9, <1>20 DEF LineSent, TypeOK
    <3> QED BY <1>0, <1>9, <3>1 DEF LineSent, TypeOK, Exit, peerVars
  <2> QED BY <2>1, <2>2
<1>10. CASE Body
  <2>1. IoOK'
    BY <1>0, <1>10, CallBegins DEF Body, IoOK, Idling, Source, Target, Idle, Exit, Forward
  <2>2. TypeOK'
    <3>0. (tsize' = tsize \/ tsize' = tsize + csize) /\ tsize \in Int /\ csize \in Int
      BY <1>10 DEF Body, TypeOK
    <3>1. tsize' \in Int
      BY <3>0
    <3> QED BY <1>10, <3>1 DEF Body, TypeOK, peerVars
  <2> QED BY <2>1, <2>2
<1>11. CASE ToTheEnd
  <2>1. IoOK'
    BY <1>0, <1>11, CallBegins DEF ToTheEnd, IoOK, Idling, Source, Target, Idle, Exit, Forward
  <2>2. TypeOK'
    BY <1>0, <1>11 DEF ToTheEnd, TypeOK, Exit, peerVars, copyVars, Forward
  <2> QED BY <2>1, <2>2
<1>12. CASE PieceSent
  <2>1. IoOK'
    BY <1>0, <1>12, CallBegins DEF PieceSent, IoOK, Idling, Source, Target, Idle, Exit, Forward
  <2>2. TypeOK'
    <3>1. tsize' \in Int
      BY <1>12, <1>20 DEF PieceSent, TypeOK
    <3> QED BY <1>0, <1>12, <3>1 DEF PieceSent, TypeOK, Exit, peerVars
  <2> QED BY <2>1, <2>2
<1>13. CASE ByLength
  <2>1. IoOK'
    BY <1>0, <1>13, CallBegins DEF ByLength, IoOK, Idling, Source, Target, Idle, Exit, Forward
  <2>2. TypeOK'
    BY <1>0, <1>13 DEF ByLength, TypeOK, Exit, peerVars, copyVars
  <2> QED BY <2>1, <2>2
<1>14. CASE PartRead
  <2>1. IoOK'
    BY <1>0, <1>14, CallBegins DEF PartRead, IoOK, Idling, Source, Target, Idle, Exit, Forward
  <2>2. TypeOK'
    BY <1>0, <1>14 DEF PartRead, TypeOK, Exit, peerVars, copyVars, Forward
  <2> QED BY <2>1, <2>2
<1>15. CASE PartSent
  <2>1. IoOK'
    BY <1>0, <1>15, CallBegins DEF PartSent, IoOK, Idling, Source, Target, Idle, Exit, Forward
  <2>2. TypeOK'
    <3>1. tsize' \in Int
      BY <1>15, <1>20 DEF PartSent, TypeOK
    <3>2. csize' \in Int
      <4>1. csize \in Int /\ csize' = IF csize >= MAXLINE THEN csize - MAXLINE ELSE 0
        BY <1>15 DEF PartSent, TypeOK
      <4> QED BY <4>1, <1>0
    <3> QED BY <1>15, <3>1, <3>2 DEF PartSent, TypeOK, peerVars
  <2> QED BY <2>1, <2>2
<1>16. CASE Insert_cache
  <2>1. IoOK'
    BY <1>16 DEF Insert_cache, IoOK, Idling, ioVars
  <2>2. TypeOK'
    BY <1>16 DEF Insert_cache, TypeOK, Exit, ioVars, peerVars
  <2> QED BY <2>1, <2>2
<1> QED BY <1>1, <1>2, <1>3, <1>4, <1>5, <1>6, <1>7, <1>8, <1>9, <1>10, <1>11, <1>12, <1>13, <1>14, <1>15, <1>16 DEF Thread

\* So does a peer's reset.
LEMMA TypeReset ==
  TypeOK /\ IoOK /\ (\E s \in Peer : Reset(s)) => TypeOK' /\ IoOK'
<1> SUFFICES ASSUME TypeOK, IoOK, NEW s \in Peer, Reset(s) PROVE TypeOK' /\ IoOK'
  OBVIOUS
<1>1. TypeOK'
  BY OwnBytes DEF Reset, TypeOK, ioVars, copyVars
<1>2. IoOK'
  BY DEF Reset, IoOK, ioVars, Source, Target
<1> QED BY <1>1, <1>2

\* Every step keeps the types and the calls.
LEMMA TypeStep == TypeOK /\ IoOK /\ [Next]_vars => TypeOK' /\ IoOK'
<1> SUFFICES ASSUME TypeOK, IoOK, [Next]_vars PROVE TypeOK' /\ IoOK'
  OBVIOUS
<1>1. CASE Call
  BY <1>1, TypeTake, TypeWrite, TypeRefill, TypeReturns DEF Call
<1>2. CASE Thread /\ ~Call
  BY <1>2, TypeThread
<1>3. CASE \E s \in Peer : Reset(s)
  BY <1>3, TypeReset
<1>4. CASE UNCHANGED vars
  BY <1>4 DEF vars, ioVars, peerVars, copyVars, TypeOK, IoOK, Source, Target
<1> QED BY <1>1, <1>2, <1>3, <1>4 DEF Next

\* Every call the thread makes is the one its place in proxy.c asks for, whatever the
\* peers send and however it is cut into segments (proxy.c 78, 140).
THEOREM Typed == Spec => [](TypeOK /\ IoOK)
BY TypeInit, TypeStep, PTL DEF Spec

-----------------------------------------------------------------------------
(* The copy.                                                               *)

\* The places before server_to_browser, and those where nothing is stored untested yet.
Early == {"connect", "request", "browser header", "header sent", "blank sent"}
Counting == {"status", "status sent", "header", "line sent", "body", "to the end", "piece sent"}

\* What is stored and what is counted agree while each piece is tested; once the whole
\* body is counted, what is stored and what is still to come fit together, and a part
\* is no longer than was asked for.
CopyOK ==
  /\ pc \in Early => tsize = 0
  /\ cache # NULL =>
       /\ cache \in Bytes /\ Len(cache) <= MAX_OBJECT_SIZE
       /\ pc \in Counting => tsize = Len(cache)
       /\ pc \in {"by length", "part read", "part sent"} /\ csize > 0 =>
            Len(cache) + csize <= MAX_OBJECT_SIZE
  /\ pc \in {"part read", "part sent"} => csize > 0
  /\ pc = "part read" =>
       IF io = Idle THEN ret # -1 => Len(buf) <= Smaller(csize, MAXLINE)
       ELSE io.left + Len(io.got) = Smaller(csize, MAXLINE)
  /\ pc = "part sent" => Len(buf) <= Smaller(csize, MAXLINE)
  /\ pc \in ToBrowser /\ io = Idle => ret \in {-1, Len(buf)}

\* The part of CopyOK that a call can disturb; the rest only proxy.c does.
CallKeeps ==
  /\ pc = "part read" =>
       IF io = Idle THEN ret # -1 => Len(buf) <= Smaller(csize, MAXLINE)
       ELSE io.left + Len(io.got) = Smaller(csize, MAXLINE)
  /\ pc = "part sent" => Len(buf) <= Smaller(csize, MAXLINE)
  /\ pc \in ToBrowser /\ io = Idle => ret \in {-1, Len(buf)}

\* Making or going on with a call leaves the copy as it is.
LEMMA CopyCall ==
  ASSUME TypeOK, IoOK, CopyOK, UNCHANGED <<pc, copyVars>>, CallKeeps'
  PROVE  CopyOK'
BY DEF CopyOK, CallKeeps, copyVars

\* What rio_readlineb and rio_readnb return is no longer than the place that asked can store.
LEMMA CopyTake == TypeOK /\ IoOK /\ CopyOK /\ Take => CopyOK'
<1> SUFFICES ASSUME TypeOK, IoOK, CopyOK, Take PROVE CopyOK'
  OBVIOUS
<1>1. PICK c \in Bytes, rest \in Bytes :
        /\ Len(c) \in 1..io.left
        /\ io.got \o c \in Bytes /\ Len(io.got \o c) = Len(io.got) + Len(c)
        /\ \/ /\ io' \in ReadCalls(io.call, Source) /\ io' # Idle
              /\ io'.got = io.got \o c /\ io'.left = io.left - Len(c)
              /\ UNCHANGED <<ret, buf>>
           \/ io' = Idle /\ buf' = io.got \o c
  BY TakeEffect
<1>2. UNCHANGED <<pc, copyVars>>
  BY DEF Take
<1>3. /\ io # Idle /\ pc \in LineAt \cup PieceAt
      /\ io.left \in Nat \ {0} /\ io.got \in Bytes /\ Len(io.got) \in Nat /\ Len(c) \in Nat
  BY ReadCall, Joined DEF Take
<1>4. pc # "part sent" /\ pc \notin ToBrowser
  BY <1>3, PlacesApart DEF ToBrowser
<1>5. ASSUME pc = "part read"
      PROVE  IF io' = Idle THEN ret' # -1 => Len(buf') <= Smaller(csize, MAXLINE)
             ELSE io'.left + Len(io'.got) = Smaller(csize, MAXLINE)
  <2>1. io.left + Len(io.got) = Smaller(csize, MAXLINE)
    BY <1>3, <1>5 DEF CopyOK
  <2>2. CASE io' = Idle
    <3>1. buf' = io.got \o c
      BY <1>1, <2>2
    <3>2. Len(buf') = Len(io.got) + Len(c) /\ Len(c) <= io.left
      BY <1>1, <3>1
    <3> QED BY <1>3, <2>1, <2>2, <3>2
  <2>3. CASE io' # Idle
    <3>1. io'.got = io.got \o c /\ io'.left = io.left - Len(c)
      BY <1>1, <2>3
    <3>2. io'.left + Len(io'.got) = (io.left - Len(c)) + (Len(io.got) + Len(c))
      BY <1>1, <3>1
    <3> QED BY <1>3, <2>1, <2>3, <3>2
  <2> QED BY <2>2, <2>3
<1>6. CallKeeps'
  <2>1. csize' = csize /\ pc' = pc
    BY <1>2 DEF copyVars
  <2> QED BY <1>4, <1>5, <2>1 DEF CallKeeps, Idle, Smaller, ToBrowser
<1> QED BY <1>2, <1>6, CopyCall

\* A partial write leaves the copy as it is.
LEMMA CopyWrite ==
  ASSUME TypeOK, IoOK, CopyOK, NEW k \in 1..MAXLINE, Write(k)
  PROVE  CopyOK'
<1>1. io' # Idle
  BY WriteEffect
<1>2. pc \in ToServer \cup ToBrowser
  BY WriteCall DEF Write
<1>3. UNCHANGED <<pc, buf, copyVars>>
  BY DEF Write
<1>4. CallKeeps'
  BY <1>1, <1>2, <1>3 DEF CallKeeps, CopyOK, copyVars, Smaller, Idle, ToServer, ToBrowser
<1> QED BY <1>3, <1>4, CopyCall

\* So does the return of a read or a write.
LEMMA CopyReturns ==
  TypeOK /\ IoOK /\ CopyOK /\ (ReadEof \/ ReadFails \/ WriteDone \/ WriteFails) => CopyOK'
<1> SUFFICES ASSUME TypeOK, IoOK, CopyOK, ReadEof \/ ReadFails \/ WriteDone \/ WriteFails
             PROVE  CopyOK'
  OBVIOUS
<1>1. UNCHANGED <<pc, copyVars>>
  BY DEF ReadEof, ReadFails, WriteDone, WriteFails
<1>2. csize' = csize /\ pc' = pc
  BY <1>1 DEF copyVars
<1>3. CallKeeps'
  <2>1. CASE ReadEof \/ ReadFails
    <3>1. /\ io # Idle /\ pc \notin ToBrowser /\ pc # "part sent"
          /\ io.got \in Bytes /\ Len(io.got) \in Nat /\ io.left \in Nat
          /\ pc = "part read" => io.call = "bytes"
      BY <2>1, ReadCall, PlacesApart, Joined DEF ReadEof, ReadFails, LineAt, ToBrowser
    <3>2. io' = Idle
      BY <2>1 DEF ReadEof, ReadFails, Return
    <3>3. pc = "part read" => (ret' # -1 => Len(buf') <= Smaller(csize, MAXLINE))
      <4>1. CASE ReadFails
        BY <4>1 DEF ReadFails, Return
      <4>2. CASE ReadEof
        <5>1. pc = "part read" => buf' = io.got
          BY <3>1, <4>2 DEF ReadEof
        <5>2. pc = "part read" => io.left + Len(io.got) = Smaller(csize, MAXLINE)
          BY <3>1 DEF CopyOK
        <5>3. ASSUME pc = "part read" PROVE Len(buf') <= Smaller(csize, MAXLINE)
          <6>1. Len(buf') = Len(io.got) /\ Smaller(csize, MAXLINE) = io.left + Len(io.got)
            BY <5>1, <5>2, <5>3
          <6>2. Len(io.got) \in Nat /\ io.left \in Nat
            BY <3>1
          <6>3. Smaller(csize, MAXLINE) \in Nat /\ Len(buf') \in Nat
            BY <6>1, <6>2
          <6> QED BY <6>1, <6>2, <6>3
        <5> QED BY <5>3
      <4> QED BY <2>1, <4>1, <4>2
    <3> QED BY <1>2, <3>1, <3>2, <3>3 DEF CallKeeps, Smaller, ToBrowser, Idle
  <2>2. CASE WriteDone \/ WriteFails
    <3>1. pc \in ToServer \cup ToBrowser /\ io.peer = Target
      BY <2>2, WriteCall DEF WriteDone, WriteFails
    <3>2. buf' = buf
      BY <2>2 DEF WriteDone, WriteFails
    <3>3. pc \in ToBrowser => ret' \in {-1, Len(buf)}
      BY <2>2, <3>1, PlacesApart DEF WriteDone, WriteFails, Return, Target
    <3>4. pc # "part read"
      BY <3>1 DEF ToServer, ToBrowser
    <3> QED BY <1>2, <3>2, <3>3, <3>4 DEF CallKeeps, CopyOK, Smaller, ToBrowser
  <2> QED BY <2>1, <2>2
<1> QED BY <1>1, <1>3, CopyCall


\* What write_buf_to_cache_browser does to the copy.
LEMMA Stored ==
  ASSUME TypeOK, CopyOK, NEW n \in {-1, Len(buf)}, NEW counted \in BOOLEAN, Store(n, counted)
  PROVE  \/ UNCHANGED <<cache, tsize>> /\ (cache # NULL => Len(buf) = 0 \/ n = -1)
         \/ cache' = NULL /\ UNCHANGED tsize
         \/ /\ cache # NULL /\ cache' \in Bytes /\ Len(cache') = Len(cache) + Len(buf)
            /\ IF counted THEN tsize' = tsize + Len(buf) /\ tsize' <= MAX_OBJECT_SIZE
                          ELSE UNCHANGED tsize
<1>1. Len(buf) \in Nat /\ tsize \in Int /\ MAX_OBJECT_SIZE \in Nat /\ buf \in Bytes
  BY SizeAssumption DEF TypeOK, Bytes
<1>2. cache # NULL => cache \o buf \in Bytes /\ Len(cache \o buf) = Len(cache) + Len(buf)
  BY <1>1, Joined DEF CopyOK
<1>3. CASE n <= 0 \/ cache = NULL
  <2>1. UNCHANGED <<cache, tsize>>
    BY <1>3 DEF Store
  <2>2. cache # NULL => Len(buf) = 0 \/ n = -1
    BY <1>1, <1>3
  <2> QED BY <2>1, <2>2
<1>4. CASE ~(n <= 0 \/ cache = NULL)
  <2>1. n = Len(buf) /\ cache # NULL
    BY <1>1, <1>4
  <2>2. CASE ~counted
    BY <1>2, <1>4, <2>1, <2>2 DEF Store
  <2>3. CASE counted /\ tsize + n > MAX_OBJECT_SIZE
    BY <1>4, <2>3 DEF Store
  <2>4. CASE counted /\ ~(tsize + n > MAX_OBJECT_SIZE)
    <3>1. cache' = cache \o buf /\ tsize' = tsize + n
      BY <1>4, <2>4 DEF Store
    <3> QED BY <1>1, <1>2, <2>1, <2>4, <3>1
  <2> QED BY <2>2, <2>3, <2>4
<1> QED BY <1>3, <1>4

\* A counted piece keeps the copy and its count together.
LEMMA StoredCounted ==
  ASSUME TypeOK, CopyOK, pc \in Counting, NEW n \in {-1, Len(buf)}, Store(n, TRUE)
  PROVE  cache' # NULL =>
           cache' \in Bytes /\ Len(cache') <= MAX_OBJECT_SIZE /\ tsize' = Len(cache')
<1> SUFFICES ASSUME cache' # NULL
             PROVE  cache' \in Bytes /\ Len(cache') <= MAX_OBJECT_SIZE /\ tsize' = Len(cache')
  OBVIOUS
<1>1. CASE UNCHANGED <<cache, tsize>>
  BY <1>1 DEF CopyOK
<1>2. CASE ~UNCHANGED <<cache, tsize>>
  <2>1. /\ cache # NULL /\ cache' \in Bytes /\ Len(cache') = Len(cache) + Len(buf)
        /\ tsize' = tsize + Len(buf) /\ tsize' <= MAX_OBJECT_SIZE
    BY <1>2, Stored
  <2>2. tsize = Len(cache)
    BY <2>1 DEF CopyOK
  <2> QED BY <2>1, <2>2
<1> QED BY <1>1, <1>2

\* Between calls the thread stores only what fits (proxy.c 184, 192, 315).
LEMMA CopyThread == TypeOK /\ IoOK /\ CopyOK /\ Thread /\ ~Call => CopyOK'
<1> SUFFICES ASSUME TypeOK, IoOK, CopyOK, Thread, ~Call PROVE CopyOK'
  OBVIOUS
<1> USE DEF Early, Counting, ToBrowser
<1>1. /\ csize \in Int /\ tsize \in Int /\ Len(buf) \in Nat /\ MAXLINE \in Nat \ {0}
      /\ MAX_OBJECT_SIZE \in Nat
  <2>1. csize \in Int /\ tsize \in Int /\ buf \in Seq(Byte)
    BY DEF TypeOK, Bytes
  <2> QED BY <2>1, SizeAssumption
<1>2. CASE Open_clientfd
  BY <1>2 DEF Open_clientfd, CopyOK, copyVars, Exit, Idling
<1>3. CASE RequestSent
  BY <1>3 DEF RequestSent, CopyOK, copyVars, Exit, Idling
<1>4. CASE BrowserHeader
  BY <1>4 DEF BrowserHeader, CopyOK, copyVars, Exit, Idling
<1>5. CASE HeaderSent
  BY <1>5 DEF HeaderSent, CopyOK, copyVars, Exit, Idling
<1>6. CASE BlankSent
  <2>1. cache' = <<>> /\ tsize' = 0 /\ pc' = "status"
    BY <1>6 DEF BlankSent, CopyOK
  <2>2. cache' \in Bytes /\ Len(cache') = 0
    BY <2>1 DEF Bytes
  <2>3. Len(cache') <= MAX_OBJECT_SIZE /\ tsize' = Len(cache')
    BY <1>1, <2>1, <2>2
  <2> QED BY <2>1, <2>2, <2>3 DEF CopyOK
<1>7. CASE Status
  <2>1. pc = "status" /\ pc' = "status sent" /\ UNCHANGED copyVars
    BY <1>7 DEF Status
  <2>2. io' # Idle
    BY <1>7 DEF Status, writen, Idle
  <2> QED BY <2>1, <2>2 DEF CopyOK, copyVars, Idle
<1>8. CASE StatusSent
  <2>1. pc = "status sent" /\ io = Idle /\ Store(ret, TRUE)
    BY <1>8 DEF StatusSent, Idling
  <2>2. cache' # NULL => cache' \in Bytes /\ Len(cache') <= MAX_OBJECT_SIZE /\ tsize' = Len(cache')
    BY <2>1, StoredCounted DEF CopyOK
  <2>3. pc' \in {"exit", "header", "body", "to the end"}
    BY <1>8 DEF StatusSent, Exit
  <2> QED BY <2>2, <2>3 DEF CopyOK
<1>9. CASE Header
  <2>1. pc = "header" /\ UNCHANGED <<cache, tsize>>
        /\ (pc' = "body" \/ (pc' = "line sent" /\ io' # Idle))
    BY <1>9, CallNotIdle DEF Header
  <2> QED BY <2>1 DEF CopyOK, Idle
<1>10. CASE LineSent
  <2>1. pc = "line sent" /\ io = Idle /\ Store(ret, TRUE)
    BY <1>10 DEF LineSent, Idling
  <2>2. cache' # NULL => cache' \in Bytes /\ Len(cache') <= MAX_OBJECT_SIZE /\ tsize' = Len(cache')
    BY <2>1, StoredCounted DEF CopyOK
  <2>3. pc' \in {"exit", "header", "body", "to the end"}
    BY <1>10 DEF LineSent, Exit
  <2> QED BY <2>2, <2>3 DEF CopyOK
<1>11. CASE Body
  <2>1. CASE pc' = "to the end" /\ UNCHANGED <<cache, tsize>>
    BY <1>11, <2>1 DEF Body, CopyOK
  <2>2. CASE /\ pc' = "by length" /\ tsize' = tsize + csize
             /\ cache' = IF tsize' > MAX_OBJECT_SIZE THEN NULL ELSE cache
    <3>1. cache' # NULL => /\ cache' = cache /\ tsize + csize <= MAX_OBJECT_SIZE
                           /\ tsize = Len(cache)
      <4>1. pc = "body" /\ (cache # NULL => tsize = Len(cache))
        BY <1>11 DEF Body, CopyOK
      <4>2. tsize + csize \in Int
        BY <1>1
      <4>3. cache' # NULL => cache' = cache /\ tsize' <= MAX_OBJECT_SIZE
        <5>1. tsize' \in Int /\ cache' = IF tsize' > MAX_OBJECT_SIZE THEN NULL ELSE cache
          BY <2>2, <4>2
        <5> QED BY <1>1, <5>1
      <4> QED BY <2>2, <4>1, <4>3
    <3>2. csize' = csize
      BY <1>11 DEF Body
    <3> QED BY <1>1, <2>2, <3>1, <3>2 DEF CopyOK
  <2> QED BY <1>11, <2>1, <2>2 DEF Body
<1>12. CASE ToTheEnd
  <2>1. pc = "to the end" /\ UNCHANGED copyVars
        /\ (pc' \in {"insert", "undefined"} \/ (pc' = "piece sent" /\ io' # Idle))
    BY <1>12, CallNotIdle DEF ToTheEnd, Forward
  <2> QED BY <2>1 DEF CopyOK, copyVars, Idle
<1>13. CASE PieceSent
  <2>1. pc = "piece sent" /\ io = Idle /\ Store(ret, TRUE)
    BY <1>13 DEF PieceSent, Idling
  <2>2. cache' # NULL => cache' \in Bytes /\ Len(cache') <= MAX_OBJECT_SIZE /\ tsize' = Len(cache')
    BY <2>1, StoredCounted DEF CopyOK
  <2>3. pc' \in {"exit", "header", "body", "to the end"}
    BY <1>13 DEF PieceSent, Exit
  <2> QED BY <2>2, <2>3 DEF CopyOK
<1>14. CASE ByLength
  <2>1. pc = "by length" /\ UNCHANGED <<buf, ret, copyVars>>
    BY <1>14 DEF ByLength
  <2>2. CASE pc' = "insert"
    BY <2>1, <2>2 DEF CopyOK, copyVars
  <2>3. CASE csize > 0 /\ readnb("server", Smaller(csize, MAXLINE)) /\ pc' = "part read"
    <3>1. io' # Idle /\ io'.left = Smaller(csize, MAXLINE) /\ io'.got = <<>>
      BY <2>3 DEF readnb, Idle
    <3>2. io'.left + Len(io'.got) = Smaller(csize, MAXLINE)
      <4>1. Smaller(csize, MAXLINE) \in Nat
        <5>1. csize > 0
          BY <2>3
        <5> QED BY <1>1, <5>1 DEF Smaller
      <4>2. Len(io'.got) = 0
        BY <3>1
      <4> QED BY <3>1, <4>1, <4>2
    <3>3. csize' = csize /\ cache' = cache
      BY <2>1 DEF copyVars
    <3> HIDE DEF ToBrowser
    <3>4. pc' \notin ToBrowser
      BY <2>3 DEF ToBrowser
    <3>5. cache # NULL => Len(cache) + csize <= MAX_OBJECT_SIZE
      BY <2>1, <2>3 DEF CopyOK
    <3>6. CallKeeps'
      BY <2>3, <3>1, <3>2, <3>3, <3>4 DEF CallKeeps, Smaller, Idle
    <3> QED BY <2>3, <3>3, <3>4, <3>5, <3>6 DEF CopyOK, CallKeeps
  <2> QED BY <1>14, <2>2, <2>3 DEF ByLength
<1>15. CASE PartRead
  <2>1. pc = "part read" /\ io = Idle /\ UNCHANGED <<buf, copyVars>>
    BY <1>15 DEF PartRead, Idling
  <2>2. CASE pc' = "undefined"
    BY <2>1, <2>2 DEF CopyOK, copyVars
  <2>3. CASE ret # -1 /\ writen("browser", buf) /\ pc' = "part sent"
    <3>1. io' # Idle
      BY <2>3 DEF writen, Idle
    <3> QED BY <2>1, <2>3, <3>1 DEF CopyOK, copyVars, Smaller, Idle
  <2> QED BY <1>15, <2>2, <2>3 DEF PartRead, Forward
<1>16. CASE PartSent
  <2>1. /\ pc = "part sent" /\ io = Idle /\ Store(ret, FALSE) /\ pc' = "by length"
        /\ csize' = IF csize >= MAXLINE THEN csize - MAXLINE ELSE 0
    BY <1>16 DEF PartSent, Idling
  <2>2. ret \in {-1, Len(buf)} /\ csize > 0 /\ Len(buf) <= Smaller(csize, MAXLINE)
    BY <2>1 DEF CopyOK
  <2>3. cache' # NULL => /\ cache # NULL /\ cache' \in Bytes
                         /\ Len(cache') = Len(cache) \/ Len(cache') = Len(cache) + Len(buf)
    BY <2>1, <2>2, Stored DEF CopyOK
  <2>4. cache # NULL => Len(cache) + csize <= MAX_OBJECT_SIZE /\ Len(cache) \in Nat
    <3>1. cache # NULL => Len(cache) + csize <= MAX_OBJECT_SIZE /\ cache \in Bytes
      BY <2>1, <2>2 DEF CopyOK
    <3> QED BY <3>1 DEF Bytes
  <2>5. cache' # NULL => /\ Len(cache') <= MAX_OBJECT_SIZE
                         /\ csize' > 0 => Len(cache') + csize' <= MAX_OBJECT_SIZE
    <3>1. SUFFICES ASSUME cache' # NULL
                   PROVE  /\ Len(cache') <= MAX_OBJECT_SIZE
                          /\ csize' > 0 => Len(cache') + csize' <= MAX_OBJECT_SIZE
      OBVIOUS
    <3>2. /\ Len(cache) + csize <= MAX_OBJECT_SIZE /\ Len(cache) \in Nat
          /\ Len(cache') = Len(cache) \/ Len(cache') = Len(cache) + Len(buf)
      BY <2>3, <2>4, <3>1
    <3>3. csize > 0 /\ Len(buf) <= (IF csize < MAXLINE THEN csize ELSE MAXLINE)
      BY <2>2 DEF Smaller
    <3>4. csize' = IF csize >= MAXLINE THEN csize - MAXLINE ELSE 0
      BY <2>1
    <3> QED BY <1>1, <3>2, <3>3, <3>4
  <2> QED BY <2>1, <2>3, <2>5 DEF CopyOK
<1>17. CASE Insert_cache
  BY <1>17 DEF Insert_cache, CopyOK, Exit
<1> QED BY <1>2, <1>3, <1>4, <1>5, <1>6, <1>7, <1>8, <1>9, <1>10, <1>11, <1>12, <1>13, <1>14, <1>15, <1>16, <1>17 DEF Thread

\* Every step keeps the copy within its array.
LEMMA CopyStep == TypeOK /\ IoOK /\ CopyOK /\ [Next]_vars => CopyOK'
<1> SUFFICES ASSUME TypeOK, IoOK, CopyOK, [Next]_vars PROVE CopyOK'
  OBVIOUS
<1>1. CASE UNCHANGED <<pc, io, ret, buf, copyVars>>
  BY <1>1 DEF CopyOK, copyVars, Smaller, Idle
<1>2. CASE \E k \in 1..RIO_BUFSIZE : Refill(k)
  BY <1>1, <1>2 DEF Refill
<1>3. CASE \E s \in Peer : Reset(s)
  BY <1>1, <1>3 DEF Reset, ioVars
<1>4. CASE UNCHANGED vars
  BY <1>1, <1>4 DEF vars, ioVars
<1>5. CASE Take \/ ReadEof \/ ReadFails \/ WriteDone \/ WriteFails
  BY <1>5, CopyTake, CopyReturns
<1>6. CASE \E k \in 1..MAXLINE : Write(k)
  BY <1>6, CopyWrite
<1>7. CASE Thread /\ ~Call
  BY <1>7, CopyThread
<1> QED BY <1>2, <1>3, <1>4, <1>5, <1>6, <1>7 DEF Next, Thread, Call

\* CopyFits of ProxyForward: the copy of a response never outgrows the MAX_OBJECT_SIZE
\* bytes of its array, although the parts of a body with a length are stored without a
\* test (proxy.c 192, 315), whatever lengths the server names and wherever it stops.
THEOREM CopyBounded == Spec => []CopyFits
<1>1. Init => CopyOK
  BY DEF Init, CopyOK, Early, Counting, ToBrowser
<1>2. CopyOK => CopyFits
  BY DEF CopyOK, CopyFits
<1> QED BY Typed, CopyStep, <1>1, <1>2, PTL DEF Spec

-----------------------------------------------------------------------------
(* The browser's side.                                                     *)

Sent == SubSeq(Whole, 1, response.sent)
Live == serverfd >= 0 /\ ~down["server"]
FromServer == {"status", "header", "to the end", "part read"}

\* What was read from the server and is not written to the browser yet.
Held ==
  IF pc \in FromServer
  THEN IF io # Idle THEN io.got ELSE IF pc = "header" /\ ret = 0 THEN <<>> ELSE buf
  ELSE IF pc \in ToBrowser /\ io # Idle THEN io.left ELSE <<>>

Total == recv["browser"] \o (Held \o (rio["server"] \o net["server"]))

Setup ==
  /\ response.sent <= Len(response.bytes)
  /\ IF pc = "connect" THEN serverfd = 0 ELSE serverfd # 0
  /\ pc \in Early \cup {"status"} => recv["browser"] = <<>>

\* What the calls leave in buf and ret when server_to_browser looks at them.
Replies ==
  /\ pc = "status" /\ io # Idle => buf \in {<<>>, <<Garbage>>}
  /\ Live /\ pc \in PieceAt /\ io = Idle => ret = Len(buf)

\* While neither peer has reset its connection, the bytes the browser has, the bytes in
\* hand, those in rio_buf and those to come are the response that was sent.
Conserved ==
  Live => /\ IsPrefix(recv["browser"], Whole) \/ recv["browser"] = <<Garbage>>
          /\ ~down["browser"] => Total \in {Sent, <<Garbage>>}

\* Concatenation is associative and has a neutral element.
LEMMA Regroup ==
  /\ \A a, b, c \in Bytes : (a \o b) \o c = a \o (b \o c)
  /\ \A a \in Bytes : a \o <<>> = a /\ <<>> \o a = a
BY ConcatAssociative, ConcatEmptySeq DEF Bytes

\* The start of a start is a start.
LEMMA StartOf ==
  ASSUME NEW w \in Bytes, NEW n \in 0..Len(w), NEW a \in Bytes, NEW b \in Bytes,
         a \o b = SubSeq(w, 1, n)
  PROVE  IsPrefix(a, w)
<1>1. PICK r \in Bytes : w = SubSeq(w, 1, n) \o r
  BY SplitAt
<1>2. b \o r \in Bytes /\ w = a \o (b \o r)
  <2>1. w = (a \o b) \o r
    BY <1>1
  <2>2. (a \o b) \o r = a \o (b \o r)
    BY Regroup
  <2> QED BY <2>1, <2>2, Joined
<1>3. PICK d \in Bytes : w = a \o d
  BY <1>2
<1>4. /\ Len(a) \in Nat /\ Len(d) \in Nat /\ Len(a \o d) = Len(a) + Len(d)
      /\ \A k \in 1..Len(a) : (a \o d)[k] = a[k]
  BY DEF Bytes
<1>5. SubSeq(a \o d, 1, Len(a)) = SubSeq(a, 1, Len(a))
  BY <1>4
<1> QED BY <1>3, <1>4, <1>5 DEF IsPrefix

\* What the server has sent is a start of its response.
LEMMA ResponseSent ==
  ASSUME TypeOK, Setup
  PROVE  Whole \in Bytes /\ response.sent \in 0..Len(Whole) /\ Sent \in Bytes
<1>1. response.bytes \in Seq(Kind) /\ response.sent \in Nat
  BY DEF TypeOK
<1>2. Whole \in Bytes /\ Len(Whole) = Len(response.bytes)
  BY <1>1, StreamBytes DEF Whole
<1>3. response.sent \in 0..Len(Whole)
  BY <1>1, <1>2 DEF Setup, Bytes
<1> QED BY <1>2, <1>3, SplitAt DEF Sent

\* What the thread holds for the browser is bytes.
LEMMA HeldType == TypeOK /\ IoOK => Held \in Bytes
<1> SUFFICES ASSUME TypeOK, IoOK PROVE Held \in Bytes
  OBVIOUS
<1>1. buf \in Bytes /\ <<>> \in Bytes
  BY OwnBytes DEF TypeOK
<1>2. CASE pc \in FromServer /\ io # Idle
  <2>1. pc \in LineAt \cup PieceAt
    BY <1>2 DEF FromServer, LineAt, PieceAt
  <2>2. io \in ReadCalls("line", Source) \/ io \in ReadCalls("bytes", Source)
    BY <1>2, <2>1, PlacesApart DEF IoOK
  <2>3. io.got \in Bytes
    BY <2>2 DEF ReadCalls
  <2> QED BY <1>2, <2>3 DEF Held
<1>3. CASE pc \notin FromServer /\ pc \in ToBrowser /\ io # Idle
  <2>1. io \in WriteCalls(Target)
    BY <1>3, PlacesApart DEF IoOK
  <2>2. io.left \in Bytes
    BY <2>1 DEF WriteCalls
  <2> QED BY <1>3, <2>2 DEF Held
<1> QED BY <1>1, <1>2, <1>3 DEF Held

\* What the browser has is the start of all the bytes.
LEMMA TotalStart ==
  ASSUME TypeOK, IoOK, Setup, Total \in {Sent, <<Garbage>>}
  PROVE  IsPrefix(recv["browser"], Whole) \/ recv["browser"] = <<Garbage>>
<1> DEFINE r == recv["browser"]
           t == Held \o (rio["server"] \o net["server"])
<1>1. r \in Bytes /\ t \in Bytes /\ Total = r \o t
  BY HeldType, Joined DEF TypeOK, Peer, Total
<1>2. Whole \in Bytes /\ response.sent \in 0..Len(Whole)
  BY ResponseSent
<1> HIDE DEF r, t
<1>3. CASE Total = Sent
  BY <1>1, <1>2, <1>3, StartOf DEF Sent, r
<1>4. CASE Total = <<Garbage>>
  <2>1. Len(r) + Len(t) = 1 /\ Len(r) \in Nat /\ Len(t) \in Nat
    <3>1. Len(r \o t) = 1
      BY <1>1, <1>4
    <3> QED BY <1>1, <3>1, Joined
  <2>2. CASE Len(r) = 0
    <3>1. r = <<>>
      BY <1>1, <2>2 DEF Bytes
    <3>2. IsPrefix(<<>>, Whole)
      <4>1. Len(Whole) \in Nat
        BY <1>2 DEF Bytes
      <4> QED BY <4>1 DEF IsPrefix
    <3> QED BY <3>1, <3>2 DEF r
  <2>3. CASE Len(t) = 0
    <3>1. t = <<>>
      BY <1>1, <2>3 DEF Bytes
    <3>2. r = <<Garbage>>
      BY <1>1, <1>4, <3>1, Regroup
    <3> QED BY <3>2 DEF r
  <2> QED BY <2>1, <2>2, <2>3
<1> QED BY <1>3, <1>4

\* serverfd tells whether the server is reached, and the browser is sent nothing before that.
LEMMA SetupStep == TypeOK /\ IoOK /\ Setup /\ [Next]_vars => Setup'
<1> SUFFICES ASSUME TypeOK, IoOK, Setup, [Next]_vars PROVE Setup'
  OBVIOUS
<1>1. CASE UNCHANGED <<pc, serverfd, response, recv>>
  BY <1>1 DEF Setup
<1>2. CASE Take \/ ReadEof \/ ReadFails \/ WriteDone \/ WriteFails
           \/ \E k \in 1..RIO_BUFSIZE : Refill(k)
  BY <1>1, <1>2 DEF Take, ReadEof, ReadFails, WriteDone, WriteFails, Refill, peerVars
<1>3. CASE \E k \in 1..MAXLINE : Write(k)
  <2>1. PICK k \in 1..MAXLINE : Write(k)
    BY <1>3
  <2>2. pc \in ToServer \cup ToBrowser /\ io.peer = Target
    BY <2>1, WriteCall DEF Write
  <2>3. PICK c \in Bytes : recv' = [recv EXCEPT ![io.peer] = @ \o c]
    BY <2>1, WriteEffect
  <2>4. pc \in Early \cup {"status"} => recv'["browser"] = recv["browser"]
    BY <2>2, <2>3 DEF Early, ToServer, ToBrowser, Target, TypeOK, Peer
  <2>5. UNCHANGED <<pc, serverfd, response>>
    BY <2>1 DEF Write
  <2> QED BY <2>4, <2>5 DEF Setup
<1>4. CASE \E s \in Peer : Reset(s)
  BY <1>1, <1>4 DEF Reset
<1>5. CASE Thread /\ ~Call
  <2>1. UNCHANGED <<recv, response>>
    BY <1>5 DEF Thread, peerVars, Open_clientfd, RequestSent, BrowserHeader, HeaderSent, BlankSent, Status, StatusSent, Header, LineSent, Body, ToTheEnd, PieceSent, ByLength, PartRead, PartSent, Insert_cache
  <2>2. IF pc' = "connect" THEN serverfd' = 0 ELSE serverfd' # 0
    <3>1. pc' # "connect"
      BY <1>5 DEF Thread, Exit, Forward, Open_clientfd, RequestSent, BrowserHeader, HeaderSent, BlankSent, Status, StatusSent, Header, LineSent, Body, ToTheEnd, PieceSent, ByLength, PartRead, PartSent, Insert_cache
    <3>2. CASE Open_clientfd
      BY <3>1, <3>2 DEF Open_clientfd
    <3>3. CASE ~Open_clientfd
      <4>1. pc # "connect" /\ serverfd' = serverfd
        BY <1>5, <3>3 DEF Thread, RequestSent, BrowserHeader, HeaderSent, BlankSent, Status, StatusSent, Header, LineSent, Body, ToTheEnd, PieceSent, ByLength, PartRead, PartSent, Insert_cache
      <4> QED BY <3>1, <4>1 DEF Setup
    <3> QED BY <3>2, <3>3
  <2>3. pc' \in Early \cup {"status"} => pc \in Early
    BY <1>5 DEF Thread, Early, Exit, Forward, Open_clientfd, RequestSent, BrowserHeader, HeaderSent, BlankSent, Status, StatusSent, Header, LineSent, Body, ToTheEnd, PieceSent, ByLength, PartRead, PartSent, Insert_cache
  <2> QED BY <2>1, <2>2, <2>3 DEF Setup
<1>6. CASE UNCHANGED vars
  BY <1>1, <1>6 DEF vars, peerVars
<1> QED BY <1>2, <1>3, <1>4, <1>5, <1>6 DEF Next, Thread, Call

\* The server's side stays open only backwards.
LEMMA LiveBefore ==
  TypeOK /\ Setup /\ [Next]_vars =>
    /\ Live' => Live
    /\ \A s \in Peer : down[s] => down'[s]
<1> SUFFICES ASSUME TypeOK, Setup, [Next]_vars
             PROVE  /\ Live' => Live
                    /\ \A s \in Peer : down[s] => down'[s]
  OBVIOUS
<1>1. \A s \in Peer : down[s] => down'[s]
  <2>1. CASE \E s \in Peer : Reset(s)
    <3>1. PICK s \in Peer : down' = [down EXCEPT ![s] = TRUE]
      BY <2>1 DEF Reset
    <3>2. down \in [Peer -> BOOLEAN]
      BY DEF TypeOK
    <3> QED BY <3>1, <3>2
  <2>2. CASE UNCHANGED down
    BY <2>2
  <2>3. CASE Thread
    BY <2>2, <2>3 DEF Thread, Call, Take, Refill, ReadEof, ReadFails, Write, WriteDone, WriteFails,
                      peerVars, Open_clientfd, RequestSent, BrowserHeader, HeaderSent, BlankSent, Status, StatusSent, Header, LineSent, Body, ToTheEnd, PieceSent, ByLength, PartRead, PartSent, Insert_cache
  <2> QED BY <2>1, <2>2, <2>3 DEF Next, vars, peerVars
<1>2. serverfd' = serverfd \/ serverfd = 0
  <2>1. CASE Open_clientfd
    BY <2>1 DEF Open_clientfd, Setup
  <2>2. CASE Thread /\ ~Open_clientfd
    BY <2>2 DEF Thread, Call, Take, Refill, ReadEof, ReadFails, Write, WriteDone, WriteFails,
                RequestSent, BrowserHeader, HeaderSent, BlankSent, Status, StatusSent, Header, LineSent, Body, ToTheEnd, PieceSent, ByLength, PartRead, PartSent, Insert_cache
  <2>3. CASE (\E s \in Peer : Reset(s)) \/ UNCHANGED vars
    BY <2>3 DEF Reset, vars
  <2> QED BY <2>1, <2>2, <2>3 DEF Next
<1> QED BY <1>1, <1>2 DEF Live, Peer

\* Every step keeps what the thread knows of its last call: a status line's bytes, a piece's count.
LEMMA RepliesStep == TypeOK /\ IoOK /\ Setup /\ Replies /\ [Next]_vars => Replies'
<1> SUFFICES ASSUME TypeOK, IoOK, Setup, Replies, [Next]_vars PROVE Replies'
  OBVIOUS
<1>0. Live' => Live
  BY LiveBefore
<1>1. CASE UNCHANGED <<pc, io, ret, buf>>
  BY <1>0, <1>1 DEF Replies, Idle
<1>2. CASE (\E k \in 1..RIO_BUFSIZE : Refill(k)) \/ (\E s \in Peer : Reset(s)) \/ UNCHANGED vars
  BY <1>1, <1>2 DEF Refill, Reset, ioVars, vars
<1>3. CASE Take
  <2>1. PICK c \in Bytes : \/ io' # Idle /\ UNCHANGED <<ret, buf>>
                           \/ io' = Idle /\ (io.call = "bytes" => ret' = Len(buf'))
    BY <1>3, TakeEffect
  <2>2. io # Idle /\ (pc \in PieceAt => io.call = "bytes") /\ pc' = pc
    BY <1>3, ReadCall, PlacesApart DEF Take
  <2> QED BY <2>1, <2>2 DEF Replies, Idle
<1>4. CASE \E k \in 1..MAXLINE : Write(k)
  <2>1. pc \in ToServer \cup ToBrowser /\ pc' = pc
    BY <1>4, WriteCall DEF Write
  <2>2. pc \notin PieceAt /\ pc # "status"
    BY <2>1, PlacesApart DEF LineAt
  <2> QED BY <2>1, <2>2 DEF Replies, PieceAt
<1>5. CASE WriteDone \/ WriteFails
  <2>1. pc \in ToServer \cup ToBrowser /\ pc' = pc
    BY <1>5, WriteCall DEF WriteDone, WriteFails
  <2>2. pc \notin PieceAt /\ pc # "status"
    BY <2>1, PlacesApart DEF LineAt
  <2> QED BY <2>1, <2>2 DEF Replies, PieceAt
<1>6. CASE ReadEof
  <2>1. io' = Idle /\ pc' = pc
    BY <1>6 DEF ReadEof, Return
  <2>2. pc \in PieceAt => io.call = "bytes"
    BY <1>6, ReadCall, PlacesApart DEF ReadEof
  <2>3. pc \in PieceAt => ret' = Len(buf')
    BY <1>6, <2>2 DEF ReadEof, Return
  <2> QED BY <2>1, <2>3 DEF Replies, Idle, PieceAt
<1>7. CASE ReadFails
  <2>1. io' = Idle /\ pc' = pc /\ UNCHANGED <<serverfd, down>>
    BY <1>7 DEF ReadFails, Return, peerVars
  <2>2. pc \in PieceAt => ~Live
    <3>1. pc \in PieceAt => io.peer = "server" /\ serverfd # 0
      BY <1>7, ReadCall DEF ReadFails, PieceAt, Source, Setup
    <3> QED BY <1>7, <3>1 DEF ReadFails, Readable, Live, TypeOK
  <2> QED BY <1>0, <2>1, <2>2 DEF Replies, Idle, PieceAt
<1>8. CASE Thread /\ ~Call
  <2>1. pc' = "status" => buf' \in {<<>>, <<Garbage>>}
    BY <1>8 DEF Thread, Exit, Forward, Open_clientfd, RequestSent, BrowserHeader, HeaderSent, BlankSent, Status, StatusSent, Header, LineSent, Body, ToTheEnd, PieceSent, ByLength, PartRead, PartSent, Insert_cache
  <2>2. pc' \in PieceAt => io' # Idle
    BY <1>8, CallNotIdle DEF Thread, PieceAt, Exit, Forward, Open_clientfd, RequestSent, BrowserHeader, HeaderSent, BlankSent, Status, StatusSent, Header, LineSent, Body, ToTheEnd, PieceSent, ByLength, PartRead, PartSent, Insert_cache
  <2> QED BY <2>1, <2>2 DEF Replies
<1> QED BY <1>2, <1>3, <1>4, <1>5, <1>6, <1>7, <1>8 DEF Next, Thread, Call

\* What a call does to the bytes in hand.
LEMMA HeldReading ==
  ASSUME IoOK, Reading
  PROVE  /\ pc = "browser header" => Held = <<>> /\ io.peer = "browser"
         /\ pc # "browser header" => pc \in FromServer /\ Held = io.got /\ io.peer = "server"
<1>1. io # Idle /\ io.peer = Source /\ pc \in LineAt \cup PieceAt
  BY ReadCall
<1>2. pc # "browser header" => pc \in FromServer
  BY <1>1 DEF LineAt, PieceAt, FromServer
<1>3. pc = "browser header" => Held = <<>>
  BY DEF Held, FromServer, ToBrowser
<1> QED BY <1>1, <1>2, <1>3 DEF Held, Source

\* While a write is under way, what is left of it is what the thread holds for that peer.
LEMMA HeldWriting ==
  ASSUME IoOK, io.call = "write"
  PROVE  /\ pc \in ToServer => pc \notin ToBrowser /\ Held = <<>> /\ io.peer = "server"
         /\ pc \notin ToServer => pc \in ToBrowser /\ Held = io.left /\ io.peer = "browser"
         /\ pc \notin FromServer
<1>1. io # Idle /\ io.peer = Target /\ pc \in ToServer \cup ToBrowser
  BY WriteCall
<1>2. pc \notin FromServer
  BY <1>1 DEF FromServer, ToServer, ToBrowser
<1>3. pc \in ToServer => pc \notin ToBrowser
  BY PlacesApart
<1> QED BY <1>1, <1>2, <1>3 DEF Held, Target

\* The thread itself moves no bytes: what it has in hand after a read is what it writes.
LEMMA HeldThread ==
  ASSUME TypeOK, IoOK, Setup, Replies, Thread, ~Call, Live
  PROVE  Held' = Held
<1> USE DEF FromServer, ToBrowser
<1>1. /\ \A t : readlineb(t) => io' # Idle /\ io'.got = <<>>
      /\ \A t, n : readnb(t, n) => io' # Idle /\ io'.got = <<>>
      /\ \A t, b : writen(t, b) => io' # Idle /\ io'.left = b
  BY DEF readlineb, readnb, writen, Idle
<1>2. CASE Status
  BY <1>1, <1>2 DEF Status, Held, Idling
<1>3. CASE Header
  <2>1. pc = "header" /\ io = Idle
    BY <1>3 DEF Header, Idling
  <2>2. CASE ret = 0 /\ pc' = "body"
    BY <2>1, <2>2 DEF Held
  <2>3. CASE ret # 0 /\ writen("browser", buf) /\ pc' = "line sent"
    BY <1>1, <2>1, <2>3 DEF Held
  <2> QED BY <1>3, <2>2, <2>3 DEF Header
<1>4. CASE ToTheEnd \/ PartRead
  <2>1. pc \in {"to the end", "part read"} /\ io = Idle /\ Held = buf
    BY <1>4 DEF ToTheEnd, PartRead, Idling, Held
  <2>2. ret = Len(buf)
    BY <2>1 DEF Replies, PieceAt
  <2>3. ret # -1 /\ (ret = 0 => buf = <<>>)
    <3>1. buf \in Bytes
      BY DEF TypeOK
    <3>2. Len(buf) \in Nat /\ (Len(buf) = 0 => buf = <<>>)
      BY <3>1 DEF Bytes
    <3> QED BY <2>2, <3>2
  <2>4. CASE ret = 0 /\ pc' = "insert"
    BY <2>1, <2>3, <2>4 DEF Held
  <2>5. CASE writen("browser", buf) /\ pc' \in {"piece sent", "part sent"}
    BY <1>1, <2>1, <2>5 DEF Held
  <2> QED BY <1>4, <2>3, <2>4, <2>5 DEF ToTheEnd, PartRead, Forward
<1>5. CASE Thread /\ ~Status /\ ~Header /\ ~ToTheEnd /\ ~PartRead
  <2>1. pc \notin FromServer /\ (pc \in ToBrowser => io = Idle)
    BY <1>5 DEF Thread, Idling, Open_clientfd, RequestSent, BrowserHeader, HeaderSent, BlankSent, Status, StatusSent, Header, LineSent, Body, ToTheEnd, PieceSent, ByLength, PartRead, PartSent, Insert_cache
  <2>2. Held = <<>>
    BY <2>1 DEF Held
  <2>3. /\ pc' \in FromServer => io' # Idle /\ io'.got = <<>>
        /\ pc' \notin ToBrowser
    BY <1>1, <1>5 DEF Thread, Exit, Open_clientfd, RequestSent, BrowserHeader, HeaderSent, BlankSent, Status, StatusSent, Header, LineSent, Body, ToTheEnd, PieceSent, ByLength, PartRead, PartSent, Insert_cache
  <2> QED BY <2>2, <2>3 DEF Held
<1> QED BY <1>2, <1>3, <1>4, <1>5

\* A call keeps the bytes together; only a server that says nothing has the browser sent
\* what was in buf.
LEMMA TotalCall ==
  ASSUME TypeOK, IoOK, Setup, Replies, Call, Live, ~down["browser"]
  PROVE  Total' = Total \/ (Total = <<>> /\ Total' = <<Garbage>>)
<1> DEFINE r == recv["browser"]
           u == rio["server"]
           n == net["server"]
<1>1. r \in Bytes /\ u \in Bytes /\ n \in Bytes /\ Held \in Bytes
  BY HeldType DEF TypeOK, Peer
<1>2. Total = r \o (Held \o (u \o n)) /\ Total' = r' \o (Held' \o (u' \o n'))
  BY DEF Total
<1>3. CASE r' = r /\ Held' = Held /\ u' = u /\ n' = n
  BY <1>2, <1>3
<1>4. CASE Take
  <2>1. PICK c \in Bytes, rest \in Bytes :
          /\ rio[io.peer] = c \o rest /\ rio' = [rio EXCEPT ![io.peer] = rest]
          /\ \/ io' # Idle /\ io'.got = io.got \o c
             \/ io' = Idle /\ buf' = io.got \o c /\ ret' > 0 /\ ret' \in Int
    BY <1>4, TakeEffect
  <2>2. pc' = pc /\ recv' = recv /\ net' = net /\ Reading
    BY <1>4 DEF Take, peerVars
  <2>3. CASE pc = "browser header"
    <3>1. io.peer = "browser" /\ Held = <<>> /\ Held' = <<>>
      BY <2>2, <2>3, HeldReading DEF Held, FromServer, ToBrowser
    <3>2. rio'["server"] = rio["server"]
      BY <2>1, <3>1 DEF TypeOK, Peer
    <3> QED BY <1>3, <2>2, <3>1, <3>2
  <2>4. CASE pc # "browser header"
    <3>1. io.peer = "server" /\ pc \in FromServer /\ Held = io.got
      BY <2>2, <2>4, HeldReading
    <3>2. u = c \o rest /\ u' = rest
      BY <2>1, <3>1 DEF TypeOK, Peer
    <3>3. Held' = Held \o c
      <4>1. CASE io' # Idle /\ io'.got = io.got \o c
        BY <2>2, <3>1, <4>1 DEF Held
      <4>2. CASE io' = Idle /\ buf' = io.got \o c /\ ret' > 0 /\ ret' \in Int
        <5>1. ret' # 0
          BY <4>2
        <5> QED BY <2>2, <3>1, <4>2, <5>1 DEF Held, Idle
      <4> QED BY <2>1, <4>1, <4>2
    <3> HIDE DEF u, n, r
    <3>4. (Held \o c) \o (rest \o n) = Held \o ((c \o rest) \o n)
      <4>1. rest \o n \in Bytes
        BY <1>1, Joined
      <4>2. (Held \o c) \o (rest \o n) = Held \o (c \o (rest \o n))
        BY <1>1, <4>1, Regroup
      <4>3. c \o (rest \o n) = (c \o rest) \o n
        BY <1>1, Regroup
      <4> QED BY <4>2, <4>3
    <3>5. r' = r /\ n' = n
      BY <2>2 DEF r, n
    <3> QED BY <1>2, <3>2, <3>3, <3>4, <3>5
  <2> QED BY <2>3, <2>4
<1>5. CASE \E k \in 1..RIO_BUFSIZE : Refill(k)
  <2>0. PICK k \in 1..RIO_BUFSIZE : Refill(k)
    BY <1>5
  <2>1. PICK c \in Bytes, rest \in Bytes :
          /\ net[io.peer] = c \o rest
          /\ rio' = [rio EXCEPT ![io.peer] = c]
          /\ net' = [net EXCEPT ![io.peer] = rest]
    BY <2>0, RefillEffect
  <2>2. /\ UNCHANGED <<pc, io, ret, buf, recv>> /\ rio[io.peer] = <<>>
        /\ io.peer \in Peer
    BY <2>0, ReadCall DEF Refill
  <2>3. Held' = Held /\ r' = r
    BY <2>2 DEF Held, Idle
  <2>4. CASE io.peer = "browser"
    <3>1. u' = u /\ n' = n
      BY <2>1, <2>4 DEF TypeOK, Peer
    <3> QED BY <1>3, <2>3, <3>1
  <2>5. CASE io.peer = "server"
    <3>1. u = <<>> /\ n = c \o rest /\ u' = c /\ n' = rest
      BY <2>1, <2>2, <2>5 DEF TypeOK, Peer
    <3>2. <<>> \o n = n
      BY <1>1, Regroup
    <3>3. u \o n = u' \o n'
      <4> HIDE DEF u, n
      <4> QED BY <3>1, <3>2
    <3> HIDE DEF u, n, r
    <3> QED BY <1>2, <2>3, <3>3
  <2> QED BY <2>2, <2>4, <2>5 DEF Peer
<1>6. CASE \E k \in 1..MAXLINE : Write(k)
  <2>0. PICK k \in 1..MAXLINE : Write(k)
    BY <1>6
  <2>1. PICK c \in Bytes, rest \in Bytes :
          /\ io.left = c \o rest
          /\ io' # Idle /\ io'.left = rest
          /\ recv' = [recv EXCEPT ![io.peer] = @ \o c]
    BY <2>0, WriteEffect
  <2>2. UNCHANGED <<pc, rio, net>> /\ io.call = "write"
    BY <2>0 DEF Write
  <2>3. CASE pc \in ToServer
    <3>1. Held = <<>> /\ Held' = <<>> /\ io.peer = "server"
      BY <2>2, <2>3, HeldWriting DEF Held, FromServer
    <3>2. r' = r
      BY <2>1, <3>1 DEF TypeOK, Peer
    <3> QED BY <1>3, <2>2, <3>1, <3>2
  <2>4. CASE pc \notin ToServer
    <3>1. Held = c \o rest /\ Held' = rest /\ io.peer = "browser"
      BY <2>1, <2>2, <2>4, HeldWriting DEF Held
    <3>2. r' = r \o c
      BY <2>1, <3>1 DEF TypeOK, Peer
    <3>3. u' = u /\ n' = n
      BY <2>2
    <3> HIDE DEF r, u, n
    <3>4. u \o n \in Bytes /\ rest \o (u \o n) \in Bytes
      BY <1>1, Joined
    <3>5. (r \o c) \o (rest \o (u \o n)) = r \o (c \o (rest \o (u \o n)))
      BY <1>1, <3>4, Regroup
    <3>6. c \o (rest \o (u \o n)) = (c \o rest) \o (u \o n)
      BY <1>1, <3>4, Regroup
    <3> QED BY <1>2, <3>1, <3>2, <3>3, <3>5, <3>6
  <2> QED BY <2>3, <2>4
<1>7. CASE WriteDone \/ WriteFails
  <2>1. UNCHANGED <<pc, rio, net, recv>> /\ io.call = "write"
    BY <1>7 DEF WriteDone, WriteFails, peerVars
  <2>2. CASE pc \in ToServer
    <3>1. Held = <<>> /\ Held' = <<>>
      BY <2>1, <2>2, HeldWriting DEF Held, FromServer
    <3> QED BY <1>3, <2>1, <3>1
  <2>3. CASE pc \notin ToServer
    <3>1. /\ pc \in ToBrowser /\ pc \notin FromServer /\ Held = io.left
          /\ io.peer = "browser"
      BY <2>1, <2>3, HeldWriting
    <3>2. Readable("browser")
      BY DEF Readable
    <3>3. WriteDone
      BY <1>7, <3>1, <3>2 DEF WriteFails
    <3>4. Held = <<>> /\ Held' = <<>>
      BY <2>1, <3>1, <3>3 DEF WriteDone, Return, Held, Idle
    <3> QED BY <1>3, <2>1, <3>4
  <2> QED BY <2>2, <2>3
<1>8. CASE ReadFails
  <2>1. UNCHANGED <<pc, rio, net, recv>> /\ Reading /\ ~Readable(io.peer)
    BY <1>8 DEF ReadFails, peerVars
  <2>2. pc = "browser header"
    <3>1. serverfd > 0
      <4>1. pc # "connect"
        BY <2>1, ReadCall DEF LineAt, PieceAt
      <4> QED BY <4>1 DEF Setup, Live, TypeOK
    <3> QED BY <2>1, <3>1, HeldReading DEF Readable, Live
  <2>3. Held = <<>> /\ Held' = <<>>
    BY <2>1, <2>2, HeldReading DEF Held, FromServer, ToBrowser
  <2> QED BY <1>3, <2>1, <2>3
<1>9. CASE ReadEof
  <2>1. /\ UNCHANGED <<pc, rio, net, recv>> /\ Reading /\ io' = Idle
        /\ ret' = IF io.call = "line" /\ io.got # <<>> THEN Len(io.got) + 1 ELSE Len(io.got)
        /\ buf' = IF io.call = "line" /\ io.got = <<>> THEN buf ELSE io.got
    BY <1>9 DEF ReadEof, Return, peerVars
  <2>2. CASE pc = "browser header"
    <3>1. Held = <<>> /\ Held' = <<>>
      BY <2>1, <2>2, HeldReading DEF Held, FromServer, ToBrowser
    <3> QED BY <1>3, <2>1, <3>1
  <2>3. CASE pc # "browser header"
    <3>1. /\ pc \in FromServer /\ Held = io.got /\ io.peer = "server"
          /\ u = <<>> /\ n = <<>>
      BY <1>9, <2>1, <2>3, HeldReading DEF ReadEof
    <3>2. io.got \in Bytes /\ IF pc \in LineAt THEN io.call = "line" ELSE io.call = "bytes"
      BY <2>1, ReadCall
    <3>3. Len(io.got) \in Nat
      BY <3>2 DEF Bytes
    <3>4. CASE io.call = "line" /\ io.got = <<>> /\ pc = "status"
      <4>1. Held' = buf
        BY <2>1, <3>4 DEF Held, FromServer, Idle
      <4>2. buf \in {<<>>, <<Garbage>>} /\ r = <<>>
        BY <2>1, <3>4, ReadCall DEF Replies, Setup
      <4>3. \A x \in Bytes : <<>> \o (x \o (<<>> \o <<>>)) = x
        <5>1. <<>> \o <<>> = <<>>
          BY OwnBytes, Regroup
        <5> QED BY <5>1, Regroup
      <4>4. Total = <<>> /\ Total' = buf
        <5>1. <<>> \in Bytes /\ buf \in Bytes
          BY OwnBytes DEF TypeOK
        <5>2. r' = r /\ u' = u /\ n' = n
          BY <2>1
        <5> HIDE DEF r, u, n
        <5> QED BY <1>2, <3>1, <3>4, <4>1, <4>2, <4>3, <5>1, <5>2
      <4> QED BY <4>2, <4>4
    <3>5. CASE io.call = "line" /\ io.got = <<>> /\ pc # "status"
      <4>1. pc = "header" /\ ret' = 0
        <5>1. Len(<<>>) = 0
          OBVIOUS
        <5>2. pc \in LineAt
          BY <3>1, <3>2, <3>5 DEF FromServer, LineAt
        <5>3. pc = "header"
          BY <2>3, <3>5, <5>2 DEF LineAt
        <5> QED BY <2>1, <3>5, <5>1, <5>3
      <4>2. Held' = <<>>
        BY <2>1, <4>1 DEF Held, FromServer, Idle
      <4> QED BY <1>3, <2>1, <3>1, <3>5, <4>2
    <3>6. CASE ~(io.call = "line" /\ io.got = <<>>)
      <4>1. buf' = io.got /\ (pc = "header" => ret' # 0)
        <5>1. pc = "header" => io.call = "line"
          BY <3>2 DEF LineAt
        <5>2. io.call = "line" => ret' = Len(io.got) + 1
          BY <2>1, <3>6
        <5> QED BY <2>1, <3>3, <3>6, <5>1, <5>2
      <4>2. Held' = Held
        BY <2>1, <3>1, <4>1 DEF Held, Idle
      <4> QED BY <1>3, <2>1, <4>2
    <3> QED BY <3>4, <3>5, <3>6
  <2> QED BY <2>2, <2>3
<1> QED BY <1>4, <1>5, <1>6, <1>7, <1>8, <1>9 DEF Call

\* Every step moves bytes towards the browser without losing or doubling one.
LEMMA ConservedStep ==
  TypeOK /\ IoOK /\ Setup /\ Replies /\ Conserved /\ [Next]_vars => Conserved'
<1> SUFFICES ASSUME TypeOK, IoOK, Setup, Replies, Conserved, [Next]_vars, Live'
             PROVE  /\ (IsPrefix(recv["browser"], Whole) \/ recv["browser"] = <<Garbage>>)'
                    /\ ~down'["browser"] => Total' \in {Sent', <<Garbage>>}
  BY DEF Conserved
<1>1. Live /\ (~down'["browser"] => ~down["browser"]) /\ TypeOK' /\ IoOK' /\ Setup'
  BY LiveBefore, TypeStep, SetupStep DEF Peer
<1>2. Sent' = Sent /\ Whole' = Whole
  <2>1. response' = response
    BY DEF Next, Thread, Call, Take, Refill, ReadEof, ReadFails, Write, WriteDone, WriteFails, Reset, vars,
           Open_clientfd, RequestSent, BrowserHeader, HeaderSent, BlankSent, Status, StatusSent, Header, LineSent, Body, ToTheEnd, PieceSent, ByLength, PartRead, PartSent, Insert_cache
  <2> QED BY <2>1 DEF Sent, Whole
<1>3. ASSUME ~down'["browser"] PROVE Total' \in {Sent, <<Garbage>>}
  <2>1. Total \in {Sent, <<Garbage>>} /\ ~down["browser"]
    BY <1>1, <1>3 DEF Conserved
  <2>2. CASE Call
    <3>1. Total' = Total \/ (Total = <<>> /\ Total' = <<Garbage>>)
      BY <1>1, <2>1, <2>2, TotalCall
    <3> QED BY <2>1, <3>1
  <2>3. CASE Thread /\ ~Call
    <3>1. Held' = Held
      BY <1>1, <2>3, HeldThread
    <3>2. UNCHANGED <<rio, net, recv>>
      BY <2>3 DEF Thread, peerVars, ioVars, Open_clientfd, RequestSent, BrowserHeader, HeaderSent, BlankSent, Status, StatusSent, Header, LineSent, Body, ToTheEnd, PieceSent, ByLength, PartRead, PartSent, Insert_cache
    <3> QED BY <2>1, <3>1, <3>2 DEF Total
  <2>4. CASE \E s \in Peer : Reset(s)
    <3>1. PICK s \in Peer : Reset(s)
      BY <2>4
    <3>2. FALSE
      BY <1>3, <3>1 DEF Reset, TypeOK, Peer, Live
    <3> QED BY <3>2
  <2>5. CASE UNCHANGED vars
    BY <2>1, <2>5 DEF vars, ioVars, peerVars, Total, Held, Idle
  <2> QED BY <2>2, <2>3, <2>4, <2>5 DEF Next
<1>4. CASE ~down'["browser"]
  <2>1. Total' \in {Sent', <<Garbage>>}
    BY <1>2, <1>3, <1>4
  <2>2. (Total \in {Sent, <<Garbage>>})'
    BY <2>1 DEF Garbage
  <2>3. (TypeOK /\ IoOK /\ Setup /\ Total \in {Sent, <<Garbage>>} =>
           IsPrefix(recv["browser"], Whole) \/ recv["browser"] = <<Garbage>>)'
    BY TotalStart, PTL
  <2> QED BY <1>1, <2>1, <2>2, <2>3
<1>5. CASE down'["browser"]
  <2>1. recv'["browser"] = recv["browser"]
    <3>1. CASE \E k \in 1..MAXLINE : Write(k)
      <4>1. PICK k \in 1..MAXLINE : Write(k)
        BY <3>1
      <4>2. io.peer # "browser"
        BY <1>5, <4>1 DEF Write, Readable
      <4>3. PICK c \in Bytes : recv' = [recv EXCEPT ![io.peer] = @ \o c]
        BY <4>1, WriteEffect
      <4> QED BY <4>2, <4>3 DEF TypeOK, Peer
    <3>2. CASE ~(\E k \in 1..MAXLINE : Write(k))
      BY <3>2 DEF Next, Thread, Call, Take, Refill, ReadEof, ReadFails, WriteDone, WriteFails, Reset, vars,
                  peerVars, Open_clientfd, RequestSent, BrowserHeader, HeaderSent, BlankSent, Status, StatusSent, Header, LineSent, Body, ToTheEnd, PieceSent, ByLength, PartRead, PartSent, Insert_cache
    <3> QED BY <3>1, <3>2
  <2>2. IsPrefix(recv["browser"], Whole) \/ recv["browser"] = <<Garbage>>
    BY <1>1 DEF Conserved
  <2> QED BY <1>2, <1>5, <2>1, <2>2 DEF Garbage
<1> QED BY <1>4, <1>5

-----------------------------------------------------------------------------
(* The server's side.                                                      *)

LineEnds == {CRLF[1], CRLF[2]}

\* Bytes that come in their order, or end a line.
Before(a, b) ==
  \A j \in DOMAIN a, k \in DOMAIN b : a[j][2] < b[k][2] \/ b[k] \in LineEnds
Ordered(q) ==
  \A j, k \in DOMAIN q : j < k => q[j][2] < q[k][2] \/ q[k] \in LineEnds

\* What is to be written to the server: the request line, then the header in hand.
HeldUp ==
  IF pc = "connect" THEN <<<<"G", 0>>>>
  ELSE IF pc = "browser header"
       THEN IF io # Idle THEN io.got ELSE IF ret > 0 THEN buf ELSE <<>>
       ELSE IF pc \in ToServer /\ io.call = "write" THEN io.left ELSE <<>>

Upstream == recv["server"] \o (HeldUp \o (rio["browser"] \o net["browser"]))
Rising == pc \in {"connect", "request", "browser header", "header sent"}

\* The bytes the server has, those in hand and those to come are in their order until
\* the blank line, which nothing follows.
ServerOK ==
  /\ Ordered(recv["server"])
  /\ Rising => Ordered(Upstream)
  /\ pc = "blank sent" /\ io.call = "write" => \A k \in DOMAIN io.left : io.left[k] \in LineEnds

\* An order of two byte strings is one of each and one between them.
LEMMA OrderedPair ==
  ASSUME NEW a \in Bytes, NEW b \in Bytes
  PROVE  Ordered(a \o b) <=> Ordered(a) /\ Ordered(b) /\ Before(a, b)
<1> DEFINE q == a \o b
           m == Len(a)
           n == Len(b)
           OK(x, y) == x[2] < y[2] \/ y \in LineEnds
<1>1. /\ m \in Nat /\ n \in Nat /\ DOMAIN a = 1..m /\ DOMAIN b = 1..n /\ DOMAIN q = 1..(m + n)
      /\ \A k \in 1..m : q[k] = a[k]
      /\ \A k \in 1..n : q[m + k] = b[k]
  BY DEF Bytes
<1>2. /\ Ordered(q) <=> \A j, k \in DOMAIN q : j < k => OK(q[j], q[k])
      /\ Ordered(a) <=> \A j, k \in DOMAIN a : j < k => OK(a[j], a[k])
      /\ Ordered(b) <=> \A j, k \in DOMAIN b : j < k => OK(b[j], b[k])
      /\ Before(a, b) <=> \A j \in DOMAIN a, k \in DOMAIN b : OK(a[j], b[k])
  BY DEF Ordered, Before
<1> HIDE DEF q, m, n, OK
<1>3. ASSUME Ordered(q) PROVE Ordered(a) /\ Ordered(b) /\ Before(a, b)
  <2>1. Ordered(a)
    BY <1>1, <1>2, <1>3
  <2>2. Before(a, b)
    <3>1. \A j \in 1..m, k \in 1..n : j \in 1..(m + n) /\ m + k \in 1..(m + n) /\ j < m + k
      BY <1>1
    <3> QED BY <1>1, <1>2, <1>3, <3>1
  <2>3. Ordered(b)
    <3>1. \A j, k \in 1..n : j < k => m + j \in 1..(m + n) /\ m + k \in 1..(m + n) /\ m + j < m + k
      BY <1>1
    <3> QED BY <1>1, <1>2, <1>3, <3>1
  <2> QED BY <2>1, <2>2, <2>3
<1>4. ASSUME Ordered(a), Ordered(b), Before(a, b) PROVE Ordered(q)
  <2> SUFFICES ASSUME NEW j \in 1..(m + n), NEW k \in 1..(m + n), j < k PROVE OK(q[j], q[k])
    BY <1>1, <1>2
  <2>1. CASE k <= m
    <3>1. j \in 1..m /\ k \in 1..m
      BY <1>1, <2>1
    <3> QED BY <1>1, <1>2, <1>4, <3>1
  <2>2. CASE j > m
    <3>1. PICK i \in 1..n, l \in 1..n : j = m + i /\ k = m + l /\ i < l
      <4>1. j - m \in 1..n /\ k - m \in 1..n /\ j = m + (j - m) /\ k = m + (k - m) /\ j - m < k - m
        BY <1>1, <2>2
      <4> QED BY <4>1
    <3> QED BY <1>1, <1>2, <1>4, <3>1
  <2>3. CASE j <= m /\ k > m
    <3>1. PICK l \in 1..n : k = m + l
      <4>1. k - m \in 1..n /\ k = m + (k - m)
        BY <1>1, <2>3
      <4> QED BY <4>1
    <3>2. j \in 1..m
      BY <2>3
    <3> QED BY <1>1, <1>2, <1>4, <3>1, <3>2
  <2> QED BY <1>1, <2>1, <2>2, <2>3
<1> QED BY <1>3, <1>4 DEF q

\* What is before two byte strings is before both together.
LEMMA BeforePair ==
  ASSUME NEW a \in Bytes, NEW b \in Bytes, NEW c \in Bytes
  PROVE  Before(a, b \o c) <=> Before(a, b) /\ Before(a, c)
<1> DEFINE q == b \o c
           m == Len(b)
           n == Len(c)
<1>1. /\ m \in Nat /\ n \in Nat /\ DOMAIN b = 1..m /\ DOMAIN c = 1..n /\ DOMAIN q = 1..(m + n)
      /\ \A k \in 1..m : q[k] = b[k] /\ k \in 1..(m + n)
      /\ \A k \in 1..n : q[m + k] = c[k] /\ m + k \in 1..(m + n)
      /\ \A k \in 1..(m + n) : k \in 1..m \/ \E l \in 1..n : k = m + l
  <2>1. m \in Nat /\ n \in Nat /\ DOMAIN b = 1..m /\ DOMAIN c = 1..n /\ DOMAIN q = 1..(m + n)
    BY DEF Bytes
  <2>2. \A k \in 1..m : q[k] = b[k] /\ k \in 1..(m + n)
    BY DEF Bytes
  <2>3. \A k \in 1..n : q[m + k] = c[k] /\ m + k \in 1..(m + n)
    BY DEF Bytes
  <2>4. ASSUME NEW k \in 1..(m + n), k \notin 1..m PROVE \E l \in 1..n : k = m + l
    <3> HIDE DEF m, n
    <3>1. k - m \in 1..n /\ k = m + (k - m)
      BY <2>1, <2>4
    <3> QED BY <3>1
  <2> QED BY <2>1, <2>2, <2>3, <2>4
<1> HIDE DEF q, m, n
<1>2. ASSUME Before(a, q) PROVE Before(a, b) /\ Before(a, c)
  BY <1>1, <1>2 DEF Before
<1>3. ASSUME Before(a, b), Before(a, c) PROVE Before(a, q)
  <2> SUFFICES ASSUME NEW j \in DOMAIN a, NEW k \in 1..(m + n)
               PROVE  a[j][2] < q[k][2] \/ q[k] \in LineEnds
    BY <1>1 DEF Before
  <2>1. CASE k \in 1..m
    BY <1>1, <1>3, <2>1 DEF Before
  <2>2. CASE k \notin 1..m
    <3>1. PICK l \in 1..n : k = m + l
      BY <1>1, <2>2
    <3>2. q[k] = c[l] /\ l \in DOMAIN c
      BY <1>1, <3>1
    <3> QED BY <1>3, <3>2 DEF Before
  <2> QED BY <2>1, <2>2
<1> QED BY <1>2, <1>3 DEF q

\* No bytes are in order, before and after all others.
LEMMA OrderedEmpty ==
  /\ Ordered(<<>>)
  /\ \A a : Before(a, <<>>) /\ Before(<<>>, a)
BY DEF Ordered, Before

\* Bytes that are lost leave the others in their order.
LEMMA OrderedDrop ==
  ASSUME NEW r \in Bytes, NEW h \in Bytes, NEW u \in Bytes, NEW n \in Bytes,
         Ordered(r \o (h \o (u \o n)))
  PROVE  /\ Ordered(r)
         /\ Ordered(r \o (<<>> \o (u \o n)))
         /\ Ordered(r \o (h \o (u \o <<>>)))
<1>1. u \o n \in Bytes /\ h \o (u \o n) \in Bytes /\ h \o u \in Bytes
  BY Joined
<1>2. Ordered(r) /\ Ordered(h \o (u \o n)) /\ Before(r, h \o (u \o n))
  BY <1>1, OrderedPair
<1>3. Before(r, h) /\ Before(r, u \o n) /\ Ordered(h) /\ Ordered(u \o n) /\ Before(h, u \o n)
  BY <1>1, <1>2, OrderedPair, BeforePair
<1>4. Ordered(u) /\ Before(h, u) /\ Before(r, u)
  BY <1>3, OrderedPair, BeforePair
<1>5. Ordered(r \o (u \o n))
  BY <1>1, <1>2, <1>3, OrderedPair
<1>6. Ordered(h \o u) /\ Before(r, h \o u)
  BY <1>3, <1>4, OrderedPair, BeforePair
<1>7. Ordered(r \o (h \o u))
  BY <1>1, <1>2, <1>6, OrderedPair
<1>8. <<>> \o (u \o n) = u \o n /\ u \o <<>> = u
  BY <1>1, Regroup
<1> QED BY <1>2, <1>5, <1>7, <1>8

\* A blank line may follow anything.
LEMMA OrderedEnds ==
  ASSUME NEW r \in Bytes, NEW c \in Bytes, Ordered(r), \A k \in DOMAIN c : c[k] \in LineEnds
  PROVE  Ordered(r \o c)
<1>1. Ordered(c) /\ Before(r, c)
  BY DEF Ordered, Before
<1> QED BY <1>1, OrderedPair

\* What the thread holds for the server is bytes.
LEMMA HeldUpType == TypeOK /\ IoOK => HeldUp \in Bytes
<1> SUFFICES ASSUME TypeOK, IoOK PROVE HeldUp \in Bytes
  OBVIOUS
<1>1. buf \in Bytes /\ <<>> \in Bytes /\ <<<<"G", 0>>>> \in Bytes
  BY OwnBytes DEF TypeOK
<1>2. CASE pc = "browser header" /\ io # Idle
  <2>1. io \in ReadCalls("line", Source)
    BY <1>2 DEF IoOK, PieceAt, ToServer, ToBrowser
  <2>2. io.got \in Bytes
    BY <2>1 DEF ReadCalls
  <2> QED BY <1>2, <2>2 DEF HeldUp
<1>3. CASE pc # "browser header" /\ pc \in ToServer /\ io.call = "write"
  <2>1. io.left \in Bytes
    BY <1>3, WriteCall
  <2> QED BY <1>1, <1>3, <2>1 DEF HeldUp
<1> QED BY <1>1, <1>2, <1>3 DEF HeldUp

\* The start of the upstream bytes is in their order.
LEMMA UpstreamStart ==
  ASSUME TypeOK, IoOK, Rising => Ordered(Upstream), Rising
  PROVE  Ordered(recv["server"])
<1>1. /\ recv["server"] \in Bytes /\ HeldUp \in Bytes /\ rio["browser"] \in Bytes
      /\ net["browser"] \in Bytes
  BY HeldUpType DEF TypeOK, Peer
<1> QED BY <1>1, OrderedDrop DEF Upstream

\* Until the blank line, a call moves the bytes on or loses those in hand.
LEMMA UpstreamCall ==
  ASSUME TypeOK, IoOK, Call, Rising, Ordered(Upstream)
  PROVE  Ordered(Upstream')
<1> DEFINE r == recv["server"]
           u == rio["browser"]
           n == net["browser"]
<1>1. r \in Bytes /\ u \in Bytes /\ n \in Bytes /\ HeldUp \in Bytes
  BY HeldUpType DEF TypeOK, Peer
<1>2. Upstream = r \o (HeldUp \o (u \o n)) /\ Upstream' = r' \o (HeldUp' \o (u' \o n'))
  BY DEF Upstream
<1>3. CASE r' = r /\ (HeldUp' = HeldUp \/ HeldUp' = <<>>) /\ u' = u /\ n' = n
  <2>1. Ordered(r \o (<<>> \o (u \o n)))
    <3> HIDE DEF r, u, n
    <3> QED BY <1>1, <1>2, OrderedDrop
  <2> HIDE DEF r, u, n
  <2>2. CASE HeldUp' = HeldUp
    BY <1>2, <1>3, <2>2
  <2>3. CASE HeldUp' = <<>>
    BY <1>2, <1>3, <2>1, <2>3
  <2> QED BY <1>3, <2>2, <2>3
<1>4. ASSUME Reading
      PROVE  /\ pc = "browser header" /\ io.peer = "browser" /\ HeldUp = io.got /\ io # Idle
             /\ io.call = "line" /\ io.got \in Bytes
  <2>1. pc \in LineAt \cup PieceAt /\ io # Idle /\ io.peer = Source /\ io.got \in Bytes
        /\ (pc \in LineAt => io.call = "line")
    BY <1>4, ReadCall
  <2>2. pc = "browser header"
    BY <2>1 DEF Rising, LineAt, PieceAt
  <2> QED BY <2>1, <2>2 DEF Source, HeldUp, LineAt
<1>5. ASSUME io.call = "write"
      PROVE  pc \in ToServer /\ io.peer = "server" /\ HeldUp = io.left /\ pc \notin {"connect", "browser header"}
  <2>1. pc \in ToServer \cup ToBrowser /\ io.peer = Target
    BY <1>5, WriteCall
  <2>2. pc \in ToServer
    BY <2>1 DEF Rising, ToBrowser, ToServer
  <2>3. pc \notin {"connect", "browser header"}
    BY <2>2 DEF ToServer
  <2> QED BY <1>5, <2>1, <2>2, <2>3 DEF Target, HeldUp
<1>6. CASE Take
  <2>1. PICK c \in Bytes, rest \in Bytes :
          /\ rio[io.peer] = c \o rest /\ rio' = [rio EXCEPT ![io.peer] = rest]
          /\ \/ io' # Idle /\ io'.got = io.got \o c
             \/ io' = Idle /\ buf' = io.got \o c /\ ret' > 0 /\ ret' \in Int
    BY <1>6, TakeEffect
  <2>2. pc' = pc /\ recv' = recv /\ net' = net /\ Reading
    BY <1>6 DEF Take, peerVars
  <2>3. u = c \o rest /\ u' = rest
    BY <1>4, <2>1, <2>2 DEF TypeOK, Peer
  <2>4. HeldUp' = HeldUp \o c
    BY <1>4, <2>1, <2>2 DEF HeldUp, Idle
  <2>5. r' = r /\ n' = n
    BY <2>2
  <2> HIDE DEF r, u, n
  <2>6. (HeldUp \o c) \o (rest \o n) = HeldUp \o ((c \o rest) \o n)
    <3>1. rest \o n \in Bytes
      BY <1>1, Joined
    <3>2. (HeldUp \o c) \o (rest \o n) = HeldUp \o (c \o (rest \o n))
      BY <1>1, <3>1, Regroup
    <3>3. c \o (rest \o n) = (c \o rest) \o n
      BY <1>1, Regroup
    <3> QED BY <3>2, <3>3
  <2> QED BY <1>2, <2>3, <2>4, <2>5, <2>6
<1>7. CASE \E k \in 1..RIO_BUFSIZE : Refill(k)
  <2>0. PICK k \in 1..RIO_BUFSIZE : Refill(k)
    BY <1>7
  <2>1. PICK c \in Bytes, rest \in Bytes :
          /\ net[io.peer] = c \o rest
          /\ rio' = [rio EXCEPT ![io.peer] = c]
          /\ net' = [net EXCEPT ![io.peer] = rest]
    BY <2>0, RefillEffect
  <2>2. UNCHANGED <<pc, io, ret, buf, recv>> /\ rio[io.peer] = <<>> /\ Reading
    BY <2>0 DEF Refill
  <2>3. HeldUp' = HeldUp /\ r' = r
    BY <2>2 DEF HeldUp, Idle
  <2>4. u = <<>> /\ n = c \o rest /\ u' = c /\ n' = rest
    BY <1>4, <2>1, <2>2 DEF TypeOK, Peer
  <2>5. <<>> \o n = n
    BY <1>1, Regroup
  <2> HIDE DEF r, u, n
  <2>6. u \o n = u' \o n'
    BY <2>4, <2>5
  <2> QED BY <1>2, <2>3, <2>6
<1>8. CASE \E k \in 1..MAXLINE : Write(k)
  <2>0. PICK k \in 1..MAXLINE : Write(k)
    BY <1>8
  <2>1. PICK c \in Bytes, rest \in Bytes :
          /\ io.left = c \o rest
          /\ io' \in WriteCalls(Target) /\ io'.left = rest
          /\ recv' = [recv EXCEPT ![io.peer] = @ \o c]
    BY <2>0, WriteEffect
  <2>2. UNCHANGED <<pc, rio, net>> /\ io.call = "write"
    BY <2>0 DEF Write
  <2>3. io'.call = "write"
    BY <2>1, Busy
  <2>4. HeldUp = c \o rest /\ HeldUp' = rest
    BY <1>5, <2>1, <2>2, <2>3 DEF HeldUp
  <2>5. r' = r \o c /\ u' = u /\ n' = n
    BY <1>5, <2>1, <2>2 DEF TypeOK, Peer
  <2> HIDE DEF r, u, n
  <2>6. u \o n \in Bytes /\ rest \o (u \o n) \in Bytes
    BY <1>1, Joined
  <2>7. (r \o c) \o (rest \o (u \o n)) = r \o (c \o (rest \o (u \o n)))
    BY <1>1, <2>6, Regroup
  <2>8. c \o (rest \o (u \o n)) = (c \o rest) \o (u \o n)
    BY <2>6, Regroup
  <2> QED BY <1>2, <2>4, <2>5, <2>7, <2>8
<1>9. CASE WriteDone \/ WriteFails
  <2>1. UNCHANGED <<pc, rio, net, recv>> /\ io.call = "write"
        /\ (io' = Idle \/ io' = [call |-> "for ever"])
    BY <1>9 DEF WriteDone, WriteFails, Return, peerVars
  <2>2. HeldUp' = <<>>
    <3>1. io'.call # "write"
      BY <2>1, Busy
    <3> QED BY <1>5, <2>1, <3>1 DEF HeldUp
  <2> QED BY <1>3, <2>1, <2>2
<1>10. CASE ReadFails
  <2>1. UNCHANGED <<pc, rio, net, recv>> /\ Reading /\ io' = Idle /\ ret' = -1
    BY <1>10 DEF ReadFails, Return, peerVars
  <2>2. HeldUp' = <<>>
    <3>1. pc = "browser header"
      BY <1>4, <1>10 DEF ReadFails
    <3>2. ~(ret' > 0)
      BY <2>1
    <3> QED BY <2>1, <3>1, <3>2 DEF HeldUp
  <2> QED BY <1>3, <2>1, <2>2
<1>11. CASE ReadEof
  <2>1. /\ UNCHANGED <<pc, rio, net, recv>> /\ Reading /\ io' = Idle
        /\ ret' = IF io.call = "line" /\ io.got # <<>> THEN Len(io.got) + 1 ELSE Len(io.got)
        /\ buf' = IF io.call = "line" /\ io.got = <<>> THEN buf ELSE io.got
    BY <1>11 DEF ReadEof, Return, peerVars
  <2>0. pc = "browser header" /\ io.call = "line" /\ io.got \in Bytes /\ HeldUp = io.got
    BY <1>4, <1>11 DEF ReadEof
  <2>2. Len(io.got) \in Nat /\ (Len(io.got) = 0 <=> io.got = <<>>)
    BY <2>0, BytesLen
  <2>5. pc' = "browser header" /\ io' = Idle
    BY <2>0, <2>1
  <2>6. HeldUp' = IF ret' > 0 THEN buf' ELSE <<>>
    BY <2>5 DEF HeldUp
  <2>3. CASE io.got = <<>>
    <3>1. ret' = 0
      BY <2>1, <2>2, <2>3
    <3>2. HeldUp' = <<>>
      BY <2>6, <3>1
    <3> QED BY <1>3, <2>1, <3>2
  <2>4. CASE io.got # <<>>
    <3>1. ret' = Len(io.got) + 1 /\ buf' = io.got
      BY <2>0, <2>1, <2>4
    <3>2. ret' > 0
      BY <2>2, <3>1
    <3>3. HeldUp' = HeldUp
      BY <2>0, <2>6, <3>1, <3>2
    <3> QED BY <1>3, <2>1, <3>3
  <2> QED BY <2>3, <2>4
<1> QED BY <1>6, <1>7, <1>8, <1>9, <1>10, <1>11 DEF Call

\* The thread moves no bytes: it writes the line it read, or the blank line in its place.
LEMMA UpstreamThread ==
  ASSUME TypeOK, IoOK, ServerOK, Thread, ~Call
  PROVE  ServerOK'
<1>1. /\ \A t : readlineb(t) => io' # Idle /\ io'.got = <<>>
      /\ \A t, b : writen(t, b) => io'.call = "write" /\ io'.left = b
  BY DEF readlineb, writen, Idle
<1>2. Idle.call # "write"
  BY Busy
<1>3. UNCHANGED <<rio, recv, net>>
  BY DEF Thread, peerVars, ioVars, Open_clientfd, RequestSent, BrowserHeader, HeaderSent, BlankSent, Status, StatusSent, Header, LineSent, Body, ToTheEnd, PieceSent, ByLength, PartRead, PartSent, Insert_cache
<1>4. CASE Rising' /\ HeldUp' = HeldUp /\ Rising
  <2>1. Upstream' = Upstream
    BY <1>3, <1>4 DEF Upstream
  <2>2. pc' # "blank sent"
    BY <1>4 DEF Rising
  <2>3. Ordered(Upstream)' /\ Ordered(recv["server"])'
    BY <1>3, <1>4, <2>1 DEF ServerOK, Ordered, LineEnds, CRLF
  <2> QED BY <2>2, <2>3 DEF ServerOK
<1>5. CASE ~Rising' /\ pc' # "blank sent"
  <2>1. Ordered(recv["server"])'
    BY <1>3 DEF ServerOK, Ordered, LineEnds, CRLF
  <2> QED BY <1>5, <2>1 DEF ServerOK
<1>6. CASE Open_clientfd
  <2>1. HeldUp = <<<<"G", 0>>>> /\ Rising /\ pc' = "request" /\ writen("server", <<<<"G", 0>>>>)
    BY <1>6 DEF Open_clientfd, HeldUp, Rising
  <2>2. HeldUp' = HeldUp
    BY <1>1, <2>1 DEF HeldUp, ToServer
  <2> QED BY <1>4, <2>1, <2>2 DEF Rising
<1>7. CASE RequestSent \/ HeaderSent
  <2>1. pc \in {"request", "header sent"} /\ io = Idle
    BY <1>7 DEF RequestSent, HeaderSent, Idling
  <2>2. HeldUp = <<>> /\ Rising
    BY <1>2, <2>1 DEF HeldUp, Rising
  <2>3. pc' = "exit" \/ (pc' = "browser header" /\ readlineb("browser"))
    BY <1>7 DEF RequestSent, HeaderSent, Exit
  <2>4. CASE pc' = "exit"
    BY <1>5, <2>4 DEF Rising
  <2>5. CASE pc' = "browser header" /\ readlineb("browser")
    <3>1. HeldUp' = <<>>
      BY <1>1, <2>5 DEF HeldUp
    <3> QED BY <1>4, <2>2, <2>5, <3>1 DEF Rising
  <2> QED BY <2>3, <2>4, <2>5
<1>8. CASE BrowserHeader
  <2>1. pc = "browser header" /\ io = Idle
    BY <1>8 DEF BrowserHeader, Idling
  <2>2. CASE pc' = "exit"
    BY <1>5, <2>2 DEF Rising
  <2>3. CASE pc' = "blank sent" /\ writen("server", CRLF)
    <3>1. \A k \in DOMAIN CRLF : CRLF[k] \in LineEnds
      BY DEF CRLF, LineEnds
    <3>2. io'.left = CRLF
      BY <1>1, <2>3
    <3>3. (\A k \in DOMAIN io.left : io.left[k] \in LineEnds)'
      BY <3>1, <3>2 DEF LineEnds, CRLF
    <3>4. Ordered(recv["server"])'
      BY <1>3 DEF ServerOK, Ordered, LineEnds, CRLF
    <3> QED BY <2>3, <3>3, <3>4 DEF ServerOK, Rising
  <2>4. CASE ret > 0 /\ pc' = "header sent" /\ writen("server", buf)
    <3>1. HeldUp = buf
      BY <2>1, <2>4 DEF HeldUp
    <3>2. HeldUp' = buf
      BY <1>1, <2>4 DEF HeldUp, ToServer
    <3> QED BY <1>4, <2>1, <2>4, <3>1, <3>2 DEF Rising
  <2> QED BY <1>8, <2>2, <2>3, <2>4 DEF BrowserHeader, Exit
<1>9. CASE ~Open_clientfd /\ ~RequestSent /\ ~HeaderSent /\ ~BrowserHeader
  <2>1. ~Rising' /\ pc' # "blank sent"
    BY <1>9 DEF Thread, Rising, Exit, Forward, BlankSent, Status, StatusSent, Header, LineSent, Body, ToTheEnd, PieceSent, ByLength, PartRead, PartSent, Insert_cache
  <2> QED BY <1>5, <2>1
<1> QED BY <1>6, <1>7, <1>8, <1>9

\* After the blank line has begun, only what is left of it goes to the server.
LEMMA ServerCall ==
  ASSUME TypeOK, IoOK, ServerOK, Call
  PROVE  ServerOK'
<1>1. pc' = pc /\ TypeOK' /\ IoOK'
  <2>1. pc' = pc
    BY DEF Call, Take, Refill, ReadEof, ReadFails, Write, WriteDone, WriteFails
  <2>2. Next
    BY DEF Next, Thread
  <2> QED BY <2>1, <2>2, TypeStep
<1>2. CASE Rising
  <2>1. Ordered(Upstream')
    BY <1>2, UpstreamCall DEF ServerOK
  <2>2. Ordered(Upstream)' /\ Rising' /\ pc' # "blank sent"
    BY <1>1, <1>2, <2>1 DEF Rising, Ordered, LineEnds, CRLF
  <2>3. (TypeOK /\ IoOK /\ (Rising => Ordered(Upstream)) /\ Rising => Ordered(recv["server"]))'
    BY UpstreamStart, PTL
  <2> QED BY <1>1, <2>2, <2>3 DEF ServerOK
<1>3. CASE ~Rising
  <2>1. CASE \E k \in 1..MAXLINE : Write(k)
    <3>0. PICK k \in 1..MAXLINE : Write(k)
      BY <2>1
    <3>1. PICK c \in Bytes, rest \in Bytes :
            /\ io.left = c \o rest /\ io'.left = rest
            /\ recv' = [recv EXCEPT ![io.peer] = @ \o c]
      BY <3>0, WriteEffect
    <3>2. io.call = "write" /\ io.peer = Target /\ pc \in ToServer \cup ToBrowser
      BY <3>0, WriteCall DEF Write
    <3>3. CASE pc = "blank sent"
      <4>1. \A i \in DOMAIN io.left : io.left[i] \in LineEnds
        BY <3>2, <3>3 DEF ServerOK
      <4>2. /\ \A i \in DOMAIN c : c[i] \in LineEnds
            /\ \A i \in DOMAIN rest : rest[i] \in LineEnds
        <5>1. /\ Len(c) \in Nat /\ Len(rest) \in Nat
              /\ DOMAIN c = 1..Len(c) /\ DOMAIN rest = 1..Len(rest)
              /\ DOMAIN (c \o rest) = 1..(Len(c) + Len(rest))
              /\ \A i \in 1..Len(c) : (c \o rest)[i] = c[i]
              /\ \A i \in 1..Len(rest) : (c \o rest)[Len(c) + i] = rest[i]
          BY DEF Bytes
        <5>2. \A i \in DOMAIN (c \o rest) : (c \o rest)[i] \in LineEnds
          BY <3>1, <4>1
        <5>3. /\ \A i \in 1..Len(c) : i \in 1..(Len(c) + Len(rest))
              /\ \A i \in 1..Len(rest) : Len(c) + i \in 1..(Len(c) + Len(rest))
          BY <5>1
        <5> QED BY <5>1, <5>2, <5>3
      <4>3. Ordered(recv["server"] \o c)
        BY <4>2, OrderedEnds DEF ServerOK, TypeOK, Peer
      <4>4. recv'["server"] = recv["server"] \o c
        BY <3>1, <3>2, <3>3 DEF Target, ToServer, TypeOK, Peer
      <4>5. Ordered(recv["server"])'
        BY <4>3, <4>4 DEF Ordered, LineEnds, CRLF
      <4>6. (\A i \in DOMAIN io.left : io.left[i] \in LineEnds)'
        BY <3>1, <4>2 DEF LineEnds, CRLF
      <4> QED BY <1>1, <1>3, <4>5, <4>6 DEF ServerOK, Rising
    <3>4. CASE pc # "blank sent"
      <4>1. io.peer = "browser"
        BY <1>3, <3>2, <3>4 DEF Target, ToServer, Rising
      <4>2. recv'["server"] = recv["server"]
        BY <3>1, <4>1 DEF TypeOK, Peer
      <4>3. Ordered(recv["server"])'
        BY <4>2 DEF ServerOK, Ordered, LineEnds, CRLF
      <4> QED BY <1>1, <1>3, <3>4, <4>3 DEF ServerOK, Rising
    <3> QED BY <3>3, <3>4
  <2>2. CASE ~(\E k \in 1..MAXLINE : Write(k))
    <3>1. recv' = recv
      BY <2>2 DEF Call, Take, Refill, ReadEof, ReadFails, WriteDone, WriteFails, peerVars
    <3>2. Ordered(recv["server"])'
      BY <3>1 DEF ServerOK, Ordered, LineEnds, CRLF
    <3>3. pc = "blank sent" => io'.call # "write" \/ io' = io
      <4>1. CASE WriteDone \/ WriteFails
        BY <4>1, Busy DEF WriteDone, WriteFails, Return
      <4>2. CASE \E k \in 1..RIO_BUFSIZE : Refill(k)
        BY <4>2 DEF Refill
      <4>3. CASE Take \/ ReadEof \/ ReadFails
        <5>1. pc \in LineAt \cup PieceAt
          BY <4>3, ReadCall DEF Take, ReadEof, ReadFails
        <5> QED BY <5>1 DEF LineAt, PieceAt
      <4> QED BY <2>2, <4>1, <4>2, <4>3 DEF Call
    <3>4. (pc = "blank sent" /\ io.call = "write" =>
             \A i \in DOMAIN io.left : io.left[i] \in LineEnds)'
      BY <1>1, <3>3 DEF ServerOK, LineEnds, CRLF
    <3> QED BY <1>1, <1>3, <3>2, <3>4 DEF ServerOK, Rising
  <2> QED BY <2>1, <2>2
<1> QED BY <1>2, <1>3

\* Every step moves bytes towards the server in order.
LEMMA ServerStep == TypeOK /\ IoOK /\ ServerOK /\ [Next]_vars => ServerOK'
<1> SUFFICES ASSUME TypeOK, IoOK, ServerOK, [Next]_vars PROVE ServerOK'
  OBVIOUS
<1>1. CASE Call
  BY <1>1, ServerCall
<1>2. CASE Thread /\ ~Call
  BY <1>2, UpstreamThread
<1>3. CASE \E s \in Peer : Reset(s)
  <2>1. PICK s \in Peer : Reset(s)
    BY <1>3
  <2>2. UNCHANGED <<pc, io, ret, buf, rio, recv>> /\ net' = [net EXCEPT ![s] = <<>>]
    BY <2>1 DEF Reset, ioVars
  <2>3. HeldUp' = HeldUp /\ (Rising' <=> Rising)
    BY <2>2 DEF HeldUp, Rising, Idle
  <2>4. net'["browser"] = net["browser"] \/ net'["browser"] = <<>>
    BY <2>2 DEF TypeOK, Peer
  <2>5. ASSUME Rising PROVE Ordered(Upstream')
    <3> DEFINE r == recv["server"]
               u == rio["browser"]
               n == net["browser"]
    <3>1. r \in Bytes /\ u \in Bytes /\ n \in Bytes /\ HeldUp \in Bytes
      BY HeldUpType DEF TypeOK, Peer
    <3>2. Ordered(r \o (HeldUp \o (u \o n)))
      BY <2>5 DEF ServerOK, Upstream
    <3>3. Upstream' = r \o (HeldUp \o (u \o net'["browser"]))
      BY <2>2, <2>3 DEF Upstream
    <3>4. n = net["browser"]
      OBVIOUS
    <3> HIDE DEF r, u, n
    <3>5. Ordered(r \o (HeldUp \o (u \o <<>>)))
      BY <3>1, <3>2, OrderedDrop
    <3>6. CASE net'["browser"] = n
      BY <3>2, <3>3, <3>6
    <3>7. CASE net'["browser"] = <<>>
      BY <3>3, <3>5, <3>7
    <3> QED BY <2>4, <3>4, <3>6, <3>7
  <2>6. Ordered(recv["server"])' /\ (Rising => Ordered(Upstream))'
    BY <2>2, <2>3, <2>5 DEF ServerOK, Ordered, LineEnds, CRLF
  <2> QED BY <2>2, <2>6 DEF ServerOK, LineEnds, CRLF
<1>4. CASE UNCHANGED vars
  <2>1. UNCHANGED <<pc, io, ret, buf, rio, recv, net>>
    BY <1>4 DEF vars, ioVars, peerVars
  <2>2. Upstream' = Upstream
    BY <2>1 DEF Upstream, HeldUp, Idle
  <2> QED BY <2>1, <2>2 DEF ServerOK, Rising, Ordered, LineEnds, CRLF
<1> QED BY <1>1, <1>2, <1>3, <1>4 DEF Next

-----------------------------------------------------------------------------
(* Both sides.                                                             *)

StreamInv == TypeOK /\ IoOK /\ Setup /\ Replies /\ Conserved /\ ServerOK

\* Before the first read everything is still to be sent.
LEMMA StreamInit == Init => StreamInv
<1> SUFFICES ASSUME Init PROVE StreamInv
  OBVIOUS
<1>1. TypeOK /\ IoOK
  BY TypeInit
<1>2. PICK request \in Requests, r \in Responses : \E k \in 0..Len(r.bytes) :
        /\ response = [bytes |-> r.bytes, length |-> r.length, sent |-> k]
        /\ net = [s \in Peer |-> IF s = "browser" THEN Stream(request)
                                 ELSE SubSeq(Stream(r.bytes), 1, k)]
  BY DEF Init
<1>3. PICK k \in 0..Len(r.bytes) :
        /\ response = [bytes |-> r.bytes, length |-> r.length, sent |-> k]
        /\ net = [s \in Peer |-> IF s = "browser" THEN Stream(request)
                                 ELSE SubSeq(Stream(r.bytes), 1, k)]
  BY <1>2
<1>4. request \in Seq(Kind) /\ r.bytes \in Seq(Kind) /\ Len(r.bytes) \in Nat
  BY PeerAssumption
<1>5. /\ pc = "connect" /\ io = Idle /\ serverfd = 0
      /\ recv["browser"] = <<>> /\ recv["server"] = <<>>
      /\ rio["browser"] = <<>> /\ rio["server"] = <<>>
  BY DEF Init, Peer
<1>6. Setup
  <2>1. response.sent = k /\ response.bytes = r.bytes
    BY <1>3
  <2>2. k <= Len(r.bytes)
    BY <1>4
  <2> QED BY <1>5, <2>1, <2>2 DEF Setup
<1>7. Replies
  BY <1>5 DEF Replies, PieceAt
<1>8. Conserved
  <2>1. net["server"] = Sent /\ Sent \in Bytes /\ Whole \in Bytes
    <3>1. net["server"] = SubSeq(Stream(r.bytes), 1, k) /\ response.sent = k /\ response.bytes = r.bytes
      BY <1>3 DEF Peer
    <3> QED BY <1>1, <1>6, <3>1, ResponseSent DEF Sent, Whole
  <2>2. Held = <<>>
    BY <1>5 DEF Held, FromServer, ToBrowser
  <2>3. <<>> \o (<<>> \o (<<>> \o Sent)) = Sent
    BY <2>1, Regroup
  <2>4. Total = Sent
    BY <1>5, <2>1, <2>2, <2>3 DEF Total
  <2>5. IsPrefix(recv["browser"], Whole) \/ recv["browser"] = <<Garbage>>
    BY <1>1, <1>6, <2>4, TotalStart
  <2> QED BY <2>4, <2>5 DEF Conserved
<1>9. ServerOK
  <2> DEFINE g == <<<<"G", 0>>>>
             q == Stream(request)
  <2>1. q \in Bytes /\ Len(q) = Len(request) /\ net["browser"] = q /\ g \in Bytes
    BY <1>3, <1>4, StreamBytes, OwnBytes DEF Peer
  <2>2. \A i \in DOMAIN q : q[i][2] = i /\ i \in Nat /\ i > 0
    BY <1>4 DEF Stream
  <2>3. HeldUp = g
    BY <1>5 DEF HeldUp
  <2>4. Upstream = g \o q
    <3>1. <<>> \o (g \o (<<>> \o q)) = g \o q
      BY <2>1, Regroup, Joined
    <3> HIDE DEF g, q
    <3> QED BY <1>5, <2>1, <2>3, <3>1 DEF Upstream
  <2>5. Ordered(g) /\ Before(g, q)
    <3>1. DOMAIN g = {1} /\ g[1][2] = 0
      OBVIOUS
    <3> HIDE DEF g, q
    <3> QED BY <2>2, <3>1 DEF Ordered, Before
  <2>6. Ordered(q)
    <3> HIDE DEF q
    <3> QED BY <2>2 DEF Ordered
  <2>7. Ordered(Upstream)
    <3> HIDE DEF g, q
    <3> QED BY <2>1, <2>4, <2>5, <2>6, OrderedPair
  <2>8. Ordered(recv["server"])
    BY <1>5, OrderedEmpty
  <2> QED BY <1>5, <2>7, <2>8 DEF ServerOK
<1> QED BY <1>1, <1>6, <1>7, <1>8, <1>9 DEF StreamInv

\* Bytes in their order hold one request line at most: its position comes first.
LEMMA OneRequestLine ==
  ASSUME NEW q \in Bytes, Ordered(q)
  PROVE  Cardinality({k \in DOMAIN q : q[k][1] = "G"}) <= 1
<1> DEFINE G == {k \in DOMAIN q : q[k][1] = "G"}
<1>1. DOMAIN q = 1..Len(q) /\ Len(q) \in Nat /\ \A k \in DOMAIN q : q[k] \in Byte
  BY DEF Bytes
<1>2. \A b \in Byte : b[1] = "G" => b[2] = 0 /\ b \notin LineEnds
  <2>1. \A b \in LineEnds : b[1] # "G"
    BY DEF LineEnds, CRLF
  <2>2. \A b \in Byte : b[1] = "G" => b = <<"G", 0>>
    BY DEF Byte, Kind, Garbage
  <2> QED BY <2>1, <2>2
<1>3. \A j, k \in G : j = k
  <2> SUFFICES ASSUME NEW j \in G, NEW k \in G, j < k PROVE FALSE
    BY <1>1
  <2>1. q[j][2] = 0 /\ q[k][2] = 0 /\ q[k] \notin LineEnds
    BY <1>1, <1>2
  <2>2. q[j][2] < q[k][2] \/ q[k] \in LineEnds
    BY DEF Ordered
  <2> QED BY <2>1, <2>2
<1>4. CASE G = {}
  <2>1. Cardinality({}) = 0
    BY FS_EmptySet
  <2> QED BY <1>4, <2>1
<1>5. CASE G # {}
  <2>1. PICK x \in G : G = {x}
    BY <1>3, <1>5
  <2>2. Cardinality({x}) = 1
    BY FS_Singleton
  <2>3. Cardinality(G) = 1
    BY <2>1, <2>2
  <2> QED BY <2>3
<1> QED BY <1>4, <1>5

\* InOrder of ProxyForward: wherever the streams are cut into segments, refills and
\* partial writes, the browser has the start of the response and the server the request
\* line, the headers in their order and a blank line; no byte twice and none left out
\* (csapp.c 569, 599, 643, 669).
THEOREM StreamsInOrder == Spec => []InOrder
<1>1. StreamInv /\ [Next]_vars => StreamInv'
  BY TypeStep, SetupStep, RepliesStep, ConservedStep, ServerStep DEF StreamInv
<1>2. StreamInv => InOrder
  <2> SUFFICES ASSUME StreamInv PROVE InOrder
    OBVIOUS
  <2>1. serverfd >= 0 /\ ~down["server"] =>
          IsPrefix(recv["browser"], Whole) \/ recv["browser"] = <<Garbage>>
    BY DEF StreamInv, Conserved, Live
  <2>2. recv["server"] \in Bytes /\ Ordered(recv["server"])
    BY DEF StreamInv, ServerOK, TypeOK, Peer
  <2>3. Cardinality({k \in DOMAIN recv["server"] : recv["server"][k][1] = "G"}) <= 1
    BY <2>2, OneRequestLine
  <2> QED BY <2>1, <2>2, <2>3 DEF InOrder, Ordered, LineEnds
<1> QED BY StreamInit, <1>1, <1>2, PTL DEF Spec

-----------------------------------------------------------------------------
(* The whole response.                                                     *)

\* No peer has reset its connection, the server was reached, and it sends all it has.
Good == NoReset /\ serverfd >= 0 /\ response.sent = Len(Whole)

\* The response is one a server may give.
Answered == \E r \in Responses : response.bytes = r.bytes /\ response.length = r.length

\* Positions in the response: its end; how far the browser is, and what was read; where
\* the line or the piece in buf begins; where the lines of the header begin.
All == Len(response.bytes)
At == Len(recv["browser"])
Ahead == At + Len(Held)
Begin == IF pc \in ToBrowser THEN Ahead - Len(buf) ELSE At
EndOf(p) == LineEnd(response.bytes, p)
Starts == CHOOSE S \in SUBSET (0..All) : HeaderAt(response, S)
Named == \E p \in Starts : p < All /\ response.bytes[p + 1] = "L"

\* A line is read, and written, from where it begins to where it ends.
Lines ==
  /\ pc \in {"status", "header"} /\ io # Idle =>
       /\ Len(io.got) + io.left = MAXLINE - 1
       /\ \A k \in DOMAIN io.got : io.got[k][1] # "n"
  /\ pc = "status" /\ io = Idle => Ahead = EndOf(Begin)
  /\ pc = "header" /\ io = Idle => IF ret = 0 THEN Begin = All ELSE Begin < All /\ Ahead = EndOf(Begin)
  /\ pc \in {"status sent", "line sent"} => Begin < All /\ Ahead = EndOf(Begin)
  /\ pc = "status sent" => Begin = 0

\* What is written to the browser is what was read last, and all of it is.
Writes ==
  pc \in ToBrowser =>
    /\ Begin >= 0 /\ buf = SubSeq(Whole, Begin + 1, Ahead) /\ buf # <<>>
    /\ io = Idle => ret = Len(buf)

\* The lines of the header, and the length one of them names.
Headers ==
  /\ pc \in Early \cup {"status", "status sent"} => csize = 0
  /\ pc \in {"header", "line sent"} =>
       Begin \in Starts /\ (csize = 0 \/ (csize = response.length /\ Named))
  /\ pc = "body" => csize \in {0, All - Begin}

\* The body is read to the end of the response.
Bodies ==
  /\ pc = "to the end" /\ io = Idle /\ ret = 0 => Begin = All
  /\ pc \in {"by length", "part read", "part sent"} => csize = All - Begin
  /\ pc = "part read" => (IF io # Idle THEN Len(io.got) + io.left ELSE Len(buf)) = Smaller(csize, MAXLINE)
  /\ pc = "part sent" => Len(buf) = Smaller(csize, MAXLINE)
  /\ pc = "insert" => Begin = All

\* The copy is given up only if the response does not fit, and is complete up to Begin.
Copies ==
  pc \notin Early =>
    IF cache = NULL THEN All > MAX_OBJECT_SIZE
    ELSE /\ cache = SubSeq(Whole, 1, Begin)
         /\ pc \in {"by length", "part read", "part sent", "insert"} => tsize = All /\ All <= MAX_OBJECT_SIZE

\* The thread ends only after it has inserted what it should.
Ending ==
  /\ pc # "undefined" /\ ret >= 0 /\ io # [call |-> "for ever"]
  /\ pc = "exit" =>
       /\ recv["browser"] = Whole
       /\ inserted = (IF Len(Whole) <= MAX_OBJECT_SIZE
                      THEN [data |-> Whole, size |-> Len(Whole)] ELSE NoObject)

Progress == Total = Whole /\ Lines /\ Writes /\ Headers /\ Bodies /\ Copies /\ Ending
WholeInv == Good => Progress

\* Where a line ends is the first place that ends it.
LEMMA LineEndAt ==
  ASSUME NEW q \in Seq(Kind), NEW p \in Nat, p < Len(q)
  PROVE  /\ LineEnd(q, p) \in (p + 1)..Len(q)
         /\ q[LineEnd(q, p)] = "n" \/ LineEnd(q, p) = p + MAXLINE - 1 \/ LineEnd(q, p) = Len(q)
         /\ \A k \in (p + 1)..(LineEnd(q, p) - 1) : q[k] # "n" /\ k # p + MAXLINE - 1
<1> DEFINE Stop(e) == q[e] = "n" \/ e = p + MAXLINE - 1 \/ e = Len(q)
           T == {e \in (p + 1)..Len(q) : Stop(e)}
<1>1. Len(q) \in Nat /\ MAXLINE \in Nat
  BY SizeAssumption
<1>2. T \subseteq Nat /\ Len(q) \in T
  BY <1>1
<1>3. PICK n \in T : \A m \in T : n <= m
  <2> HIDE DEF T
  <2> QED BY <1>2, LeastNat
<1>4. n \in (p + 1)..Len(q) /\ Stop(n)
  OBVIOUS
<1>5. \A k \in (p + 1)..(n - 1) : q[k] # "n" /\ k # p + MAXLINE - 1
  <2> SUFFICES ASSUME NEW k \in (p + 1)..(n - 1), Stop(k) PROVE FALSE
    OBVIOUS
  <2>1. k \in T
    BY <1>1, <1>4
  <2> QED BY <1>1, <1>3, <1>4, <2>1
<1> QED BY <1>4, <1>5 DEF LineEnd

\* There is no other.
LEMMA LineEndIs ==
  ASSUME NEW q \in Seq(Kind), NEW p \in Nat, NEW e \in (p + 1)..Len(q),
         q[e] = "n" \/ e = p + MAXLINE - 1 \/ e = Len(q),
         \A k \in (p + 1)..(e - 1) : q[k] # "n" /\ k # p + MAXLINE - 1
  PROVE  LineEnd(q, p) = e
<1>1. Len(q) \in Nat /\ p < Len(q)
  OBVIOUS
<1> DEFINE f == LineEnd(q, p)
<1>2. /\ f \in (p + 1)..Len(q)
      /\ q[f] = "n" \/ f = p + MAXLINE - 1 \/ f = Len(q)
      /\ \A k \in (p + 1)..(f - 1) : q[k] # "n" /\ k # p + MAXLINE - 1
  BY <1>1, LineEndAt
<1> HIDE DEF f
<1>3. ~(f < e)
  BY <1>1, <1>2
<1>4. ~(e < f)
  BY <1>1, <1>2
<1> QED BY <1>1, <1>2, <1>3, <1>4 DEF f

\* Three strings put together are found in what they make.
LEMMA CutInThree ==
  ASSUME NEW a \in Bytes, NEW b \in Bytes, NEW c \in Bytes, NEW w \in Bytes, w = a \o (b \o c)
  PROVE  /\ Len(w) = Len(a) + Len(b) + Len(c)
         /\ a = SubSeq(w, 1, Len(a))
         /\ b = SubSeq(w, Len(a) + 1, Len(a) + Len(b))
<1> DEFINE x == Len(a)
           y == Len(b)
           z == Len(c)
<1>1. x \in Nat /\ y \in Nat /\ z \in Nat /\ b \o c \in Bytes /\ Len(b \o c) = y + z
  BY Joined
<1>2. w \in Bytes /\ Len(w) = x + y + z
  BY <1>1, Joined
<1>3. \A k \in 1..x : w[k] = a[k]
  BY <1>1 DEF Bytes
<1>4. \A k \in 1..y : w[x + k] = b[k]
  <2>1. \A k \in 1..y : (b \o c)[k] = b[k]
    BY <1>1 DEF Bytes
  <2>2. \A k \in 1..y : w[x + k] = (b \o c)[k]
    BY <1>1 DEF Bytes
  <2> QED BY <2>1, <2>2
<1>5. SubSeq(w, 1, x) \in Seq(Byte) /\ Len(SubSeq(w, 1, x)) = x
      /\ \A k \in 1..x : SubSeq(w, 1, x)[k] = w[k]
  <2> HIDE DEF x, y, z
  <2> QED BY <1>1, <1>2 DEF Bytes
<1>6. SubSeq(w, x + 1, x + y) \in Seq(Byte) /\ Len(SubSeq(w, x + 1, x + y)) = y
      /\ \A k \in 1..y : SubSeq(w, x + 1, x + y)[k] = w[x + k]
  <2> HIDE DEF x, y, z
  <2> QED BY <1>1, <1>2 DEF Bytes
<1>7. a = SubSeq(w, 1, x)
  <2>1. \A k \in 1..Len(a) : a[k] = SubSeq(w, 1, x)[k]
    BY <1>3, <1>5
  <2> QED BY <1>5, <2>1, SameSeq DEF Bytes
<1>8. b = SubSeq(w, x + 1, x + y)
  <2>1. \A k \in 1..Len(b) : b[k] = SubSeq(w, x + 1, x + y)[k]
    BY <1>4, <1>6
  <2> HIDE DEF x
  <2> QED BY <1>6, <2>1, SameSeq DEF Bytes
<1> QED BY <1>2, <1>7, <1>8

\* The bytes of the response, each with its place.
LEMMA WholeBytes ==
  ASSUME TypeOK
  PROVE  /\ Whole \in Bytes /\ Len(Whole) = All /\ All \in Nat /\ response.bytes \in Seq(Kind)
         /\ \A k \in 1..All : Whole[k][1] = response.bytes[k]
<1>1. response.bytes \in Seq(Kind)
  BY DEF TypeOK
<1> QED BY <1>1, StreamBytes DEF Whole, All, Stream

\* Where the bytes of the response are.
Placed ==
  /\ At \in Nat /\ Len(Held) \in Nat /\ Held \in Bytes /\ Ahead = At + Len(Held)
  /\ Ahead \in Nat /\ Ahead <= All /\ At <= Ahead
  /\ recv["browser"] = SubSeq(Whole, 1, At)
  /\ Held = SubSeq(Whole, At + 1, Ahead)
  /\ rio["server"] = <<>> /\ net["server"] = <<>> => Ahead = All

\* Every byte is with the browser, in hand, or to be read.
LEMMA Pieces == TypeOK /\ IoOK /\ Total = Whole => Placed
<1> SUFFICES ASSUME TypeOK, IoOK, Total = Whole PROVE Placed
  OBVIOUS
<1> DEFINE r == recv["browser"]
           u == rio["server"]
           n == net["server"]
<1>1. r \in Bytes /\ u \in Bytes /\ n \in Bytes /\ Held \in Bytes
  BY HeldType DEF TypeOK, Peer
<1>2. Whole = r \o (Held \o (u \o n)) /\ At = Len(r)
  BY DEF Total, At
<1>3. Len(Whole) = All /\ All \in Nat
  BY WholeBytes
<1> HIDE DEF r, u, n
<1>4. u \o n \in Bytes /\ Len(u \o n) = Len(u) + Len(n) /\ Len(u) \in Nat /\ Len(n) \in Nat
      /\ Len(r) \in Nat /\ Len(Held) \in Nat
  BY <1>1, Joined
<1>5. /\ Len(Whole) = Len(r) + Len(Held) + Len(u \o n)
      /\ r = SubSeq(Whole, 1, Len(r))
      /\ Held = SubSeq(Whole, Len(r) + 1, Len(r) + Len(Held))
  <2> DEFINE Cut(x, y, z, v) ==
               /\ Len(v) = Len(x) + Len(y) + Len(z)
               /\ x = SubSeq(v, 1, Len(x))
               /\ y = SubSeq(v, Len(x) + 1, Len(x) + Len(y))
  <2>1. \A x, y, z, v \in Bytes : v = x \o (y \o z) => Cut(x, y, z, v)
    BY CutInThree, Zenon
  <2>2. Whole \in Bytes /\ r \in Bytes /\ Held \in Bytes /\ u \o n \in Bytes
        /\ Whole = r \o (Held \o (u \o n))
    BY <1>1, <1>2, <1>4, WholeBytes
  <2> HIDE DEF Cut
  <2>3. Cut(r, Held, u \o n, Whole)
    BY ONLY <2>1, <2>2
  <2> QED BY <2>3 DEF Cut
<1>6. u = <<>> /\ n = <<>> => Len(u \o n) = 0
  BY <1>1, <1>4, BytesLen
<1>7. Ahead = Len(r) + Len(Held) /\ At = Len(r)
  BY <1>2 DEF Ahead
<1>8. Ahead \in Nat /\ Ahead <= All /\ At <= Ahead /\ (u = <<>> /\ n = <<>> => Ahead = All)
  <2> HIDE DEF At, Ahead, All
  <2> QED BY <1>3, <1>4, <1>5, <1>6, <1>7
<1> QED BY <1>1, <1>4, <1>5, <1>7, <1>8 DEF r, u, n, Ahead, Placed

\* What is well now was well before, and the response is the same.
LEMMA GoodBefore ==
  TypeOK /\ Setup /\ [Next]_vars =>
    /\ response' = response /\ Whole' = Whole /\ All' = All /\ Starts' = Starts
    /\ (Named <=> Named') /\ (\A p : EndOf(p)' = EndOf(p))
    /\ Good' => Good /\ Live /\ ~down["browser"] /\ ~down["server"]
<1> SUFFICES ASSUME TypeOK, Setup, [Next]_vars
             PROVE  /\ response' = response /\ Whole' = Whole /\ All' = All /\ Starts' = Starts
                    /\ (Named <=> Named') /\ (\A p : EndOf(p)' = EndOf(p))
                    /\ Good' => Good /\ Live /\ ~down["browser"] /\ ~down["server"]
  OBVIOUS
<1>1. response' = response
  BY DEF Next, Thread, Call, Take, Refill, ReadEof, ReadFails, Write, WriteDone, WriteFails, Reset, vars,
         Open_clientfd, RequestSent, BrowserHeader, HeaderSent, BlankSent, Status, StatusSent, Header, LineSent, Body, ToTheEnd, PieceSent, ByLength, PartRead, PartSent, Insert_cache
<1>2. Whole' = Whole /\ All' = All /\ Starts' = Starts
  BY <1>1 DEF Whole, All, Starts
<1>3. (Named <=> Named') /\ (\A p : EndOf(p)' = EndOf(p))
  BY <1>1, <1>2 DEF Named, EndOf
<1>4. ASSUME Good' PROVE Good /\ Live /\ ~down["browser"] /\ ~down["server"]
  <2>1. Live' /\ ~down'["browser"] /\ ~down'["server"]
    BY <1>4 DEF Good, NoReset, Live, Peer
  <2>2. Live /\ ~down["browser"] /\ ~down["server"]
    BY <2>1, LiveBefore DEF Peer
  <2> QED BY <1>1, <1>2, <1>4, <2>2 DEF Good, NoReset, Live, Peer
<1> QED BY <1>1, <1>2, <1>3, <1>4

\* While all is well a call does not fail.
LEMMA CallSucceeds ==
  ASSUME TypeOK, IoOK, Setup, Good, Call
  PROVE  /\ io # Idle /\ pc \in LineAt \cup PieceAt \cup ToServer \cup ToBrowser
         /\ Readable("browser") /\ Readable("server")
         /\ \/ Take \/ ReadEof \/ WriteDone
            \/ \E k \in 1..RIO_BUFSIZE : Refill(k)
            \/ \E k \in 1..MAXLINE : Write(k)
         /\ UNCHANGED <<pc, serverfd, response, copyVars>>
<1>1. Reading \/ io.call = "write"
  BY DEF Call, Take, ReadEof, ReadFails, WriteDone, WriteFails, Refill, Write
<1>2. io # Idle /\ pc \in LineAt \cup PieceAt \cup ToServer \cup ToBrowser /\ io.peer \in Peer
  BY <1>1, ReadCall, WriteCall
<1>3. serverfd > 0
  <2>1. pc # "connect" /\ serverfd \in Int
    BY <1>2, PlacesApart DEF TypeOK, LineAt, PieceAt, ToServer, ToBrowser
  <2> QED BY <2>1 DEF Setup, Good
<1>4. Readable("browser") /\ Readable("server")
  BY <1>3 DEF Readable, Good, NoReset, Peer
<1>5. ~ReadFails /\ ~WriteFails
  BY <1>2, <1>4 DEF ReadFails, WriteFails, Peer
<1>6. UNCHANGED <<pc, serverfd, response, copyVars>>
  BY DEF Call, Take, ReadEof, ReadFails, WriteDone, WriteFails, Refill, Write
<1> QED BY <1>2, <1>4, <1>5, <1>6 DEF Call

\* A call leaves the beginning of the line or the piece where it is.
LEMMA CallBegin ==
  ASSUME TypeOK, IoOK, Setup, Good, Call
  PROVE  /\ Begin' = Begin
         /\ pc \in ToBrowser => Ahead' = Ahead /\ buf' = buf /\ (io' = Idle => ret' = Len(buf))
         /\ pc \notin ToBrowser => At' = At /\ Begin = At
<1>1. /\ io # Idle /\ pc \in LineAt \cup PieceAt \cup ToServer \cup ToBrowser /\ pc' = pc
      /\ \/ Take \/ ReadEof \/ WriteDone
         \/ \E k \in 1..RIO_BUFSIZE : Refill(k)
         \/ \E k \in 1..MAXLINE : Write(k)
  BY CallSucceeds
<1>2. CASE pc \in ToBrowser
  <2>1. ~Reading /\ io.call = "write"
    <3>1. ~Reading
      BY <1>2, ReadCall, PlacesApart
    <3> QED BY <1>1, <3>1 DEF Take, ReadEof, WriteDone, Refill, Write
  <2>2. /\ pc \notin ToServer /\ pc \notin FromServer /\ Held = io.left /\ io.peer = "browser"
        /\ io.left \in Bytes
    BY <1>2, <2>1, HeldWriting, WriteCall, PlacesApart
  <2>3. CASE WriteDone
    <3>1. /\ io.left = <<>> /\ io' = Idle /\ ret' = Len(buf) /\ buf' = buf
          /\ recv' = recv
      BY <2>3 DEF WriteDone, Return, peerVars
    <3>2. Held' = <<>>
      BY <1>1, <1>2, <2>2, <3>1 DEF Held
    <3> QED BY <1>1, <1>2, <2>2, <3>1, <3>2 DEF Begin, Ahead, At
  <2>4. CASE \E k \in 1..MAXLINE : Write(k)
    <3>0. PICK k \in 1..MAXLINE : Write(k)
      BY <2>4
    <3>1. PICK c \in Bytes, rest \in Bytes :
           /\ io.left = c \o rest
           /\ io' # Idle /\ io'.left = rest
           /\ recv' = [recv EXCEPT ![io.peer] = @ \o c]
      BY <3>0, WriteEffect
    <3>2. buf' = buf
      BY <3>0 DEF Write
    <3>3. Held' = rest /\ Held = c \o rest
      BY <1>1, <1>2, <2>2, <3>1 DEF Held
    <3>4. recv["browser"] \in Bytes /\ recv'["browser"] = recv["browser"] \o c
      BY <2>2, <3>1 DEF TypeOK, Peer
    <3>5. At' = At + Len(c) /\ Len(Held) = Len(c) + Len(rest) /\ Len(Held') = Len(rest)
          /\ At \in Nat /\ Len(c) \in Nat /\ Len(rest) \in Nat
      BY <3>1, <3>3, <3>4, Joined DEF At
    <3>6. Ahead' = Ahead
      BY <3>5 DEF Ahead
    <3> QED BY <1>1, <1>2, <3>1, <3>2, <3>6 DEF Begin
  <2> QED BY <1>1, <2>1, <2>3, <2>4 DEF Take, ReadEof, Refill
<1>3. CASE pc \notin ToBrowser
  <2>1. recv'["browser"] = recv["browser"]
    <3>1. CASE \E k \in 1..MAXLINE : Write(k)
      <4>0. PICK k \in 1..MAXLINE : Write(k)
        BY <3>1
      <4>1. PICK c \in Bytes : recv' = [recv EXCEPT ![io.peer] = @ \o c]
        BY <4>0, WriteEffect
      <4>2. io.peer = "server"
        BY <1>3, <4>0, HeldWriting DEF Write
      <4> QED BY <4>1, <4>2 DEF TypeOK, Peer
    <3>2. CASE Take \/ ReadEof \/ WriteDone \/ \E k \in 1..RIO_BUFSIZE : Refill(k)
      BY <3>2 DEF Take, ReadEof, WriteDone, Refill, peerVars
    <3> QED BY <1>1, <3>1, <3>2
  <2> QED BY <1>1, <1>3, <2>1 DEF Begin, At
<1> QED BY <1>2, <1>3

\* The bytes in hand are those of the response after the ones the browser has.
LEMMA HeldKinds ==
  ASSUME TypeOK, Placed
  PROVE  \A k \in 1..Len(Held) : Held[k][1] = response.bytes[At + k]
<1>1. /\ Whole \in Seq(Byte) /\ Len(Whole) = All /\ All \in Nat
      /\ \A k \in 1..All : Whole[k][1] = response.bytes[k]
  BY WholeBytes DEF Bytes
<1>2. /\ At \in Nat /\ Ahead \in Nat /\ Ahead <= All /\ Ahead = At + Len(Held) /\ Len(Held) \in Nat
      /\ Held = SubSeq(Whole, At + 1, Ahead)
  BY DEF Placed
<1> SUFFICES ASSUME NEW k \in 1..Len(Held) PROVE Held[k][1] = response.bytes[At + k]
  OBVIOUS
<1>3. At + k \in 1..All /\ k \in 1..(Ahead - (At + 1) + 1)
  BY <1>1, <1>2
<1>4. SubSeq(Whole, At + 1, Ahead)[k] = Whole[At + k]
  <2>1. Whole \in Seq(Byte) /\ At \in Nat /\ Ahead \in Nat /\ k \in Nat
        /\ k \in 1..(Ahead - (At + 1) + 1)
    BY <1>1, <1>2, <1>3
  <2> HIDE DEF Whole, At, Ahead
  <2>2. SubSeq(Whole, At + 1, Ahead)[k] = Whole[(At + 1) + k - 1]
    BY ONLY <2>1
  <2> QED BY ONLY <2>1, <2>2
<1> QED BY <1>1, <1>2, <1>3, <1>4

\* A line that is read from the server is read to its end, and no further.
LEMMA LineTaken ==
  ASSUME TypeOK, IoOK, Setup, Good, Progress, Take, pc \in {"status", "header"},
         Placed', TypeOK', response' = response, At' = At
  PROVE  /\ io' # Idle => Len(io'.got) + io'.left = MAXLINE - 1
                           /\ \A k \in DOMAIN io'.got : io'.got[k][1] # "n"
         /\ io' = Idle => ret' > 0 /\ At < All /\ Ahead' = EndOf(At)
<1>1. PICK c \in Bytes :
        /\ Len(c) = 1 /\ io.got \o c \in Bytes /\ Len(io.got \o c) = Len(io.got) + 1
        /\ \/ /\ io' # Idle /\ io'.got = io.got \o c /\ io'.left = io.left - 1
              /\ c[1][1] # "n"
           \/ /\ io' = Idle /\ buf' = io.got \o c /\ ret' > 0 /\ ret' \in Int
              /\ io.left = 1 \/ c[1][1] = "n"
  <2>1. io.call = "line"
    BY ReadCall DEF Take, LineAt
  <2> QED BY <2>1, TakeEffect
<1>2. /\ io # Idle /\ io.left \in Nat \ {0} /\ io.got \in Bytes /\ Len(io.got) \in Nat
      /\ Held = io.got /\ pc' = pc
      /\ Len(io.got) + io.left = MAXLINE - 1
      /\ \A k \in DOMAIN io.got : io.got[k][1] # "n"
  <2>1. io # Idle /\ io.left \in Nat \ {0} /\ io.got \in Bytes /\ Len(io.got) \in Nat /\ pc' = pc
    BY ReadCall, Joined DEF Take
  <2>2. Held = io.got
    BY HeldReading DEF Take
  <2> QED BY <2>1, <2>2 DEF Progress, Lines
<1>3. /\ DOMAIN (io.got \o c) = 1..(Len(io.got) + 1)
      /\ (io.got \o c)[Len(io.got) + 1] = c[1]
      /\ \A k \in 1..Len(io.got) : (io.got \o c)[k] = io.got[k] /\ k \in DOMAIN io.got
  BY <1>1, <1>2 DEF Bytes
<1>4. CASE io' # Idle
  <2>1. io'.got = io.got \o c /\ io'.left = io.left - 1 /\ c[1][1] # "n"
    BY <1>1, <1>4
  <2>2. Len(io'.got) + io'.left = MAXLINE - 1
    BY <1>1, <1>2, <2>1, SizeAssumption
  <2>3. \A k \in DOMAIN (io.got \o c) : (io.got \o c)[k][1] # "n"
    BY <1>2, <1>3, <2>1
  <2> QED BY <1>4, <2>1, <2>2, <2>3
<1>5. CASE io' = Idle
  <2> DEFINE g == io.got \o c
             n == Len(io.got)
             q == response.bytes
  <2>1. buf' = g /\ ret' > 0 /\ ret' \in Int /\ (io.left = 1 \/ c[1][1] = "n")
    BY <1>1, <1>5
  <2>2. Held' = g
    <3>1. ret' # 0
      BY <2>1
    <3> QED BY <1>2, <1>5, <2>1, <3>1 DEF Held, FromServer
  <2>3. \A k \in 1..(n + 1) : g[k][1] = q[At + k]
    <3>1. (TypeOK /\ Placed => \A k \in 1..Len(Held) : Held[k][1] = response.bytes[At + k])'
      BY HeldKinds, PTL
    <3>2. Len(Held') = n + 1
      BY <1>1, <2>2
    <3> QED BY <2>2, <3>1, <3>2
  <2>4. Ahead' = At + n + 1 /\ Ahead' <= All /\ At \in Nat /\ n \in Nat
    <3>1. All' = All
      BY DEF All
    <3>2. Len(Held') = n + 1
      BY <1>1, <2>2
    <3>3. Ahead' = At' + Len(Held') /\ Ahead' <= All' /\ At' \in Nat
      BY DEF Placed
    <3> QED BY <1>2, <3>1, <3>2, <3>3
  <2>5. q \in Seq(Kind) /\ All = Len(q) /\ All \in Nat
    BY WholeBytes DEF All
  <2>6. MAXLINE \in Nat /\ n < MAXLINE - 1 /\ (io.left = 1 => n + 1 = MAXLINE - 1)
    BY <1>2, SizeAssumption
  <2> DEFINE e == At + n + 1
  <2>7. e \in (At + 1)..Len(q) /\ At < All
    BY <2>4, <2>5
  <2>8. q[e] = "n" \/ e = At + MAXLINE - 1 \/ e = Len(q)
    <3>1. g[n + 1] = c[1] /\ n + 1 \in 1..(n + 1)
      BY <1>2, <1>3
    <3>2. g[n + 1][1] = q[At + (n + 1)]
      BY <2>3, <3>1
    <3>3. CASE c[1][1] = "n"
      BY <2>4, <3>1, <3>2, <3>3
    <3>4. CASE io.left = 1
      BY <2>4, <2>6, <3>4
    <3> QED BY <2>1, <3>3, <3>4
  <2>9. \A k \in (At + 1)..(e - 1) : q[k] # "n" /\ k # At + MAXLINE - 1
    <3> SUFFICES ASSUME NEW k \in (At + 1)..(e - 1) PROVE q[k] # "n" /\ k # At + MAXLINE - 1
      OBVIOUS
    <3>1. k - At \in 1..n /\ k - At \in 1..(n + 1) /\ At + (k - At) = k
      BY <2>4
    <3>2. g[k - At][1] = q[k] /\ g[k - At] = io.got[k - At] /\ k - At \in DOMAIN io.got
      BY <1>3, <2>3, <3>1
    <3>3. q[k] # "n"
      BY <1>2, <3>2
    <3> QED BY <2>4, <2>6, <3>1, <3>3
  <2> HIDE DEF g, n, q, e
  <2>10. LineEnd(q, At) = e
    BY <2>4, <2>5, <2>7, <2>8, <2>9, LineEndIs
  <2> QED BY <1>5, <2>1, <2>4, <2>7, <2>10 DEF EndOf, q, e
<1> QED BY <1>4, <1>5

\* So is a piece of the body.
LEMMA PieceTaken ==
  ASSUME TypeOK, IoOK, Setup, Good, Progress, Take, pc \in PieceAt
  PROVE  /\ pc = "to the end" => (io' = Idle => ret' # 0)
         /\ pc = "part read" =>
              (IF io' # Idle THEN Len(io'.got) + io'.left ELSE Len(buf')) = Smaller(csize, MAXLINE)
<1>1. PICK c \in Bytes :
        /\ Len(c) \in 1..io.left /\ io.got \o c \in Bytes /\ Len(io.got \o c) = Len(io.got) + Len(c)
        /\ \/ io' # Idle /\ io'.got = io.got \o c /\ io'.left = io.left - Len(c)
           \/ io' = Idle /\ buf' = io.got \o c /\ ret' > 0 /\ ret' \in Int /\ Len(c) = io.left
  <2>1. io.call = "bytes"
    BY ReadCall, PlacesApart DEF Take
  <2> QED BY <2>1, TakeEffect
<1>2. io # Idle /\ io.left \in Nat \ {0} /\ Len(io.got) \in Nat /\ Len(c) \in Nat
  BY <1>1, ReadCall, Joined DEF Take
<1>3. pc = "part read" => Len(io.got) + io.left = Smaller(csize, MAXLINE)
  BY <1>2 DEF Progress, Bodies
<1>4. CASE io' # Idle
  <2>1. io'.got = io.got \o c /\ io'.left = io.left - Len(c)
    BY <1>1, <1>4
  <2>2. Len(io'.got) + io'.left = Len(io.got) + io.left
    BY <1>1, <1>2, <2>1
  <2> QED BY <1>3, <1>4, <2>2
<1>5. CASE io' = Idle
  <2>1. buf' = io.got \o c /\ ret' > 0 /\ ret' \in Int /\ Len(c) = io.left
    BY <1>1, <1>5
  <2>2. Len(buf') = Len(io.got) + io.left /\ ret' # 0
    BY <1>1, <1>2, <2>1
  <2> QED BY <1>3, <1>5, <2>2
<1> QED BY <1>4, <1>5

\* When there is nothing more to read, the response has been read to its end.
LEMMA EndRead ==
  ASSUME TypeOK, IoOK, Setup, Good, Progress, ReadEof, pc \in FromServer, response.bytes # <<>>, CopyOK
  PROVE  /\ io' = Idle /\ ret' >= 0 /\ pc # "part read" /\ Ahead = All
         /\ pc \in {"status", "header"} /\ io.got # <<>> => At < All /\ EndOf(At) = All /\ ret' > 0 /\ buf' = io.got
         /\ pc = "status" => io.got # <<>>
         /\ pc = "header" /\ io.got = <<>> => ret' = 0 /\ At = All
         /\ pc = "to the end" /\ ret' = 0 => At = All
<1>1. /\ pc \in FromServer /\ Held = io.got /\ io.peer = "server" /\ Reading /\ io # Idle
      /\ io.left \in Nat \ {0} /\ io.got \in Bytes
      /\ IF pc \in LineAt THEN io.call = "line" ELSE io.call = "bytes"
  <2>1. pc # "browser header"
    BY DEF FromServer
  <2> QED BY <2>1, HeldReading, ReadCall DEF ReadEof
<1>2. Placed
  BY Pieces DEF Progress
<1>3. /\ Ahead = All /\ At \in Nat /\ All \in Nat /\ Ahead = At + Len(io.got) /\ Len(io.got) \in Nat
  <2>1. rio["server"] = <<>> /\ net["server"] = <<>>
    BY <1>1 DEF ReadEof
  <2>2. Ahead = All /\ At \in Nat /\ Ahead = At + Len(Held) /\ Len(Held) \in Nat
    BY <1>2, <2>1 DEF Placed
  <2> QED BY <1>1, <2>2, WholeBytes
<1>12. io.left > 0 /\ io.left \in Nat
  BY <1>1
<1>11. io.got # <<>> <=> Len(io.got) > 0
  BY <1>1, <1>3, BytesLen
<1>4. /\ io' = Idle
      /\ ret' = (IF io.call = "line" /\ io.got # <<>> THEN Len(io.got) + 1 ELSE Len(io.got))
      /\ buf' = (IF io.call = "line" /\ io.got = <<>> THEN buf ELSE io.got)
  BY DEF ReadEof, Return
<1>5. ret' >= 0 /\ (pc = "to the end" /\ ret' = 0 => At = All)
  <2>1. ret' >= 0
    BY ONLY <1>3, <1>4
  <2>2. Len(io.got) = 0 => At = All
    BY ONLY <1>3
  <2>3. pc = "to the end" => ret' = Len(io.got)
    BY <1>1, <1>4 DEF LineAt
  <2> QED BY <2>1, <2>2, <2>3
<1>6. pc # "part read"
  <2> SUFFICES ASSUME pc = "part read" PROVE FALSE
    OBVIOUS
  <2>1. pc \notin ToBrowser
    BY DEF ToBrowser
  <2>2. csize = All - At
    BY <2>1 DEF Progress, Bodies, Begin
  <2>3. Len(io.got) + io.left = Smaller(csize, MAXLINE)
    BY <1>1 DEF Progress, Bodies
  <2>4. \A i \in Int, m \in Nat : Smaller(i, m) <= i /\ Smaller(i, m) \in Int
    BY ONLY TRUE DEF Smaller
  <2>5. csize \in Int /\ MAXLINE \in Nat
    BY SizeAssumption DEF TypeOK
  <2>6. io.left <= 0
    <3>1. Smaller(csize, MAXLINE) <= csize
      BY ONLY <2>4, <2>5
    <3>2. Len(io.got) + io.left <= All - At
      BY ONLY <2>2, <2>3, <3>1
    <3> QED BY ONLY <1>3, <1>12, <3>2
  <2> QED BY ONLY <1>12, <2>6
<1>7. pc \in {"status", "header"} => io.call = "line"
  BY <1>1 DEF LineAt
<1>8. pc = "status" => io.got # <<>>
  <2> SUFFICES ASSUME pc = "status", io.got = <<>> PROVE FALSE
    OBVIOUS
  <2>1. recv["browser"] = <<>>
    BY DEF Setup
  <2>2. At = 0
    BY <2>1 DEF At
  <2>3. Len(response.bytes) = 0 => response.bytes = <<>>
    BY WholeBytes
  <2>4. All # 0
    BY <2>3 DEF All
  <2> QED BY <1>3, <1>11, <2>2, <2>4
<1>9. pc = "header" /\ io.got = <<>> => ret' = 0 /\ At = All
  BY <1>3, <1>4, <1>7, <1>11
<1>10. ASSUME pc \in {"status", "header"}, io.got # <<>>
       PROVE  At < All /\ EndOf(At) = All /\ ret' > 0 /\ buf' = io.got
  <2>1. ret' > 0 /\ buf' = io.got /\ At < All
    BY <1>3, <1>4, <1>7, <1>10, <1>11
  <2> DEFINE q == response.bytes
             n == Len(io.got)
  <2>2. q \in Seq(Kind) /\ All = Len(q)
    BY WholeBytes DEF All
  <2>3. /\ n + io.left = MAXLINE - 1 /\ io.left > 0 /\ io.left \in Nat /\ MAXLINE \in Nat
        /\ DOMAIN io.got = 1..n /\ \A k \in 1..n : io.got[k][1] # "n"
    <3>1. n + io.left = MAXLINE - 1 /\ \A k \in DOMAIN io.got : io.got[k][1] # "n"
      BY <1>1, <1>10 DEF Progress, Lines
    <3>2. DOMAIN io.got = 1..n
      BY <1>1 DEF Bytes
    <3>3. io.left > 0 /\ io.left \in Nat /\ MAXLINE \in Nat
      BY <1>1, SizeAssumption
    <3> HIDE DEF n
    <3> QED BY <3>1, <3>2, <3>3
  <2>4. \A k \in 1..n : io.got[k][1] = q[At + k]
    BY <1>1, <1>2, HeldKinds
  <2>5. \A k \in (At + 1)..(All - 1) : q[k] # "n" /\ k # At + MAXLINE - 1
    <3> SUFFICES ASSUME NEW k \in (At + 1)..(All - 1) PROVE q[k] # "n" /\ k # At + MAXLINE - 1
      OBVIOUS
    <3>1. k - At \in 1..n /\ At + (k - At) = k /\ k < At + n
      BY <1>3
    <3>2. io.got[k - At][1] = q[k]
      BY <2>4, <3>1
    <3>3. q[k] # "n"
      BY <2>3, <3>1, <3>2
    <3>4. k # At + MAXLINE - 1
      BY ONLY <1>3, <2>3, <3>1
    <3> QED BY <3>3, <3>4
  <2> HIDE DEF q, n
  <2>6. LineEnd(q, At) = All
    <3>0. At < All
      BY <2>1
    <3>1. All \in (At + 1)..All
      BY ONLY <1>3, <3>0
    <3> QED BY <1>3, <2>2, <2>5, <3>1, LineEndIs
  <2> QED BY <2>1, <2>6 DEF EndOf, q
<1> QED BY <1>3, <1>4, <1>5, <1>6, <1>8, <1>9, <1>10

\* A call returns a count while all is well, and the thread is not at its end then.
LEMMA CallReturns ==
  ASSUME TypeOK, IoOK, Setup, Good, Call, ret >= 0
  PROVE  ret' >= 0 /\ io' # [call |-> "for ever"] /\ pc \notin Between
<1>1. /\ io # Idle /\ pc \in LineAt \cup PieceAt \cup ToServer \cup ToBrowser
      /\ \/ Take \/ ReadEof \/ WriteDone
         \/ \E k \in 1..RIO_BUFSIZE : Refill(k)
         \/ \E k \in 1..MAXLINE : Write(k)
  BY CallSucceeds
<1>2. pc \notin Between
  BY <1>1 DEF LineAt, PieceAt, ToServer, ToBrowser, Between
<1>3. Idle # [call |-> "for ever"] /\ buf \in Bytes /\ Len(buf) \in Nat
  BY Busy, BytesLen DEF TypeOK
<1>4. CASE Take
  <2>1. \/ UNCHANGED ret /\ io' \in ReadCalls(io.call, Source)
        \/ io' = Idle /\ ret' > 0 /\ ret' \in Int
    BY <1>4, TakeEffect
  <2>2. io.call # "for ever"
    BY <1>4 DEF Take, Reading
  <2>3. io' # [call |-> "for ever"]
    <3>1. io' \in ReadCalls(io.call, Source) => io'.call = io.call
      BY Busy
    <3>2. [call |-> "for ever"].call = "for ever"
      OBVIOUS
    <3> QED BY <1>3, <2>1, <2>2, <3>1, <3>2
  <2>4. ret' >= 0
    BY ONLY <2>1, ret >= 0
  <2> QED BY <1>2, <2>3, <2>4
<1>5. CASE ReadEof
  <2>1. io.got \in Bytes /\ Len(io.got) \in Nat
    BY <1>5, ReadCall, BytesLen DEF ReadEof
  <2>2. io' = Idle /\ ret' \in {Len(io.got) + 1, Len(io.got)}
    BY <1>5 DEF ReadEof, Return
  <2>3. ret' >= 0
    BY ONLY <2>1, <2>2
  <2> QED BY <1>2, <1>3, <2>2, <2>3
<1>6. CASE WriteDone
  <2>1. io' = Idle /\ ret' = Len(buf)
    BY <1>6 DEF WriteDone, Return
  <2>2. Len(buf) \in Nat
    BY <1>3
  <2>3. ret' >= 0
    BY ONLY <2>1, <2>2
  <2> QED BY <1>2, <1>3, <2>1, <2>3
<1>7. CASE \E k \in 1..RIO_BUFSIZE : Refill(k)
  <2>1. io' = io /\ ret' = ret /\ Reading
    BY <1>7 DEF Refill
  <2> QED BY <1>2, <2>1, Busy DEF Reading
<1>8. CASE \E k \in 1..MAXLINE : Write(k)
  <2>1. PICK k \in 1..MAXLINE : Write(k)
    BY <1>8
  <2>2. io' \in WriteCalls(Target)
    BY <2>1, WriteEffect
  <2>3. ret' = ret
    BY <2>1 DEF Write
  <2> QED BY <1>2, <2>2, <2>3, Busy
<1> QED BY <1>1, <1>4, <1>5, <1>6, <1>7, <1>8

\* Every call brings the response on as it should (csapp.c 569, 599, 643, 669).
LEMMA ProgressCall ==
  ASSUME TypeOK, IoOK, Setup, Replies, CopyOK, Good, Live, ~down["browser"], Progress, Call,
         response.bytes # <<>>, TypeOK', IoOK'
  PROVE  Progress'
<1>1. /\ io # Idle /\ pc \in LineAt \cup PieceAt \cup ToServer \cup ToBrowser
      /\ \/ Take \/ ReadEof \/ WriteDone
         \/ \E k \in 1..RIO_BUFSIZE : Refill(k)
         \/ \E k \in 1..MAXLINE : Write(k)
      /\ UNCHANGED <<pc, response, cache, tsize, csize, inserted>>
  BY CallSucceeds DEF copyVars
<1>2. /\ Whole' = Whole /\ All' = All /\ Starts' = Starts /\ (Named' <=> Named)
      /\ \A p : EndOf(p)' = EndOf(p)
  BY <1>1 DEF Whole, All, Starts, Named, EndOf
<1>3. /\ Begin' = Begin
      /\ pc \in ToBrowser => Ahead' = Ahead /\ buf' = buf /\ (io' = Idle => ret' = Len(buf))
      /\ pc \notin ToBrowser => At' = At /\ Begin = At
  BY CallBegin
<1>4. Total' = Whole
  <2>1. Total' = Total \/ Total = <<>>
    BY TotalCall
  <2>2. Whole # <<>>
    <3>1. response.bytes \in Seq(Kind)
      BY DEF TypeOK
    <3>2. Len(Whole) = Len(response.bytes) /\ Len(response.bytes) # 0
      BY <3>1, StreamBytes DEF Whole
    <3> QED BY <3>2
  <2> QED BY <2>1, <2>2 DEF Progress
<1>5. Placed'
  <2>1. (TypeOK /\ IoOK /\ Total = Whole => Placed)'
    BY Pieces, PTL
  <2> QED BY <1>2, <1>4, <2>1
<1>6. Headers'
  BY <1>1, <1>2, <1>3 DEF Progress, Headers
<1>7. Copies'
  BY <1>1, <1>2, <1>3 DEF Progress, Copies, NULL
<1>8. Ending'
  <2>1. ret' >= 0 /\ io' # [call |-> "for ever"] /\ pc \notin Between
    BY CallReturns DEF Progress, Ending
  <2> QED BY <1>1, <2>1 DEF Ending, Between
<1>9. Writes'
  BY <1>1, <1>2, <1>3 DEF Progress, Writes
<1>10. CASE pc \in FromServer
  <2>1. /\ pc \notin ToServer \cup ToBrowser /\ pc' = pc
        /\ Take \/ ReadEof \/ \E k \in 1..RIO_BUFSIZE : Refill(k)
    <3>1. pc \notin ToServer \cup ToBrowser
      BY <1>10 DEF FromServer, ToServer, ToBrowser
    <3>2. io.call # "write"
      BY <3>1, WriteCall
    <3> QED BY <1>1, <3>1, <3>2 DEF WriteDone, Write
  <2>2. At' = At /\ Begin' = At /\ Begin = At
    BY <1>3, <2>1
  <2>3. CASE Take
    <3>1. pc \in {"status", "header"} =>
            /\ io' # Idle => Len(io'.got) + io'.left = MAXLINE - 1
                              /\ \A k \in DOMAIN io'.got : io'.got[k][1] # "n"
            /\ io' = Idle => ret' > 0 /\ At < All /\ Ahead' = EndOf(At)
      BY <1>1, <1>5, <2>2, <2>3, LineTaken
    <3>2. pc \in PieceAt =>
            /\ pc = "to the end" => (io' = Idle => ret' # 0)
            /\ pc = "part read" =>
                 (IF io' # Idle THEN Len(io'.got) + io'.left ELSE Len(buf')) = Smaller(csize, MAXLINE)
      BY <2>3, PieceTaken
    <3>3. ret' > 0 => ret' # 0
      OBVIOUS
    <3>4. Lines'
      BY <1>2, <1>10, <2>1, <2>2, <3>1, <3>3 DEF Lines, ToBrowser, Idle
    <3>5. Bodies'
      BY <1>1, <1>2, <1>10, <2>1, <2>2, <3>2 DEF Bodies, Progress, PieceAt, FromServer, Smaller, Idle
    <3> QED BY <1>2, <1>4, <1>6, <1>7, <1>8, <1>9, <3>4, <3>5 DEF Progress
  <2>4. CASE ReadEof
    <3>1. /\ io' = Idle /\ ret' >= 0 /\ pc # "part read"
          /\ pc \in {"status", "header"} /\ io.got # <<>> => At < All /\ EndOf(At) = All /\ ret' > 0 /\ buf' = io.got
          /\ pc = "status" => io.got # <<>>
          /\ pc = "header" /\ io.got = <<>> => ret' = 0 /\ At = All
          /\ pc = "to the end" /\ ret' = 0 => At = All
      BY <1>10, <2>4, EndRead
    <3>2. Ahead = All
      BY <1>10, <2>4, EndRead
    <3>3. pc \in {"status", "header"} /\ io.got # <<>> => Ahead' = Ahead
      <4>1. pc # "browser header" /\ Reading
        BY <1>10, <2>4 DEF FromServer, ReadEof
      <4>2. Held = io.got
        BY <4>1, HeldReading
      <4>3. ASSUME pc \in {"status", "header"}, io.got # <<>> PROVE Held' = io.got
        <5>1. ret' > 0 => ret' # 0
          OBVIOUS
        <5> QED BY <1>10, <2>1, <3>1, <4>3, <5>1 DEF Held, Idle
      <4> QED BY <2>2, <4>2, <4>3 DEF Ahead
    <3>4. ret' > 0 => ret' # 0
      OBVIOUS
    <3>5. Lines'
      BY <1>2, <1>10, <2>1, <2>2, <3>1, <3>2, <3>3, <3>4 DEF Lines, ToBrowser, Idle
    <3>6. Bodies'
      BY <1>1, <1>2, <1>10, <2>1, <2>2, <3>1 DEF Bodies, Progress, PieceAt, FromServer, Smaller, Idle
    <3> QED BY <1>2, <1>4, <1>6, <1>7, <1>8, <1>9, <3>5, <3>6 DEF Progress
  <2>5. CASE \E k \in 1..RIO_BUFSIZE : Refill(k)
    <3>1. UNCHANGED <<io, ret, buf>>
      BY <2>5 DEF Refill
    <3>2. Lines' /\ Bodies'
      BY <1>1, <1>2, <1>10, <2>2, <3>1 DEF Lines, Bodies, Progress, Idle, FromServer, Smaller
    <3> QED BY <1>2, <1>4, <1>6, <1>7, <1>8, <1>9, <3>2 DEF Progress
  <2> QED BY <2>1, <2>3, <2>4, <2>5
<1>11. CASE pc \notin FromServer
  <2>1. Lines'
    BY <1>1, <1>2, <1>3, <1>11 DEF Lines, Progress, FromServer, ToBrowser
  <2>2. Bodies'
    BY <1>1, <1>2, <1>3, <1>11 DEF Bodies, Progress, FromServer, ToBrowser, LineAt, PieceAt, ToServer, Smaller
  <2> QED BY <1>2, <1>4, <1>6, <1>7, <1>8, <1>9, <2>1, <2>2 DEF Progress
<1> QED BY <1>10, <1>11

\* A copy is never the pointer that was freed.
LEMMA NotFreed == NULL \notin Bytes
<1>1. NULL \in Bytes => NULL[1] \in Byte
  BY DEF NULL, Bytes
<1>2. NULL[1] = <<"freed", 0>>
  BY DEF NULL
<1>3. <<"freed", 0>> \notin Byte
  BY DEF Byte, Kind, Garbage
<1> QED BY <1>1, <1>2, <1>3

\* A start of the response and the piece after it make a longer start.
LEMMA LongerStart ==
  ASSUME TypeOK, NEW b \in Nat, NEW e \in Nat, b <= e, e <= All
  PROVE  /\ SubSeq(Whole, 1, b) \o SubSeq(Whole, b + 1, e) = SubSeq(Whole, 1, e)
         /\ SubSeq(Whole, 1, e) \in Bytes
         /\ Len(SubSeq(Whole, b + 1, e)) = e - b /\ SubSeq(Whole, b + 1, e) \in Bytes
<1>1. Whole \in Seq(Byte) /\ Len(Whole) = All /\ All \in Nat
  BY WholeBytes DEF Bytes
<1>2. b + 1 \in 1..(Len(Whole) + 1) /\ b \in (1 - 1)..Len(Whole) /\ e \in b..Len(Whole)
      /\ 1 \in 1..(Len(Whole) + 1)
  BY <1>1
<1>3. SubSeq(Whole, 1, b) \o SubSeq(Whole, b + 1, e) = SubSeq(Whole, 1, e)
  BY <1>1, <1>2, ConcatAdjacentSubSeq
<1> HIDE DEF Whole, All
<1>4. \A k \in 1..Len(Whole) : Whole[k] \in Byte
  BY <1>1
<1>5. SubSeq(Whole, 1, e) \in Bytes
  BY <1>1, <1>2, <1>4 DEF Bytes
<1>6. Len(SubSeq(Whole, b + 1, e)) = e - b /\ SubSeq(Whole, b + 1, e) \in Bytes
  BY <1>1, <1>2, <1>4 DEF Bytes
<1> QED BY <1>3, <1>5, <1>6

\* A start of the response is as long as it says.
LEMMA StartLength ==
  ASSUME TypeOK, NEW b \in Nat, b <= All
  PROVE  Len(SubSeq(Whole, 1, b)) = b
<1>1. Whole \in Seq(Byte) /\ Len(Whole) = All /\ All \in Nat
  BY WholeBytes DEF Bytes
<1> HIDE DEF Whole, All
<1> QED BY <1>1

\* write_buf_to_cache_browser stores what it has written, or finds that it does not fit.
LEMMA CopyGrows ==
  ASSUME TypeOK, IoOK, CopyOK, Progress, pc \in ToBrowser, io = Idle,
         NEW counted \in BOOLEAN, counted => pc \in Counting, Store(ret, counted)
  PROVE  /\ IF cache' = NULL THEN All > MAX_OBJECT_SIZE
            ELSE cache' = SubSeq(Whole, 1, At) /\ cache # NULL
         /\ ~counted => tsize' = tsize
<1>1. /\ Placed /\ At \in Nat /\ At <= All /\ All \in Nat /\ Held = <<>> /\ Ahead = At
  <2>1. Held = <<>>
    BY DEF Held, ToBrowser, FromServer
  <2>2. Placed
    BY Pieces DEF Progress
  <2>3. Len(Held) = 0
    BY <2>1
  <2>4. Ahead = At + Len(Held) /\ At \in Nat /\ Ahead <= All
    BY <2>2 DEF Placed
  <2> QED BY ONLY <2>1, <2>2, <2>3, <2>4, WholeBytes, TypeOK
<1>2. /\ Begin = At - Len(buf) /\ Begin >= 0 /\ buf = SubSeq(Whole, Begin + 1, At) /\ ret = Len(buf)
      /\ buf # <<>> /\ buf \in Bytes
  BY <1>1 DEF Progress, Writes, Begin, TypeOK
<1>3. Len(buf) \in Nat /\ Len(buf) > 0 /\ Begin \in Nat
  <2>1. Len(buf) \in Nat /\ Len(buf) # 0
    BY <1>2, BytesLen
  <2>2. Begin = At - Len(buf) /\ Begin >= 0 /\ At \in Nat
    BY <1>1, <1>2
  <2> QED BY ONLY <2>1, <2>2
<1>4. /\ SubSeq(Whole, 1, Begin) \o SubSeq(Whole, Begin + 1, At) = SubSeq(Whole, 1, At)
      /\ SubSeq(Whole, 1, At) \in Bytes
  <2>1. Begin <= At
    BY ONLY <1>1, <1>2, <1>3
  <2> QED BY <1>1, <1>3, <2>1, LongerStart
<1>5. IF cache = NULL THEN All > MAX_OBJECT_SIZE ELSE cache = SubSeq(Whole, 1, Begin)
  BY DEF Progress, Copies, Early, ToBrowser
<1>6. ~(ret <= 0)
  <2>1. ret = Len(buf)
    BY <1>2
  <2> QED BY ONLY <1>3, <2>1
<1>7. CASE cache = NULL
  <2>1. UNCHANGED <<cache, tsize>>
    BY <1>7 DEF Store
  <2> QED BY <1>5, <1>7, <2>1 DEF NULL
<1>8. CASE cache # NULL
  <2>1. cache \o buf = SubSeq(Whole, 1, At) /\ SubSeq(Whole, 1, At) # NULL
    BY <1>2, <1>4, <1>5, <1>8, NotFreed
  <2>2. CASE ~counted
    <3>1. cache' = cache \o buf /\ tsize' = tsize
      BY <1>6, <1>8, <2>2 DEF Store
    <3> QED BY <1>8, <2>1, <3>1 DEF NULL
  <2>3. CASE counted
    <3>1. tsize = Begin
      <4>1. tsize = Len(cache)
        BY <1>8, <2>3 DEF CopyOK
      <4>2. Begin <= All
        BY ONLY <1>1, <1>2, <1>3
      <4>3. Len(SubSeq(Whole, 1, Begin)) = Begin
        BY <1>3, <4>2, StartLength
      <4> QED BY <1>5, <1>8, <4>1, <4>3
    <3>2. tsize + ret = At
      BY ONLY <1>1, <1>2, <1>3, <3>1
    <3>3. CASE tsize + ret > MAX_OBJECT_SIZE
      <4>1. cache' = NULL
        BY <1>6, <1>8, <2>3, <3>3 DEF Store
      <4>2. All > MAX_OBJECT_SIZE
        BY <1>1, <3>2, <3>3, SizeAssumption
      <4> QED BY <2>3, <4>1, <4>2 DEF NULL
    <3>4. CASE ~(tsize + ret > MAX_OBJECT_SIZE)
      <4>1. cache' = cache \o buf
        BY <1>6, <1>8, <2>3, <3>4 DEF Store
      <4> QED BY <1>8, <2>1, <2>3, <4>1 DEF NULL
    <3> QED BY <3>3, <3>4
  <2> QED BY <2>2, <2>3
<1> QED BY <1>7, <1>8

\* What the thread's own steps have in common.
LEMMA ThreadKeeps ==
  ASSUME TypeOK, IoOK, Setup, Replies, CopyOK, Good, Live, ~down["browser"], Progress, Thread, ~Call
  PROVE  /\ recv' = recv /\ response' = response /\ ret' = ret
         /\ At' = At /\ Held' = Held /\ Ahead' = Ahead /\ Total' = Whole
         /\ Whole' = Whole /\ All' = All /\ Starts' = Starts /\ (Named' <=> Named)
         /\ \A p : EndOf(p)' = EndOf(p)
         /\ Placed /\ All \in Nat /\ At \in Nat /\ Ahead \in Nat /\ At <= Ahead /\ Ahead <= All
         /\ Ahead = At + Len(Held) /\ Len(Held) \in Nat
         /\ ret >= 0 /\ ret # -1
<1>1. UNCHANGED <<rio, net, recv, response, ret>>
  BY DEF Thread, peerVars, ioVars, Open_clientfd, RequestSent, BrowserHeader, HeaderSent, BlankSent, Status, StatusSent, Header, LineSent, Body, ToTheEnd, PieceSent, ByLength, PartRead, PartSent, Insert_cache
<1>2. Held' = Held
  BY HeldThread
<1>3. At' = At /\ Ahead' = Ahead /\ Total' = Total
  BY <1>1, <1>2 DEF At, Ahead, Total
<1>4. /\ Whole' = Whole /\ All' = All /\ Starts' = Starts /\ (Named' <=> Named)
      /\ \A p : EndOf(p)' = EndOf(p)
  BY <1>1 DEF Whole, All, Starts, Named, EndOf
<1>5. Placed /\ All \in Nat
  BY Pieces, WholeBytes DEF Progress
<1>6. ret >= 0 /\ ret # -1
  <2>1. ret >= 0
    BY DEF Progress, Ending
  <2> QED BY <2>1
<1> QED BY <1>1, <1>2, <1>3, <1>4, <1>5, <1>6 DEF Progress, Placed

\* What a call of RIO is when it has begun.
LEMMA CallBegun ==
  /\ \A t : readlineb(t) => /\ io' # Idle /\ io' # [call |-> "for ever"]
                            /\ io'.got = <<>> /\ io'.left = MAXLINE - 1
  /\ \A t, n : readnb(t, n) => /\ io' # Idle /\ io' # [call |-> "for ever"]
                               /\ io'.got = <<>> /\ io'.left = n
  /\ \A t, b : writen(t, b) => io' # Idle /\ io' # [call |-> "for ever"]
<1>1. \A t : readlineb(t) => io'.call = "line" /\ io'.got = <<>> /\ io'.left = MAXLINE - 1
  BY DEF readlineb
<1>2. \A t, n : readnb(t, n) => io'.call = "bytes" /\ io'.got = <<>> /\ io'.left = n
  BY DEF readnb
<1>3. \A t, b : writen(t, b) => io'.call = "write"
  BY DEF writen
<1> QED BY <1>1, <1>2, <1>3, Busy

\* The steps before server_to_browser only pass the browser's header on.
LEMMA ProgressEarly ==
  ASSUME TypeOK, IoOK, Setup, Replies, CopyOK, Good, Live, ~down["browser"], Progress, Thread, ~Call,
         Open_clientfd \/ RequestSent \/ BrowserHeader \/ HeaderSent \/ BlankSent
  PROVE  Progress'
<1>1. /\ recv' = recv /\ ret' = ret /\ At' = At /\ Total' = Whole
      /\ Whole' = Whole /\ All' = All /\ ret >= 0 /\ ret # -1
  BY ThreadKeeps
<1>2. pc \in Early /\ csize = 0 /\ csize' = csize /\ recv["browser"] = <<>>
  <2>1. pc \in Early /\ csize' = csize
    BY DEF copyVars, Early, Open_clientfd, RequestSent, BrowserHeader, HeaderSent, BlankSent
  <2> QED BY <2>1 DEF Progress, Headers, Setup
<1>3. /\ pc' \in Early \cup {"status"} /\ (pc' = "status" => BlankSent)
      /\ io' # [call |-> "for ever"]
  BY <1>1, CallBegun DEF Early, Exit, Open_clientfd, RequestSent, BrowserHeader, HeaderSent, BlankSent
<1>4. pc' = "status" => io' # Idle /\ io'.got = <<>> /\ io'.left = MAXLINE - 1 /\ cache' = <<>>
  BY <1>3, CallBegun DEF BlankSent
<1>5. Lines'
  <2>1. Len(<<>>) + (MAXLINE - 1) = MAXLINE - 1 /\ DOMAIN <<>> = {}
    BY SizeAssumption
  <2>2. \A q : q = <<>> => (\A k \in DOMAIN q : q[k][1] # "n")
    BY <2>1
  <2>3. io'.got = <<>> /\ io'.left = MAXLINE - 1 => Len(io'.got) + io'.left = MAXLINE - 1
    BY <2>1
  <2> QED BY <1>3, <1>4, <2>2, <2>3 DEF Lines, Early, Idle
<1>6. Writes' /\ Headers' /\ Bodies'
  BY <1>2, <1>3 DEF Writes, Headers, Bodies, Early, ToBrowser
<1>7. Copies'
  <2>1. SubSeq(Whole, 1, 0) = <<>> /\ <<>> # NULL
    <3>1. Whole \in Seq(Byte)
      BY WholeBytes DEF Bytes
    <3> HIDE DEF Whole
    <3> QED BY <3>1 DEF NULL
  <2>2. pc' = "status" => Begin' = At'
    BY DEF Begin, ToBrowser
  <2>3. At = 0
    BY <1>2 DEF At
  <2> QED BY <1>1, <1>3, <1>4, <2>1, <2>2, <2>3 DEF Copies, Early, NULL
<1>8. Ending'
  BY <1>1, <1>3 DEF Ending, Early
<1> QED BY <1>1, <1>5, <1>6, <1>7, <1>8 DEF Progress

\* What is to be written is what was read: the bytes of buf follow those the browser has.
LEMMA WriteBegins ==
  ASSUME TypeOK, IoOK, Setup, Replies, CopyOK, Good, Live, ~down["browser"], Progress, Thread, ~Call,
         pc \in FromServer, Held = buf, buf # <<>>, writen("browser", buf), buf' = buf, pc' \in ToBrowser
  PROVE  Writes' /\ Begin' = At /\ Begin = At /\ At < Ahead /\ At >= 0
<1>1. /\ Ahead' = Ahead /\ Ahead = At + Len(buf) /\ At \in Nat /\ Len(buf) \in Nat
      /\ Whole' = Whole /\ Placed
  BY ThreadKeeps
<1>2. buf = SubSeq(Whole, At + 1, Ahead)
  BY <1>1 DEF Placed
<1>3. Len(buf) # 0
  BY BytesLen DEF TypeOK
<1>4. Begin' = Ahead - Len(buf)
  BY <1>1 DEF Begin
<1>5. Begin' = At /\ At < Ahead /\ At >= 0
  BY ONLY <1>1, <1>3, <1>4
<1>6. Begin = At
  BY DEF Begin, FromServer, ToBrowser
<1>7. io' # Idle
  BY CallBegun
<1> QED BY <1>1, <1>2, <1>5, <1>6, <1>7 DEF Writes, Idle

\* After a write all that was read is with the browser.
LEMMA WriteEnds ==
  ASSUME TypeOK, IoOK, Setup, Replies, CopyOK, Good, Live, ~down["browser"], Progress, Thread, ~Call,
         pc \in ToBrowser, io = Idle, pc' \notin ToBrowser
  PROVE  /\ Begin' = At /\ Ahead = At /\ ret = Len(buf) /\ ~(ret <= 0)
         /\ buf = SubSeq(Whole, Begin + 1, At) /\ Begin \in Nat /\ Begin <= At
         /\ Len(buf) \in Nat /\ Begin = At - Len(buf)
<1>1. /\ At' = At /\ Ahead = At + Len(Held) /\ At \in Nat
  BY ThreadKeeps
<1>2. Held = <<>>
  BY DEF Held, FromServer, ToBrowser
<1>3. Len(Held) = 0
  BY <1>2
<1>4. Ahead = At
  BY ONLY <1>1, <1>3
<1>5. Begin' = At
  BY <1>1 DEF Begin
<1>6. ret = Len(buf) /\ buf = SubSeq(Whole, Begin + 1, At) /\ buf # <<>> /\ Begin >= 0
  BY <1>4 DEF Progress, Writes
<1>7. Len(buf) \in Nat /\ Len(buf) # 0
  BY <1>6, BytesLen DEF TypeOK
<1>8. Begin = At - Len(buf)
  BY <1>4 DEF Begin
<1>9. Begin \in Nat /\ Begin <= At
  <2>1. Begin >= 0
    BY <1>6
  <2> QED BY ONLY <1>1, <1>7, <1>8, <2>1
<1>10. ~(ret <= 0)
  <2>1. ret = Len(buf)
    BY <1>6
  <2> QED BY ONLY <1>7, <2>1
<1> QED BY <1>4, <1>5, <1>6, <1>7, <1>8, <1>9, <1>10

\* What is in buf reads as the same place of the response does.
LEMMA SameKinds ==
  ASSUME TypeOK, NEW b \in Nat, NEW e \in Nat, b < e, e <= All, buf = SubSeq(Whole, b + 1, e)
  PROVE  /\ Kinds(buf) = SubSeq(response.bytes, b + 1, e)
         /\ buf # <<>> /\ buf[1][1] = response.bytes[b + 1]
<1> DEFINE q == response.bytes
<1>1. /\ Whole \in Seq(Byte) /\ Len(Whole) = All /\ All \in Nat /\ q \in Seq(Kind) /\ Len(q) = All
      /\ \A k \in 1..All : Whole[k][1] = q[k]
  BY WholeBytes DEF Bytes, All
<1> HIDE DEF q, All, Whole
<1> DEFINE n == e - b
<1>0. n \in Nat /\ n > 0 /\ e = b + n /\ 1 \in 1..n
  OBVIOUS
<1>2. /\ buf \in Seq(Byte) /\ Len(buf) = n /\ DOMAIN buf = 1..n
      /\ \A k \in 1..n : buf[k] = Whole[b + k]
  BY <1>1
<1>3. /\ SubSeq(q, b + 1, e) \in Seq(Kind) /\ Len(SubSeq(q, b + 1, e)) = n
      /\ \A k \in 1..n : SubSeq(q, b + 1, e)[k] = q[b + k]
  BY <1>1
<1> HIDE DEF n
<1>4. \A k \in 1..n : b + k \in 1..All
  BY <1>0, <1>1
<1>5. \A k \in 1..n : buf[k][1] = q[b + k] /\ q[b + k] \in Kind
  BY <1>1, <1>2, <1>4
<1>6. Kinds(buf) = [k \in 1..n |-> q[b + k]]
  BY <1>2, <1>5 DEF Kinds
<1>7. Kinds(buf) \in Seq(Kind) /\ Len(Kinds(buf)) = n /\ \A k \in 1..n : Kinds(buf)[k] = q[b + k]
  <2> DEFINE f == [k \in 1..n |-> q[b + k]]
  <2>1. f \in Seq(Kind) /\ Len(f) = n /\ \A k \in 1..n : f[k] = q[b + k]
    BY ONLY <1>0, <1>5
  <2> QED BY <1>6, <2>1
<1>8. Kinds(buf) = SubSeq(q, b + 1, e)
  BY <1>3, <1>7, SameSeq
<1>9. buf # <<>> /\ buf[1][1] = q[b + 1]
  <2>1. Len(buf) # 0
    BY <1>0, <1>2
  <2> QED BY <1>0, <1>5, <2>1
<1> QED BY <1>8, <1>9 DEF q

\* Where the header's lines begin, as the response has them.
LEMMA HeaderLines ==
  ASSUME TypeOK, Starts \in SUBSET (0..All), HeaderAt(response, Starts)
  PROVE  /\ EndOf(0) \in Starts
         /\ \A p \in Starts : p < All /\ ~BlankAt(response.bytes, p) => EndOf(p) \in Starts
         /\ Named => (All \in Starts => response.length = 0)
         /\ Named => \A p \in Starts : BlankAt(response.bytes, p) =>
                       response.length \in {0, All - EndOf(p)}
BY DEF HeaderAt, EndOf, Named, All

\* A line of the header that is read is written, its length taken (proxy.c 166, 170).
LEMMA ProgressLine ==
  ASSUME TypeOK, IoOK, Setup, Replies, CopyOK, Good, Live, ~down["browser"], Progress, Thread, ~Call,
         Starts \in SUBSET (0..All), HeaderAt(response, Starts), response.bytes # <<>>,
         Status \/ Header
  PROVE  Progress'
<1>1. /\ ret' = ret /\ At' = At /\ Held' = Held /\ Ahead' = Ahead /\ Total' = Whole /\ response' = response
      /\ Whole' = Whole /\ All' = All /\ Starts' = Starts /\ (Named' <=> Named)
      /\ \A p : EndOf(p)' = EndOf(p)
  BY ThreadKeeps
<1>2. /\ All \in Nat /\ At \in Nat /\ Ahead \in Nat /\ At <= Ahead /\ Ahead <= All /\ Placed /\ ret >= 0
      /\ Ahead = At + Len(Held) /\ Len(Held) \in Nat
  BY ThreadKeeps
<1>3. Begin = At /\ pc \in FromServer /\ io = Idle /\ pc \in {"status", "header"}
  BY DEF Begin, ToBrowser, FromServer, Status, Header, Idling
<1>4. UNCHANGED <<cache, tsize>>
  BY DEF Status, Header, copyVars
<1>5. pc = "status" => At = 0 /\ 0 < All /\ Ahead = EndOf(0)
  <2>1. pc = "status" => recv["browser"] = <<>>
    BY DEF Setup
  <2>2. pc = "status" => At = 0
    BY <2>1 DEF At
  <2>3. 0 < All
    <3>1. response.bytes \in Seq(Kind)
      BY DEF TypeOK
    <3> QED BY <3>1 DEF All
  <2> QED BY <1>3, <2>2, <2>3 DEF Progress, Lines
<1>6. CASE Header /\ ret = 0
  <2>1. pc = "header" /\ pc' = "body" /\ csize' = csize /\ io' = io
    BY <1>6 DEF Header
  <2>2. Begin' = At /\ At = All
    BY <1>1, <1>3, <1>6, <2>1 DEF Begin, ToBrowser, Progress, Lines
  <2>3. csize = 0
    <3>1. Begin \in Starts /\ (csize = 0 \/ (csize = response.length /\ Named))
      BY <2>1 DEF Progress, Headers
    <3> QED BY <1>3, <2>2, <3>1, HeaderLines
  <2>4. Lines' /\ Writes' /\ Headers' /\ Bodies'
    BY <2>1, <2>3 DEF Lines, Writes, Headers, Bodies, ToBrowser, Early
  <2>5. Copies'
    BY <1>1, <1>3, <1>4, <2>1, <2>2 DEF Copies, Progress, Early, NULL
  <2>6. Ending'
    BY <1>1, <2>1 DEF Ending, Progress
  <2> QED BY <1>1, <2>4, <2>5, <2>6 DEF Progress
<1>7. CASE Status \/ (Header /\ ret # 0)
  <2>1. /\ writen("browser", buf) /\ buf' = buf /\ pc' \in {"status sent", "line sent"}
        /\ pc' = "status sent" <=> pc = "status"
    BY <1>7 DEF Status, Header
  <2>2. Held = buf
    BY <1>3, <1>7 DEF Held, Status, Header
  <2>3. At < All /\ Ahead = EndOf(At)
    BY <1>3, <1>5, <1>7 DEF Progress, Lines, Status, Header
  <2>4. At < Ahead
    <3>1. LineEnd(response.bytes, At) \in (At + 1)..Len(response.bytes)
      BY <1>2, <2>3, LineEndAt, WholeBytes DEF All
    <3> QED BY <1>2, <2>3, <3>1 DEF EndOf
  <2>5. buf # <<>>
    <3>1. Len(Held) # 0
      BY ONLY <1>2, <2>4
    <3> QED BY <2>2, <3>1
  <2>6. Writes' /\ Begin' = At
    BY <1>3, <2>1, <2>2, <2>5, WriteBegins DEF ToBrowser
  <2>7. Lines'
    BY <1>1, <1>5, <2>1, <2>3, <2>6 DEF Lines
  <2>8. Bodies' /\ Ending'
    <3>1. io' # [call |-> "for ever"]
      BY <2>1, CallBegun
    <3> QED BY <1>1, <2>1, <3>1 DEF Bodies, Ending, Progress
  <2>9. Copies'
    BY <1>1, <1>3, <1>4, <2>1, <2>6 DEF Copies, Progress, Early, NULL
  <2>10. Headers'
    <3>1. CASE Status
      <4>1. pc = "status" /\ pc' = "status sent" /\ csize' = csize
        BY <3>1 DEF Status, copyVars
      <4> QED BY <4>1 DEF Headers, Progress, Early
    <3>2. CASE Header /\ ret # 0
      <4>1. /\ pc = "header" /\ pc' = "line sent"
            /\ csize' = IF buf # <<>> /\ buf[1][1] = "L" THEN response.length ELSE csize
        BY <3>2 DEF Header
      <4>2. At \in Starts /\ (csize = 0 \/ (csize = response.length /\ Named))
        BY <1>3, <4>1 DEF Progress, Headers
      <4>3. buf[1][1] = response.bytes[At + 1]
        <5>1. buf = SubSeq(Whole, At + 1, Ahead)
          BY <1>2, <2>2 DEF Placed
        <5> QED BY <1>2, <2>4, <5>1, SameKinds
      <4>4. buf[1][1] = "L" => Named
        BY <2>3, <4>2, <4>3 DEF Named
      <4> QED BY <1>1, <2>6, <4>1, <4>2, <4>4 DEF Headers, Early
    <3> QED BY <1>7, <3>1, <3>2
  <2> QED BY <1>1, <2>6, <2>7, <2>8, <2>9, <2>10 DEF Progress
<1> QED BY <1>6, <1>7

\* A line that was written goes to the copy, and the next one is read unless it was the
\* last of the header (proxy.c 163, 167, 175).
LEMMA ProgressLineSent ==
  ASSUME TypeOK, IoOK, Setup, Replies, CopyOK, Good, Live, ~down["browser"], Progress, Thread, ~Call,
         Starts \in SUBSET (0..All), HeaderAt(response, Starts),
         StatusSent \/ LineSent
  PROVE  Progress'
<1>1. /\ ret' = ret /\ At' = At /\ Total' = Whole /\ response' = response
      /\ Whole' = Whole /\ All' = All /\ Starts' = Starts /\ (Named' <=> Named) /\ ret # -1
  BY ThreadKeeps
<1>2. /\ All \in Nat /\ At \in Nat /\ At <= Ahead /\ Ahead <= All
  BY ThreadKeeps
<1>3. /\ pc \in {"status sent", "line sent"} /\ pc \in ToBrowser /\ pc \in Counting /\ io = Idle
      /\ Store(ret, TRUE) /\ csize' = csize
  BY DEF StatusSent, LineSent, Idling, ToBrowser, Counting
<1>4. IF cache' = NULL THEN All > MAX_OBJECT_SIZE ELSE cache' = SubSeq(Whole, 1, At) /\ cache # NULL
  BY <1>3, CopyGrows
<1>5. ~(ret <= 0) /\ pc' \in {"header", "body"}
  <2>1. pc' \in {"header", "body", "exit"}
    BY DEF StatusSent, LineSent, Exit
  <2>2. pc' \notin ToBrowser
    BY <2>1 DEF ToBrowser
  <2>3. ~(ret <= 0)
    BY <1>3, <2>2, WriteEnds
  <2>4. pc' # "exit"
    BY <2>3 DEF StatusSent, LineSent
  <2> QED BY <2>1, <2>3, <2>4
<1>6. pc' \notin ToBrowser
  BY <1>5 DEF ToBrowser
<1>7. /\ Begin' = At /\ Ahead = At /\ buf = SubSeq(Whole, Begin + 1, At) /\ Begin \in Nat /\ Begin <= At
      /\ Begin < All /\ At = EndOf(Begin)
  BY <1>3, <1>6, WriteEnds DEF Progress, Lines
<1>8. Copies'
  BY <1>1, <1>4, <1>5, <1>7 DEF Copies, Early, NULL
<1>9. Writes' /\ Bodies'
  BY <1>5, <1>6 DEF Writes, Bodies, ToBrowser
<1>10. CASE StatusSent \/ (LineSent /\ ~Blank(buf))
  <2>1. pc' = "header" /\ readlineb("server")
    BY <1>5, <1>10 DEF StatusSent, LineSent
  <2>2. io' # Idle /\ io' # [call |-> "for ever"] /\ io'.got = <<>> /\ io'.left = MAXLINE - 1
    BY <2>1, CallBegun
  <2>3. Lines'
    <3>1. Len(<<>>) + (MAXLINE - 1) = MAXLINE - 1 /\ DOMAIN <<>> = {}
      BY SizeAssumption
    <3>2. \A q : q = <<>> => (\A k \in DOMAIN q : q[k][1] # "n")
      BY <3>1
    <3>3. Len(io'.got) + io'.left = MAXLINE - 1
      BY <2>2, <3>1
    <3> QED BY <2>1, <2>2, <3>2, <3>3 DEF Lines, Idle
  <2>4. Ending'
    BY <1>1, <2>1, <2>2 DEF Ending, Progress
  <2>5. At \in Starts
    <3>1. CASE StatusSent
      <4>1. pc = "status sent"
        BY <3>1 DEF StatusSent
      <4>2. Begin = 0
        BY <4>1 DEF Progress, Lines
      <4> QED BY <1>7, <4>2, HeaderLines
    <3>2. CASE LineSent /\ ~Blank(buf)
      <4>1. pc = "line sent"
        BY <3>2 DEF LineSent
      <4>2. Begin \in Starts
        BY <4>1 DEF Progress, Headers
      <4>3. ~BlankAt(response.bytes, Begin)
        <5>1. Begin < At
          <6>1. LineEnd(response.bytes, Begin) \in (Begin + 1)..Len(response.bytes)
            BY <1>7, LineEndAt, WholeBytes DEF All
          <6> QED BY <1>2, <1>7, <6>1 DEF EndOf
        <5>2. Kinds(buf) = SubSeq(response.bytes, Begin + 1, At)
          BY <1>2, <1>7, <5>1, SameKinds
        <5> QED BY <1>7, <3>2, <5>2 DEF BlankAt, Blank, EndOf
      <4> QED BY <1>7, <4>2, <4>3, HeaderLines
    <3> QED BY <1>10, <3>1, <3>2
  <2>6. csize = 0 \/ (csize = response.length /\ Named)
    BY <1>3 DEF Progress, Headers
  <2>7. Headers'
    BY <1>1, <1>3, <1>7, <2>1, <2>5, <2>6 DEF Headers, Early
  <2> QED BY <1>1, <1>8, <1>9, <2>3, <2>4, <2>7 DEF Progress
<1>11. CASE LineSent /\ Blank(buf)
  <2>1. pc' = "body" /\ io' = io /\ pc = "line sent"
    BY <1>11 DEF LineSent
  <2>2. Begin \in Starts /\ (csize = 0 \/ (csize = response.length /\ Named))
    BY <2>1 DEF Progress, Headers
  <2>3. BlankAt(response.bytes, Begin)
    <3>1. Begin < At
      <4>1. LineEnd(response.bytes, Begin) \in (Begin + 1)..Len(response.bytes)
        BY <1>7, LineEndAt, WholeBytes DEF All
      <4> QED BY <1>2, <1>7, <4>1 DEF EndOf
    <3>2. Kinds(buf) = SubSeq(response.bytes, Begin + 1, At)
      BY <1>2, <1>7, <3>1, SameKinds
    <3> QED BY <1>7, <1>11, <3>2 DEF BlankAt, Blank, EndOf, All
  <2>4. csize \in {0, All - At}
    BY <1>7, <2>2, <2>3, HeaderLines
  <2>5. Headers' /\ Lines'
    BY <1>1, <1>3, <1>7, <2>1, <2>4 DEF Headers, Lines, Early
  <2>6. Ending'
    BY <1>1, <2>1 DEF Ending, Progress
  <2> QED BY <1>1, <1>8, <1>9, <2>5, <2>6 DEF Progress
<1> QED BY <1>10, <1>11

\* The body is read to the end, or as long as it is said to be (proxy.c 184, 186).
LEMMA ProgressBody ==
  ASSUME TypeOK, IoOK, Setup, Replies, CopyOK, Good, Live, ~down["browser"], Progress, Thread, ~Call,
         Body \/ ByLength
  PROVE  Progress'
<1>1. /\ ret' = ret /\ At' = At /\ Total' = Whole /\ response' = response
      /\ Whole' = Whole /\ All' = All /\ Starts' = Starts /\ (Named' <=> Named) /\ ret # -1
  BY ThreadKeeps
<1>2. /\ All \in Nat /\ At \in Nat /\ At <= All
  <2>1. All \in Nat /\ At \in Nat /\ Ahead \in Nat /\ At <= Ahead /\ Ahead <= All
    BY ThreadKeeps
  <2> QED BY ONLY <2>1
<1>3. /\ Begin = At /\ Begin' = At /\ csize' = csize /\ csize \in Int
      /\ pc' \in {"to the end", "by length", "part read", "insert"} /\ pc \in {"body", "by length"}
  <2>1. /\ csize' = csize /\ pc' \in {"to the end", "by length", "part read", "insert"}
        /\ pc \in {"body", "by length"}
    BY DEF Body, ByLength, copyVars
  <2>2. pc \notin ToBrowser /\ pc' \notin ToBrowser
    BY <2>1 DEF ToBrowser
  <2>3. csize \in Int
    BY DEF TypeOK
  <2> QED BY <1>1, <2>1, <2>2, <2>3 DEF Begin
<1>4. Lines' /\ Writes' /\ Headers'
  BY <1>3 DEF Lines, Writes, Headers, Early, ToBrowser
<1>5. io' # [call |-> "for ever"]
  BY CallBegun DEF Body, ByLength, Progress, Ending
<1>6. Ending'
  BY <1>1, <1>3, <1>5 DEF Ending, Progress
<1>7. IF cache = NULL THEN All > MAX_OBJECT_SIZE ELSE cache = SubSeq(Whole, 1, At)
  BY <1>3 DEF Progress, Copies, Early
<1>8. CASE Body
  <2>0. pc = "body" /\ csize \in {0, All - At}
    BY <1>3, <1>8 DEF Body, Progress, Headers
  <2>1. CASE csize = 0
    <3>1. pc' = "to the end" /\ io' # Idle /\ UNCHANGED <<cache, tsize>>
      BY <1>8, <2>1, CallBegun DEF Body
    <3>2. Bodies' /\ Copies'
      BY <1>1, <1>3, <1>7, <3>1 DEF Bodies, Copies, Early, NULL, Idle
    <3> QED BY <1>1, <1>4, <1>6, <3>2 DEF Progress
  <2>2. CASE csize # 0
    <3>1. /\ pc' = "by length" /\ tsize' = tsize + csize
          /\ cache' = IF tsize' > MAX_OBJECT_SIZE THEN NULL ELSE cache
      BY <1>8, <2>2 DEF Body
    <3>2. csize = All - At
      BY <2>0, <2>2
    <3>3. cache # NULL => tsize' = All
      <4>1. cache # NULL => tsize = Len(cache) /\ cache = SubSeq(Whole, 1, At)
        BY <1>7, <2>0 DEF CopyOK, Counting
      <4>2. Len(SubSeq(Whole, 1, At)) = At
        BY <1>2, StartLength
      <4>3. cache # NULL => tsize = At
        BY <4>1, <4>2
      <4>4. tsize = At => tsize + csize = All
        BY ONLY <1>2, <3>2
      <4> QED BY <3>1, <4>3, <4>4
    <3>4. ~(All > MAX_OBJECT_SIZE) => All <= MAX_OBJECT_SIZE
      BY <1>2, SizeAssumption
    <3>5. IF cache' = NULL THEN All > MAX_OBJECT_SIZE
          ELSE cache' = SubSeq(Whole, 1, At) /\ tsize' = All /\ All <= MAX_OBJECT_SIZE
      <4>1. CASE cache = NULL
        BY <1>7, <3>1, <4>1
      <4>2. CASE cache # NULL /\ All > MAX_OBJECT_SIZE
        BY <3>1, <3>3, <4>2
      <4>3. CASE cache # NULL /\ ~(All > MAX_OBJECT_SIZE)
        BY <1>7, <3>1, <3>3, <3>4, <4>3
      <4> QED BY <4>1, <4>2, <4>3
    <3>6. Bodies'
      BY <1>1, <1>3, <3>1, <3>2 DEF Bodies
    <3>7. Copies'
      BY <1>1, <1>3, <3>1, <3>5 DEF Copies, Early, NULL
    <3> QED BY <1>1, <1>4, <1>6, <3>6, <3>7 DEF Progress
  <2> QED BY <2>1, <2>2
<1>9. CASE ByLength
  <2>1. pc = "by length" /\ UNCHANGED <<cache, tsize>> /\ csize = All - At
    BY <1>3, <1>9 DEF ByLength, copyVars, Progress, Bodies
  <2>2. Copies'
    BY <1>1, <1>3, <1>7, <2>1 DEF Copies, Progress, Early, NULL
  <2>3. CASE csize <= 0
    <3>1. pc' = "insert"
      <4>0. csize \in Int
        BY <1>3
      <4>1. ~(csize > 0)
        BY ONLY <2>3, <4>0
      <4> QED BY <1>9, <4>1 DEF ByLength
    <3>2. At = All
      <4>1. csize = All - At
        BY <2>1
      <4> QED BY ONLY <1>2, <2>3, <4>1
    <3>3. Bodies'
      BY <1>1, <1>3, <3>1, <3>2 DEF Bodies
    <3> QED BY <1>1, <1>4, <1>6, <2>2, <3>3 DEF Progress
  <2>4. CASE ~(csize <= 0)
    <3>1. pc' = "part read" /\ readnb("server", Smaller(csize, MAXLINE))
      BY <1>9, <2>4 DEF ByLength
    <3>2. io' # Idle /\ io'.got = <<>> /\ io'.left = Smaller(csize, MAXLINE)
      BY <3>1, CallBegun
    <3>3. Len(io'.got) + io'.left = Smaller(csize, MAXLINE)
      <4>1. Len(io'.got) = 0
        BY <3>2
      <4>0. csize \in Int
        BY <1>3
      <4>2. csize \in Int /\ MAXLINE \in Int
        BY ONLY <4>0, SizeAssumption
      <4>3. Smaller(csize, MAXLINE) \in Int
        BY ONLY <4>2 DEF Smaller
      <4>4. io'.left = Smaller(csize, MAXLINE)
        BY <3>2
      <4> QED BY ONLY <4>1, <4>3, <4>4
    <3>4. Bodies'
      BY <1>1, <1>3, <2>1, <3>1, <3>2, <3>3 DEF Bodies, Idle, Smaller
    <3> QED BY <1>1, <1>4, <1>6, <2>2, <3>4 DEF Progress
  <2> QED BY <2>3, <2>4
<1> QED BY <1>8, <1>9

\* A piece of the body that was read is written, and the end of the body leads to the
\* insertion (proxy.c 185, 192).
LEMMA ProgressPiece ==
  ASSUME TypeOK, IoOK, Setup, Replies, CopyOK, Good, Live, ~down["browser"], Progress, Thread, ~Call,
         ToTheEnd \/ PartRead
  PROVE  Progress'
<1>1. /\ ret' = ret /\ At' = At /\ Total' = Whole /\ response' = response /\ Ahead' = Ahead
      /\ Whole' = Whole /\ All' = All /\ Starts' = Starts /\ (Named' <=> Named) /\ ret # -1
  BY ThreadKeeps
<1>2. /\ All \in Nat /\ At \in Nat
  BY ThreadKeeps
<1>3. /\ pc \in {"to the end", "part read"} /\ pc \in PieceAt /\ pc \in FromServer /\ io = Idle
      /\ csize' = csize /\ cache' = cache /\ tsize' = tsize /\ buf' = buf
      /\ pc' \in {"insert", "piece sent", "part sent"}
  BY <1>1 DEF ToTheEnd, PartRead, Forward, Idling, PieceAt, FromServer, copyVars
<1>4. Held = buf /\ ret = Len(buf) /\ Begin = At
  BY <1>3 DEF Held, Replies, Begin, ToBrowser, Idle
<1>5. Headers' /\ Lines'
  BY <1>3 DEF Headers, Lines, Early
<1>6. IF cache = NULL THEN All > MAX_OBJECT_SIZE ELSE cache = SubSeq(Whole, 1, At)
  BY <1>3, <1>4 DEF Progress, Copies, Early
<1>7. CASE pc' = "insert"
  <2>1. pc = "to the end" /\ ret = 0 /\ io' = io
    BY <1>1, <1>7 DEF ToTheEnd, PartRead, Forward
  <2>2. At = All
    BY <1>3, <1>4, <2>1 DEF Progress, Bodies
  <2>3. Begin' = At
    BY <1>1, <1>7 DEF Begin, ToBrowser
  <2>4. cache # NULL => tsize = All /\ All <= MAX_OBJECT_SIZE
    <3>1. cache # NULL => tsize = Len(cache) /\ Len(cache) <= MAX_OBJECT_SIZE /\ cache = SubSeq(Whole, 1, At)
      BY <1>6, <2>1 DEF CopyOK, Counting
    <3>2. Len(SubSeq(Whole, 1, At)) = At
      <4>1. At <= All
        BY ONLY <1>2, <2>2
      <4> QED BY <1>2, <4>1, StartLength
    <3> QED BY <2>2, <3>1, <3>2
  <2>5. Writes' /\ Bodies' /\ Copies' /\ Ending'
    BY <1>1, <1>3, <1>6, <1>7, <2>1, <2>2, <2>3, <2>4
       DEF Writes, Bodies, Copies, Ending, Progress, ToBrowser, Early, NULL
  <2> QED BY <1>1, <1>5, <2>5 DEF Progress
<1>8. CASE pc' \in {"piece sent", "part sent"}
  <2>1. /\ writen("browser", buf) /\ pc' \in ToBrowser
        /\ pc = "to the end" => ret # 0 /\ pc' = "piece sent"
        /\ pc = "part read" => pc' = "part sent"
    BY <1>8 DEF ToTheEnd, PartRead, Forward, ToBrowser
  <2>2. pc = "part read" => csize > 0 /\ csize = All - At /\ Len(buf) = Smaller(csize, MAXLINE)
    BY <1>3, <1>4 DEF CopyOK, Progress, Bodies
  <2>3. Len(buf) # 0
    <3>1. CASE pc = "to the end"
      BY <1>4, <2>1, <3>1
    <3>2. CASE pc = "part read"
      <4>1. Len(buf) = Smaller(csize, MAXLINE) /\ csize > 0 /\ csize = All - At
        BY <2>2, <3>2
      <4>2. MAXLINE \in Nat /\ MAXLINE > 1
        BY SizeAssumption
      <4> QED BY ONLY <1>2, <4>1, <4>2 DEF Smaller
    <3> QED BY <1>3, <3>1, <3>2
  <2>4. buf # <<>>
    <3>1. Len(<<>>) = 0
      OBVIOUS
    <3> QED BY <2>3, <3>1
  <2>5. Writes' /\ Begin' = At
    BY <1>3, <1>4, <2>1, <2>4, WriteBegins
  <2>6. io' # [call |-> "for ever"]
    BY <2>1, CallBegun
  <2>7. Bodies' /\ Copies' /\ Ending'
    <3>1. Copies'
      <4>1. pc' \notin {"by length", "part read", "insert"}
            /\ (pc' = "part sent" => pc = "part read")
        BY <1>8, <2>1, <1>3
      <4>2. pc' = "part sent" /\ cache # NULL => tsize = All /\ All <= MAX_OBJECT_SIZE
        BY <4>1 DEF Progress, Copies, Early
      <4> QED BY <1>1, <1>3, <1>6, <2>5, <4>1, <4>2 DEF Copies, NULL
    <3>2. Ending'
      BY <1>1, <1>8, <2>6 DEF Ending, Progress
    <3>3. Bodies'
      BY <1>1, <1>3, <1>8, <2>1, <2>2, <2>5 DEF Bodies, Smaller
    <3> QED BY <3>1, <3>2, <3>3
  <2> QED BY <1>1, <1>5, <2>5, <2>7 DEF Progress
<1> QED BY <1>3, <1>7, <1>8

\* A piece that was written goes to the copy, and the next one is read (proxy.c 186, 194).
LEMMA ProgressPieceSent ==
  ASSUME TypeOK, IoOK, Setup, Replies, CopyOK, Good, Live, ~down["browser"], Progress, Thread, ~Call,
         PieceSent \/ PartSent
  PROVE  Progress'
<1>1. /\ ret' = ret /\ At' = At /\ Total' = Whole /\ response' = response
      /\ Whole' = Whole /\ All' = All /\ ret >= 0
  BY ThreadKeeps
<1>2. /\ All \in Nat /\ At \in Nat
  BY ThreadKeeps
<1>3. /\ pc \in {"piece sent", "part sent"} /\ pc \in ToBrowser /\ io = Idle
      /\ pc' \in {"to the end", "by length"} /\ pc' \notin ToBrowser
      /\ pc = "piece sent" => PieceSent /\ pc' = "to the end"
      /\ pc = "part sent" => PartSent /\ pc' = "by length"
  BY DEF PieceSent, PartSent, Idling, ToBrowser
<1>4. /\ Begin' = At /\ Len(buf) \in Nat /\ Begin = At - Len(buf)
  BY <1>3, WriteEnds
<1>5. IF cache' = NULL THEN All > MAX_OBJECT_SIZE ELSE cache' = SubSeq(Whole, 1, At) /\ cache # NULL
  <2>1. CASE pc = "piece sent"
    <3>1. Store(ret, TRUE) /\ pc \in Counting
      BY <1>3, <2>1 DEF PieceSent, Counting
    <3> QED BY <1>3, <3>1, CopyGrows
  <2>2. CASE pc = "part sent"
    <3>1. Store(ret, FALSE)
      BY <1>3, <2>2 DEF PartSent
    <3> QED BY <1>3, <3>1, CopyGrows
  <2> QED BY <1>3, <2>1, <2>2
<1>6. Lines' /\ Writes' /\ Headers'
  BY <1>3 DEF Lines, Writes, Headers, Early
<1>7. io' # [call |-> "for ever"]
  BY <1>3, CallBegun DEF PieceSent, PartSent, Progress, Ending
<1>8. Ending'
  BY <1>1, <1>3, <1>7 DEF Ending
<1>9. CASE pc = "piece sent"
  <2>1. pc' = "to the end" /\ io' # Idle
    BY <1>3, <1>9, CallBegun DEF PieceSent
  <2>2. Bodies' /\ Copies'
    BY <1>1, <1>4, <1>5, <2>1 DEF Bodies, Copies, Early, NULL, Idle
  <2> QED BY <1>1, <1>6, <1>8, <2>2 DEF Progress
<1>10. CASE pc = "part sent"
  <2>1. /\ pc' = "by length" /\ tsize' = tsize
        /\ csize' = IF csize >= MAXLINE THEN csize - MAXLINE ELSE 0
    BY <1>3, <1>10 DEF PartSent
  <2>2. csize = All - Begin /\ Len(buf) = Smaller(csize, MAXLINE) /\ csize > 0
    BY <1>10 DEF Progress, Bodies, CopyOK
  <2>3. csize' = All - At
    <3>1. csize = All - Begin /\ Len(buf) = Smaller(csize, MAXLINE) /\ csize > 0
      BY <2>2
    <3>2. csize' = IF csize >= MAXLINE THEN csize - MAXLINE ELSE 0
      BY <2>1
    <3>3. MAXLINE \in Nat
      BY SizeAssumption
    <3>4. Begin = At - Len(buf) /\ Len(buf) \in Nat
      BY <1>4
    <3>5. csize \in Int
      BY ONLY <1>2, <3>1, <3>4
    <3>6. IF csize >= MAXLINE THEN Len(buf) = MAXLINE ELSE Len(buf) = csize
      BY ONLY <3>1, <3>3, <3>5 DEF Smaller
    <3> QED BY ONLY <1>2, <3>1, <3>2, <3>3, <3>4, <3>5, <3>6
  <2>4. cache # NULL => tsize = All /\ All <= MAX_OBJECT_SIZE
    BY <1>10 DEF Progress, Copies, Early
  <2>5. Bodies' /\ Copies'
    BY <1>1, <1>4, <1>5, <2>1, <2>3, <2>4 DEF Bodies, Copies, Early, NULL
  <2> QED BY <1>1, <1>6, <1>8, <2>5 DEF Progress
<1> QED BY <1>3, <1>9, <1>10

\* What is inserted when all has been read is the response, if it fits (proxy.c 148).
LEMMA ProgressInsert ==
  ASSUME TypeOK, IoOK, Setup, Replies, CopyOK, Good, Live, ~down["browser"], Progress, Thread, ~Call,
         Insert_cache
  PROVE  Progress'
<1>1. /\ ret' = ret /\ At' = At /\ Total' = Whole /\ response' = response /\ recv' = recv
      /\ Whole' = Whole /\ All' = All /\ ret >= 0 /\ Placed
  BY ThreadKeeps
<1>2. /\ pc = "insert" /\ pc' = "exit" /\ cache' = cache /\ io' = io
      /\ inserted' = IF cache = NULL THEN NoObject ELSE [data |-> cache, size |-> tsize]
  BY DEF Insert_cache, Exit, ioVars
<1>3. Begin = At /\ Begin' = At /\ At = All
  BY <1>1, <1>2 DEF Begin, ToBrowser, Progress, Bodies
<1>4. SubSeq(Whole, 1, At) = Whole /\ Len(Whole) = All /\ All \in Nat
  <2>1. Whole \in Seq(Byte) /\ Len(Whole) = All /\ All \in Nat
    BY WholeBytes DEF Bytes
  <2>2. SubSeq(Whole, 1, Len(Whole)) = Whole
    BY <2>1, SubSeqFull
  <2> QED BY <1>3, <2>1, <2>2
<1>5. IF cache = NULL THEN All > MAX_OBJECT_SIZE
      ELSE cache = Whole /\ tsize = All /\ All <= MAX_OBJECT_SIZE
  BY <1>2, <1>3, <1>4 DEF Progress, Copies, Early
<1>6. recv["browser"] = Whole
  BY <1>1, <1>4 DEF Placed
<1>7. inserted' = (IF Len(Whole) <= MAX_OBJECT_SIZE
                   THEN [data |-> Whole, size |-> Len(Whole)] ELSE NoObject)
  <2>1. All > MAX_OBJECT_SIZE => ~(All <= MAX_OBJECT_SIZE)
    BY <1>4, SizeAssumption
  <2>2. CASE cache = NULL
    BY <1>2, <1>4, <1>5, <2>1, <2>2
  <2>3. CASE cache # NULL
    BY <1>2, <1>4, <1>5, <2>3
  <2> QED BY <2>2, <2>3
<1>8. Lines' /\ Writes' /\ Headers' /\ Bodies'
  BY <1>2 DEF Lines, Writes, Headers, Bodies, Early, ToBrowser
<1>9. Copies'
  BY <1>1, <1>2, <1>3, <1>4, <1>5 DEF Copies, Early, NULL
<1>10. Ending'
  <2>1. ret' >= 0 /\ io' # [call |-> "for ever"]
    BY <1>1, <1>2 DEF Progress, Ending
  <2>2. recv'["browser"] = Whole' /\ Whole' = Whole
    BY <1>1, <1>6
  <2> QED BY <1>2, <1>7, <2>1, <2>2 DEF Ending, NoObject
<1> QED BY <1>1, <1>8, <1>9, <1>10 DEF Progress

\* Every step of the thread brings the response on while nothing fails.
LEMMA ProgressStep ==
  ASSUME TypeOK, IoOK, Setup, Replies, CopyOK, WholeInv, TypeOK', IoOK', [Next]_vars,
         Starts \in SUBSET (0..All), HeaderAt(response, Starts), response.bytes # <<>>
  PROVE  WholeInv'
<1> SUFFICES ASSUME Good' PROVE Progress'
  BY DEF WholeInv
<1>1. Good /\ Live /\ ~down["browser"] /\ Progress
  BY GoodBefore DEF WholeInv
<1>2. CASE Call
  BY <1>1, <1>2, ProgressCall
<1>3. CASE Thread /\ ~Call
  <2>1. CASE Open_clientfd \/ RequestSent \/ BrowserHeader \/ HeaderSent \/ BlankSent
    BY <1>1, <1>3, <2>1, ProgressEarly
  <2>2. CASE Status \/ Header
    BY <1>1, <1>3, <2>2, ProgressLine
  <2>3. CASE StatusSent \/ LineSent
    BY <1>1, <1>3, <2>3, ProgressLineSent
  <2>4. CASE Body \/ ByLength
    BY <1>1, <1>3, <2>4, ProgressBody
  <2>5. CASE ToTheEnd \/ PartRead
    BY <1>1, <1>3, <2>5, ProgressPiece
  <2>6. CASE PieceSent \/ PartSent
    BY <1>1, <1>3, <2>6, ProgressPieceSent
  <2>7. CASE Insert_cache
    BY <1>1, <1>3, <2>7, ProgressInsert
  <2> QED BY <1>3, <2>1, <2>2, <2>3, <2>4, <2>5, <2>6, <2>7 DEF Thread
<1>4. CASE \E s \in Peer : Reset(s)
  <2>1. PICK s \in Peer : Reset(s)
    BY <1>4
  <2>2. down'[s]
    BY <2>1 DEF Reset, TypeOK
  <2> QED BY <2>1, <2>2 DEF Good, NoReset
<1>5. CASE UNCHANGED vars
  <2>1. /\ UNCHANGED <<pc, io, ret, buf, rio, net, down, recv, serverfd, cache, tsize, csize, inserted, response>>
    BY <1>5 DEF vars, ioVars, copyVars, peerVars
  <2>2. /\ Whole' = Whole /\ All' = All /\ At' = At /\ Held' = Held /\ Starts' = Starts
        /\ \A p : EndOf(p)' = EndOf(p)
    BY <2>1 DEF Whole, All, At, Held, Starts, EndOf
  <2>3. Ahead' = Ahead /\ (Named' <=> Named)
    BY <2>1, <2>2 DEF Ahead, Named
  <2>4. Begin' = Begin
    BY <2>1, <2>2, <2>3 DEF Begin
  <2>5. Total' = Total /\ Lines' /\ Writes'
    BY <1>1, <2>1, <2>2, <2>3, <2>4 DEF Total, Lines, Writes, Progress
  <2>6. Headers' /\ Bodies'
    BY <1>1, <2>1, <2>2, <2>3, <2>4 DEF Headers, Bodies, Progress, Smaller
  <2>7. Copies' /\ Ending'
    BY <1>1, <2>1, <2>2, <2>3, <2>4 DEF Copies, Ending, NULL, NoObject, Progress
  <2> QED BY <1>1, <2>2, <2>5, <2>6, <2>7 DEF Progress
<1> QED BY <1>2, <1>3, <1>4, <1>5 DEF Next

\* At first the whole response is still to come.
LEMMA ProgressInit == Init => WholeInv /\ Answered
<1> SUFFICES ASSUME Init PROVE WholeInv /\ Answered
  OBVIOUS
<1>0. PICK request \in Requests, r \in Responses : \E k \in 0..Len(r.bytes) :
         /\ response = [bytes |-> r.bytes, length |-> r.length, sent |-> k]
         /\ net = [s \in Peer |-> IF s = "browser" THEN Stream(request)
                                  ELSE SubSeq(Stream(r.bytes), 1, k)]
  BY DEF Init
<1>1. PICK k \in 0..Len(r.bytes) :
         /\ response = [bytes |-> r.bytes, length |-> r.length, sent |-> k]
         /\ net = [s \in Peer |-> IF s = "browser" THEN Stream(request)
                                  ELSE SubSeq(Stream(r.bytes), 1, k)]
  BY <1>0
<1>2. Answered
  BY <1>1 DEF Answered
<1>3. /\ pc = "connect" /\ io = Idle /\ ret = 0 /\ rio["server"] = <<>> /\ recv["browser"] = <<>>
      /\ csize = 0
  BY DEF Init, Peer
<1>4. TypeOK /\ IoOK
  BY TypeInit
<1>5. ASSUME Good PROVE Total = Whole
  <2>1. Whole \in Bytes /\ Whole \in Seq(Byte) /\ response.sent = Len(Whole)
    BY <1>4, <1>5, WholeBytes DEF Good, Bytes
  <2>2. net["server"] = SubSeq(Whole, 1, Len(Whole))
    BY <1>1, <2>1 DEF Peer, Whole
  <2>3. net["server"] = Whole
    BY <2>1, <2>2, SubSeqFull
  <2>4. Held = <<>>
    BY <1>3 DEF Held, FromServer, ToBrowser
  <2> HIDE DEF Whole
  <2> QED BY <1>3, <2>1, <2>3, <2>4 DEF Total
<1>6. Lines /\ Writes /\ Headers /\ Bodies /\ Copies
  BY <1>3 DEF Lines, Writes, Headers, Bodies, Copies, Early, ToBrowser
<1>7. Ending
  <2>1. ret >= 0
    BY <1>3
  <2> QED BY <1>3, <2>1, Busy DEF Ending, Idle
<1> QED BY <1>2, <1>5, <1>6, <1>7 DEF WholeInv, Progress

\* A response that comes whole reaches the browser whole, and is inserted exactly if it
\* fits, whatever its bytes and however they are cut, if the server answers at all and
\* keeps to the length it announces (proxy.c 148).
THEOREM WholeAnswered ==
  ASSUME \A r \in Responses : Proper(r)
  PROVE  Spec => []WholeResponse
<1> DEFINE Inv == StreamInv /\ CopyOK /\ Answered /\ WholeInv
<1>1. Init => Inv
  <2>1. Init => CopyOK
    BY DEF Init, CopyOK, Early, Counting, ToBrowser
  <2> QED BY <2>1, StreamInit, ProgressInit
<1>2. ASSUME Inv, [Next]_vars PROVE Inv'
  <2>1. StreamInv'
    BY <1>2, TypeStep, SetupStep, RepliesStep, ConservedStep, ServerStep DEF StreamInv
  <2>2. CopyOK'
    BY <1>2, CopyStep DEF StreamInv
  <2>3. Answered'
    <3>1. response' = response
      BY <1>2, GoodBefore DEF StreamInv
    <3> QED BY <1>2, <3>1 DEF Answered
  <2>4. /\ response.bytes # <<>>
        /\ \E S \in SUBSET (0..All) : HeaderAt(response, S)
    <3>1. PICK r \in Responses : response.bytes = r.bytes /\ response.length = r.length
      BY <1>2 DEF Answered
    <3>2. r.bytes # <<>> /\ \E S \in SUBSET (0..Len(r.bytes)) : HeaderAt(r, S)
      BY DEF Proper
    <3>3. \A S : HeaderAt(response, S) <=> HeaderAt(r, S)
      BY <3>1 DEF HeaderAt
    <3> QED BY <3>1, <3>2, <3>3 DEF All
  <2>5. Starts \in SUBSET (0..All) /\ HeaderAt(response, Starts)
    BY <2>4 DEF Starts
  <2>6. WholeInv'
    BY <1>2, <2>1, <2>4, <2>5, ProgressStep DEF StreamInv
  <2> QED BY <2>1, <2>2, <2>3, <2>6
<1>3. Inv => WholeResponse
  <2>1. serverfd \in Int /\ serverfd > 0 => serverfd >= 0
    OBVIOUS
  <2>2. StreamInv => serverfd \in Int
    BY DEF StreamInv, TypeOK
  <2> QED BY <2>1, <2>2 DEF WholeInv, Good, Progress, Ending, WholeResponse
<1> QED BY <1>1, <1>2, <1>3, PTL DEF Spec
=============================================================================
