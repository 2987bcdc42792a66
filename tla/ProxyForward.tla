---------------------------- MODULE ProxyForward ----------------------------
(***************************************************************************)
(* One connection of the proxy whose url is not in the cache: thread,      *)
(* browser_to_server and server_to_browser of proxy.c with the RIO package *)
(* of csapp.c, one system call per step.                                   *)
(*                                                                         *)
(* A byte is a pair of what it is and where it stands in its stream: "r"   *)
(* and "n" end a line, "L" stands for "Content-Length: ", "G" for the      *)
(* request line, "?" for uninitialised memory and "x" for all others.  A   *)
(* peer answers in pieces, closes early, or resets the connection.         *)
(***************************************************************************)
EXTENDS Integers, Sequences, SequencesExt, FiniteSets

CONSTANTS MAXLINE, RIO_BUFSIZE, MAX_OBJECT_SIZE,
          Requests,   \* the header lines a browser may send, as sequences of kinds
          Responses,  \* what a server may answer: records of bytes and length
          MaxSent     \* the bound on the bytes that are written to a peer

ASSUME SizeAssumption ==
    /\ MAXLINE \in Nat /\ MAXLINE > 1
    /\ RIO_BUFSIZE \in Nat \ {0} /\ MAX_OBJECT_SIZE \in Nat /\ MaxSent \in Nat

Kind == {"r", "n", "L", "x"}
ASSUME PeerAssumption ==
    /\ Requests \subseteq Seq(Kind)
    /\ \A r \in Responses : r.bytes \in Seq(Kind) /\ r.length \in Int

Peer == {"browser", "server"}

VARIABLES pc,        \* where the thread stands in proxy.c
          io,        \* the RIO call in progress: its kind, its peer, the bytes left
          ret,       \* what the last RIO call returned
          buf,       \* the string, or the bytes, in buf
          rio,       \* the unread bytes of each rio_buf
          net,       \* the bytes each peer sends that have not been read
          down,      \* whether each peer has reset its connection
          serverfd,  \* what Open_clientfd returned
          recv,      \* the bytes written to each peer
          cache, tsize, csize, \* the copy, its size, and the Content-Length
          inserted,  \* what Insert_cache was given
          response   \* the server's whole response, and how many bytes of it are sent

ioVars    == <<io, ret, buf, rio>>
copyVars  == <<cache, tsize, csize, inserted>>
peerVars  == <<net, down, recv>>
vars == <<pc, ioVars, peerVars, serverfd, copyVars, response>>

Stream(kinds) == [k \in DOMAIN kinds |-> <<kinds[k], k>>]
Kinds(bytes) == [k \in DOMAIN bytes |-> bytes[k][1]]

CRLF == <<<<"r", 0>>, <<"n", 0>>>>
Blank(bytes) == Kinds(bytes) = <<"r", "n">>
Garbage == <<"?", 0>>

NULL == <<<<"freed", 0>>>>
Idle == [call |-> "none"]
NoObject == [data |-> <<>>, size |-> -1]

(***************************************************************************)
(* RIO.  A call is in progress while io is not Idle; the thread goes on    *)
(* with its result when it is Idle again.                                  *)
(***************************************************************************)
Idling == io = Idle

\* got: the bytes put into the user's buffer so far.
readlineb(s) == io' = [call |-> "line", peer |-> s, left |-> MAXLINE - 1, got |-> <<>>]
readnb(s, n) == io' = [call |-> "bytes", peer |-> s, left |-> n, got |-> <<>>]
writen(s, bytes) == io' = [call |-> "write", peer |-> s, left |-> bytes]

Reading == io.call \in {"line", "bytes"}

Return(n) == io' = Idle /\ ret' = n

\* A call that fails leaves the rest of the buffer as it was.
Overwritten(got) == got \o SubSeq(buf, Len(got) + 1, Len(buf))

LineDone(got, left) == left = 0 \/ (got # <<>> /\ got[Len(got)][1] = "n")

\* rio_read with unread bytes: one for a line, and as many as it may otherwise.
Take ==
    /\ Reading /\ rio[io.peer] # <<>>
    /\ LET s    == io.peer
           cnt  == IF io.call = "line" THEN 1
                   ELSE IF Len(rio[s]) < io.left THEN Len(rio[s]) ELSE io.left
           got  == io.got \o SubSeq(rio[s], 1, cnt)
           left == io.left - cnt
       IN  /\ rio' = [rio EXCEPT ![s] = SubSeq(@, cnt + 1, Len(@))]
           /\ IF left = 0 \/ (io.call = "line" /\ LineDone(got, left))
              THEN /\ Return(IF io.call = "line" /\ got[Len(got)][1] # "n"
                             THEN Len(got) + 1 ELSE Len(got))
                   /\ buf' = got
              ELSE /\ io' = [io EXCEPT !.got = got, !.left = left]
                   /\ UNCHANGED <<ret, buf>>
    /\ UNCHANGED <<pc, peerVars, serverfd, copyVars, response>>

Readable(s) == ~down[s] /\ (s = "browser" \/ serverfd > 0)

\* rio_read refills rio_buf with what read returns, k bytes.
Refill(k) ==
    /\ Reading /\ rio[io.peer] = <<>> /\ Readable(io.peer)
    /\ k <= RIO_BUFSIZE /\ k <= Len(net[io.peer])
    /\ rio' = [rio EXCEPT ![io.peer] = SubSeq(net[io.peer], 1, k)]
    /\ net' = [net EXCEPT ![io.peer] = SubSeq(@, k + 1, Len(@))]
    /\ UNCHANGED <<pc, io, ret, buf, down, recv, serverfd, copyVars, response>>

\* read returns 0.  A line that has begun is returned, one byte longer than it is.
ReadEof ==
    /\ Reading /\ rio[io.peer] = <<>> /\ Readable(io.peer)
    /\ net[io.peer] = <<>>
    /\ Return(IF io.call = "line" /\ io.got # <<>> THEN Len(io.got) + 1 ELSE Len(io.got))
    /\ buf' = IF io.call = "line" /\ io.got = <<>> THEN buf ELSE io.got
    /\ UNCHANGED <<pc, rio, peerVars, serverfd, copyVars, response>>

\* read fails: the connection was reset, or there never was one.
ReadFails ==
    /\ Reading /\ rio[io.peer] = <<>> /\ ~Readable(io.peer)
    /\ Return(-1)
    /\ buf' = Overwritten(io.got)
    /\ UNCHANGED <<pc, rio, peerVars, serverfd, copyVars, response>>

\* A fault: a write that was cut short goes on from the start of the buffer.
Write_Restarts(k) ==
    /\ io.call = "write" /\ io.left # <<>> /\ Readable(io.peer)
    /\ k <= Len(io.left) /\ Len(recv[io.peer]) + k <= MaxSent
    /\ recv' = [recv EXCEPT ![io.peer] = @ \o SubSeq(io.left, 1, k)]
    /\ io' = [io EXCEPT !.left = SubSeq(@, 1, Len(@) - k)]
    /\ UNCHANGED <<pc, ret, buf, rio, net, down, serverfd, copyVars, response>>

\* rio_writen writes k bytes more.
Write(k) ==
    /\ io.call = "write" /\ io.left # <<>> /\ Readable(io.peer)
    /\ k <= Len(io.left) /\ Len(recv[io.peer]) + k <= MaxSent
    /\ recv' = [recv EXCEPT ![io.peer] = @ \o SubSeq(io.left, 1, k)]
    /\ io' = [io EXCEPT !.left = SubSeq(@, k + 1, Len(@))]
    /\ UNCHANGED <<pc, ret, buf, rio, net, down, serverfd, copyVars, response>>

WriteDone ==
    /\ io.call = "write" /\ io.left = <<>>
    /\ Return(Len(buf))
    /\ UNCHANGED <<pc, buf, rio, peerVars, serverfd, copyVars, response>>

\* write fails; on a descriptor that is not positive nothing is written, and
\* what is left is counted with an uninitialised number: the call may go on for
\* ever, or come to an end.
WriteFails ==
    /\ io.call = "write" /\ io.left # <<>> /\ ~Readable(io.peer)
    /\ IF io.peer = "server" /\ serverfd <= 0
       THEN Return(Len(buf)) \/ (io' = [call |-> "for ever"] /\ UNCHANGED ret)
       ELSE Return(-1)
    /\ UNCHANGED <<pc, buf, rio, peerVars, serverfd, copyVars, response>>

(***************************************************************************)
(* thread and browser_to_server.                                           *)
(***************************************************************************)
\* Each way out closes both descriptors.
Exit == pc' = "exit"

\* Open_clientfd prints its error, and its result is used as it is.
Open_clientfd ==
    /\ pc = "connect"
    /\ serverfd' \in {4, -1, -2}
    /\ buf' = <<<<"G", 0>>>>
    /\ writen("server", buf')
    /\ pc' = "request"
    /\ UNCHANGED <<ret, rio, peerVars, copyVars, response>>

\* Whatever became of the request line, the browser's headers are read.
RequestSent ==
    /\ pc = "request" /\ Idling
    /\ readlineb("browser")
    /\ pc' = "browser header"
    /\ UNCHANGED <<ret, buf, rio, peerVars, serverfd, copyVars, response>>

BrowserHeader ==
    /\ pc = "browser header" /\ Idling
    /\ \/ ret = -1 /\ Exit /\ UNCHANGED <<io, buf>>
       \/ /\ ret = 0 \/ (ret > 0 /\ Blank(buf))
          /\ buf' = CRLF
          /\ writen("server", CRLF)
          /\ pc' = "blank sent"
       \/ /\ ret > 0 /\ ~Blank(buf)
          /\ writen("server", buf)
          /\ pc' = "header sent" /\ UNCHANGED buf
    /\ UNCHANGED <<ret, rio, peerVars, serverfd, copyVars, response>>

HeaderSent ==
    /\ pc = "header sent" /\ Idling
    /\ \/ ret = -1 /\ Exit /\ UNCHANGED io
       \/ ret # -1 /\ readlineb("browser") /\ pc' = "browser header"
    /\ UNCHANGED <<ret, buf, rio, peerVars, serverfd, copyVars, response>>

\* server_to_browser begins: its buf holds whatever was there.
BlankSent ==
    /\ pc = "blank sent" /\ Idling
    /\ cache' = <<>>
    /\ buf' \in {<<>>, <<Garbage>>}
    /\ readlineb("server")
    /\ pc' = "status"
    /\ UNCHANGED <<ret, rio, peerVars, serverfd, tsize, csize, inserted, response>>

(***************************************************************************)
(* server_to_browser.                                                      *)
(***************************************************************************)
\* The result of reading the status line is not looked at.
Status ==
    /\ pc = "status" /\ Idling
    /\ writen("browser", buf)
    /\ pc' = "status sent"
    /\ UNCHANGED <<ret, buf, rio, peerVars, serverfd, copyVars, response>>

\* write_buf_to_cache_browser after its write: what was written goes to the copy.
\* counted says whether tsize is passed to it.
Store(n, counted) ==
    IF n <= 0 \/ cache = NULL THEN UNCHANGED <<cache, tsize>>
    ELSE IF ~counted THEN cache' = cache \o buf /\ UNCHANGED tsize
    ELSE IF tsize + n > MAX_OBJECT_SIZE THEN cache' = NULL /\ UNCHANGED tsize
    ELSE cache' = cache \o buf /\ tsize' = tsize + n

StatusSent ==
    /\ pc = "status sent" /\ Idling
    /\ Store(ret, TRUE)
    /\ \/ ret <= 0 /\ Exit /\ UNCHANGED io
       \/ ret > 0 /\ readlineb("server") /\ pc' = "header"
    /\ UNCHANGED <<ret, buf, rio, peerVars, serverfd, csize, inserted, response>>

\* A read that failed does not end the loop: -1 is true.
Header ==
    /\ pc = "header" /\ Idling
    /\ \/ ret = 0 /\ pc' = "body" /\ UNCHANGED <<io, csize>>
       \/ /\ ret # 0
          /\ csize' = IF buf # <<>> /\ buf[1][1] = "L" THEN response.length ELSE csize
          /\ writen("browser", buf)
          /\ pc' = "line sent"
    /\ UNCHANGED <<ret, buf, rio, peerVars, serverfd, cache, tsize, inserted, response>>

LineSent ==
    /\ pc = "line sent" /\ Idling
    /\ Store(ret, TRUE)
    /\ \/ Blank(buf) /\ pc' = "body" /\ UNCHANGED io
       \/ ~Blank(buf) /\ readlineb("server") /\ pc' = "header"
    /\ UNCHANGED <<ret, buf, rio, peerVars, serverfd, csize, inserted, response>>

\* A fault: a length that is too large does not end the copy.
Body_KeepsCopy ==
    /\ pc = "body" /\ Idling
    /\ \/ /\ csize = 0
          /\ readnb("server", MAXLINE)
          /\ pc' = "to the end" /\ UNCHANGED tsize
       \/ csize # 0 /\ tsize' = tsize + csize /\ pc' = "by length" /\ UNCHANGED io
    /\ UNCHANGED <<ret, buf, rio, peerVars, serverfd, cache, csize, inserted, response>>

\* A body with a length: all of it is counted now.
Body ==
    /\ pc = "body" /\ Idling
    /\ \/ /\ csize = 0
          /\ readnb("server", MAXLINE)
          /\ pc' = "to the end" /\ UNCHANGED <<cache, tsize>>
       \/ /\ csize # 0
          /\ tsize' = tsize + csize
          /\ cache' = IF tsize' > MAX_OBJECT_SIZE THEN NULL ELSE cache
          /\ pc' = "by length" /\ UNCHANGED io
    /\ UNCHANGED <<ret, buf, rio, peerVars, serverfd, csize, inserted, response>>

\* A result of -1 goes on as a length: what is written then is left open.
Forward(next) ==
    \/ ret = -1 /\ pc' = "undefined" /\ UNCHANGED io
    \/ ret # -1 /\ writen("browser", buf) /\ pc' = next

ToTheEnd ==
    /\ pc = "to the end" /\ Idling
    /\ \/ ret = 0 /\ pc' = "insert" /\ UNCHANGED io
       \/ ret # 0 /\ Forward("piece sent")
    /\ UNCHANGED <<ret, buf, rio, peerVars, serverfd, copyVars, response>>

PieceSent ==
    /\ pc = "piece sent" /\ Idling
    /\ Store(ret, TRUE)
    /\ readnb("server", MAXLINE)
    /\ pc' = "to the end"
    /\ UNCHANGED <<ret, buf, rio, peerVars, serverfd, csize, inserted, response>>

Smaller(a, b) == IF a < b THEN a ELSE b

\* MAXLINE bytes at a time, and then the remaining ones.
ByLength ==
    /\ pc = "by length" /\ Idling
    /\ \/ csize <= 0 /\ pc' = "insert" /\ UNCHANGED io
       \/ csize > 0 /\ readnb("server", Smaller(csize, MAXLINE)) /\ pc' = "part read"
    /\ UNCHANGED <<ret, buf, rio, peerVars, serverfd, copyVars, response>>

PartRead ==
    /\ pc = "part read" /\ Idling
    /\ Forward("part sent")
    /\ UNCHANGED <<ret, buf, rio, peerVars, serverfd, copyVars, response>>

\* A fault: the parts of a body that was counted are counted again.
PartSent_Counts ==
    /\ pc = "part sent" /\ Idling
    /\ Store(ret, TRUE)
    /\ csize' = IF csize >= MAXLINE THEN csize - MAXLINE ELSE 0
    /\ pc' = "by length"
    /\ UNCHANGED <<io, ret, buf, rio, peerVars, serverfd, inserted, response>>

\* A fault: only bytes that came are taken off the length.
PartSent_Waits ==
    /\ pc = "part sent" /\ Idling
    /\ Store(ret, FALSE)
    /\ csize' = csize - Len(buf)
    /\ pc' = "by length"
    /\ UNCHANGED <<io, ret, buf, rio, peerVars, serverfd, tsize, inserted, response>>

PartSent ==
    /\ pc = "part sent" /\ Idling
    /\ Store(ret, FALSE)
    /\ csize' = IF csize >= MAXLINE THEN csize - MAXLINE ELSE 0
    /\ pc' = "by length"
    /\ UNCHANGED <<io, ret, buf, rio, peerVars, serverfd, tsize, inserted, response>>

Insert_cache ==
    /\ pc = "insert" /\ Idling
    /\ inserted' = IF cache = NULL THEN NoObject ELSE [data |-> cache, size |-> tsize]
    /\ Exit
    /\ UNCHANGED <<ioVars, peerVars, serverfd, cache, tsize, csize, response>>

\* A peer resets its connection: what it sent and was not read is lost.
Reset(s) ==
    /\ pc # "exit" /\ ~down[s]
    /\ down' = [down EXCEPT ![s] = TRUE]
    /\ net' = [net EXCEPT ![s] = <<>>]
    /\ UNCHANGED <<pc, ioVars, recv, serverfd, copyVars, response>>

(***************************************************************************)
(* The specification.                                                      *)
(***************************************************************************)
\* The server sends its response, or the start of it, and closes.
Init ==
    /\ \E request \in Requests, r \in Responses : \E k \in 0..Len(r.bytes) :
         /\ response = [bytes |-> r.bytes, length |-> r.length, sent |-> k]
         /\ net = [s \in Peer |-> IF s = "browser" THEN Stream(request)
                                  ELSE SubSeq(Stream(r.bytes), 1, k)]
    /\ pc = "connect" /\ io = Idle /\ ret = 0 /\ buf = <<>>
    /\ rio = [s \in Peer |-> <<>>]
    /\ recv = [s \in Peer |-> <<>>]
    /\ down = [s \in Peer |-> FALSE]
    /\ serverfd = 0
    /\ cache = NULL /\ tsize = 0 /\ csize = 0 /\ inserted = NoObject

Call ==
    \/ Take \/ ReadEof \/ ReadFails \/ WriteDone \/ WriteFails
    \/ \E k \in 1..RIO_BUFSIZE : Refill(k)
    \/ \E k \in 1..MAXLINE : Write(k)

Thread ==
    \/ Call
    \/ Open_clientfd \/ RequestSent \/ BrowserHeader \/ HeaderSent \/ BlankSent
    \/ Status \/ StatusSent \/ Header \/ LineSent \/ Body
    \/ ToTheEnd \/ PieceSent \/ ByLength \/ PartRead \/ PartSent
    \/ Insert_cache

Next == Thread \/ \E s \in Peer : Reset(s)

Spec == Init /\ [][Next]_vars /\ WF_vars(Thread)

(***************************************************************************)
(* Properties.                                                             *)
(***************************************************************************)
Whole == Stream(response.bytes)
NoReset == \A s \in Peer : ~down[s]

\* However a stream is cut into segments, refills and partial writes, its bytes arrive
\* in order, none twice and none left out (csapp.c 569, 599, 643, 669): the browser
\* has the start of the response, and the server the request line, what the browser
\* sent, and a blank line.  Only a connection that says nothing has the browser sent
\* uninitialised memory.
InOrder ==
    /\ serverfd >= 0 /\ ~down["server"] =>
         \/ IsPrefix(recv["browser"], Whole)
         \/ recv["browser"] = <<Garbage>>
    /\ Cardinality({k \in DOMAIN recv["server"] : recv["server"][k][1] = "G"}) <= 1
    /\ \A j, k \in DOMAIN recv["server"] :
         j < k => \/ recv["server"][j][2] < recv["server"][k][2]
                  \/ recv["server"][k] \in {CRLF[1], CRLF[2]}

\* The copy never outgrows the MAX_OBJECT_SIZE bytes it was given: the part of the
\* response that is stored without a test was counted before (proxy.c 192, 315).
CopyFits == cache # NULL => Len(cache) <= MAX_OBJECT_SIZE

\* Where rio_readlineb ends a line of q that begins after byte p.
LineEnd(q, p) ==
    CHOOSE e \in (p + 1)..Len(q) :
        /\ q[e] = "n" \/ e = p + MAXLINE - 1 \/ e = Len(q)
        /\ \A k \in (p + 1)..(e - 1) : q[k] # "n" /\ k # p + MAXLINE - 1

BlankAt(q, p) == p < Len(q) /\ SubSeq(q, p + 1, LineEnd(q, p)) = <<"r", "n">>

\* The lines after the status line begin at the places S, and what comes after the blank
\* line is as long as the header says.
HeaderAt(r, S) ==
    LET q == r.bytes
    IN  /\ LineEnd(q, 0) \in S
        /\ \A p \in S : p < Len(q) /\ ~BlankAt(q, p) => LineEnd(q, p) \in S
        /\ (\E p \in S : p < Len(q) /\ q[p + 1] = "L") =>
             \A p \in S : /\ p = Len(q) => r.length = 0
                          /\ BlankAt(q, p) => r.length \in {0, Len(q) - LineEnd(q, p)}

\* A server that answers, and keeps to the length it announces.
Proper(r) ==
    r.bytes # <<>> /\ \E S \in SUBSET (0..Len(r.bytes)) : HeaderAt(r, S)

\* A response that comes whole reaches the browser whole, and is inserted in the
\* cache as it was sent exactly if it fits (proxy.c 148).
WholeResponse ==
    pc = "exit" /\ NoReset /\ serverfd > 0 /\ response.sent = Len(Whole) =>
        /\ recv["browser"] = Whole
        /\ inserted = (IF Len(Whole) <= MAX_OBJECT_SIZE
                       THEN [data |-> Whole, size |-> Len(Whole)] ELSE NoObject)

\* What is inserted is as long as it is said to be (proxy.c 146: "forward to client
\* browser and save a copy in cache").
CopyWhole == inserted # NoObject => Len(inserted.data) = inserted.size

\* The thread ends, if its connection to the server was made and is not reset: no
\* loop of the RIO package or of proxy.c goes round for ever (csapp.c 549, 603).
Ends == <>(pc = "exit" \/ down["server"] \/ serverfd < 0)
=============================================================================
