---------------------------- MODULE RtspSession ----------------------------
(***************************************************************************)
(* The RTSP dialogue of CRtspSession: handleRequests gathers what a client *)
(* sent in a receive buffer, decides when a request is complete, parses it *)
(* and answers it.  The buffer, its fill level and the header state are    *)
(* static variables of handleRequests: all sessions share them.            *)
(*                                                                         *)
(* A request travels as five pieces, cut where handleRequests or the       *)
(* parser can tell the difference:                                         *)
(*     1  the request line                                                 *)
(*     2  its CR                                                           *)
(*     3  LF and the CSeq header                                           *)
(*     4  CR LF and the other headers, Transport first                     *)
(*     5  CR LF CR LF                                                      *)
(* A position in a client's byte stream is counted in pieces.  A read that *)
(* ends inside a piece has the effect of one that ends before or behind    *)
(* it.                                                                     *)
(*                                                                         *)
(* What SETUP and the destructor do to the UDP sockets is in UdpTransport; *)
(* here the streamer keeps the count of references, m_udpRefCount.         *)
(***************************************************************************)
EXTENDS Integers, Sequences, FiniteSets

CONSTANTS
    Session,       \* the sessions, one for each accepted connection
    Requests,      \* the requests clients send
    Cuts,          \* pieces after which a read may stop inside a request
    BufferSize,    \* capacity of RecvBuf, in pieces
    Lockstep,      \* whether clients await the answer before they send again
    Apart,         \* whether nobody is heard in the middle of another's request
    MaxRequests,   \* bound: requests of one client
    MaxLive        \* bound: sessions at a time

Known == {"OPTIONS", "DESCRIBE", "SETUP", "PLAY", "TEARDOWN"}

\* Any other method leads to RTSP_UNKNOWN.  A "malformed" URI is one on which
\* the parser gives up; a transport is named by SETUP requests only, "other"
\* stands for one that is not RTP/AVP.  With "many" headers the fourth piece is
\* longer than the three before it, with "few" it is shorter.
Request == [method : Known \cup {"other"},
            uri : {"stream", "elsewhere", "malformed"},
            transport : {"none", "udp", "tcp", "other"},
            headers : {"few", "many"}]

ASSUME RequestAssumption ==
    /\ Requests \subseteq Request
    /\ \A r \in Requests : r.method # "SETUP" => r.transport = "none"

ASSUME ReadAssumption ==
    /\ Cuts \subseteq 1 .. 4
    /\ BufferSize \in Nat \ {0}
    /\ {Lockstep, Apart} \subseteq BOOLEAN
    /\ MaxRequests \in Nat
    /\ MaxLive \in Nat

VARIABLES
    buf,         \* RecvBuf up to bufPos
    hdr,         \* the header state: "unknown", "method" or "invalid"
    phase,       \* "new", "live" or, once deleted, "gone"
    cmd,         \* m_RtspCmdType
    cseq,        \* m_CSeq
    tcp,         \* m_TcpTransport
    streaming,   \* m_streaming
    udpRefs,     \* CStreamer::m_udpRefCount
    sent,        \* what each client has sent
    closed,      \* whether the client closed the connection
    taken,       \* the pieces the server has read from each client
    torn,        \* how many reads ended between the CR and the LF of a request line
    replies      \* what each client has been answered

serverVars == <<buf, hdr, phase, cmd, cseq, tcp, streaming, udpRefs, taken, torn, replies>>
clientVars == <<sent, closed>>
vars == <<buf, hdr, phase, cmd, cseq, tcp, streaming, udpRefs, taken, torn, replies, sent, closed>>

-----------------------------------------------------------------------------
(* The byte stream of a client *)

Piece(s, j) == [from |-> s, no |-> (j - 1) \div 5 + 1, part |-> ((j - 1) % 5) + 1]

Unread(s) == 5 * Len(sent[s]) - taken[s]

\* Mutant: the read is offered the size of the buffer, not what is left of it.
ReadLengthsUnlimited(s, room) ==
    {k \in 1 .. Unread(s) :
        k = Unread(s) \/ Piece(s, taken[s] + k).part \in Cuts \cup {5}}

\* The lengths a read can have that is offered room for "room" pieces: all
\* there is, all that fits, up to the end of a request or to one of the Cuts.
ReadLengths(s, room) ==
    {k \in 1 .. Unread(s) :
        /\ k <= room
        /\ k \in {room, Unread(s)} \/ Piece(s, taken[s] + k).part \in Cuts \cup {5}}

-----------------------------------------------------------------------------
(* ParseRtspRequest.  In a buffer b that holds more than one request, only  *)
(* the first request line is read as one; all header lines are read.  The   *)
(* parser is told the size of the last read alone.                          *)

Requested(p) == sent[p.from][p.no]

\* The length of a piece, in units of some ten bytes.
Weight(p) ==
    CASE p.part = 1 -> 4
      [] p.part = 2 -> 0
      [] p.part = 4 -> IF Requested(p).headers = "many" THEN 8 ELSE 2
      [] OTHER -> 1

\* The length of the first n pieces of b.
Size(b, n) ==
    LET upTo[i \in 0 .. n] == IF i = 0 THEN 0 ELSE upTo[i - 1] + Weight(b[i])
    IN  upTo[n]

\* A request line is accepted once its CR is in the buffer: the parser skips two
\* bytes there without a look at the second, and the buffer is filled with zeros.
LineParses(b) ==
    /\ Head(b).part = 1
    /\ Len(b) > 1
    /\ Requested(Head(b)).uri # "malformed"

\* The parser takes up a header behind a CR LF only.
NumberLine(b, i) == b[i].part = 3 /\ i > 1 /\ b[i - 1].part = 2
TransportLine(b, i) == b[i].part = 4 /\ ~(i > 1 /\ b[i - 1].part = 2)

\* parse_numeric_header reads a number if "size" leaves it any room.
NumberRead(b, i, size) == Size(b, i) < size

\* The parser gives up on a sequence number it cannot read, and on a transport
\* it does not know.
GivesUp(b, i, command, size) ==
    \/ NumberLine(b, i) /\ ~NumberRead(b, i, size)
    \/ TransportLine(b, i) /\ command = "SETUP" /\ Requested(b[i]).transport = "other"

\* The positions the parser gets past.
Scanned(b, command, size) ==
    {i \in DOMAIN b : LineParses(b) /\ \A j \in 1 .. i : ~GivesUp(b, j, command, size)}

Parses(b, command, size) == Scanned(b, command, size) = DOMAIN b

LastOf(S) == {i \in S : \A j \in S : j <= i}

Numbered(b, command, size) == {i \in Scanned(b, command, size) : NumberLine(b, i)}

\* Mutant: the sequence number is kept when one is known already.
SeqNumbersFirst(b, command, size, old) ==
    IF Numbered(b, command, size) = {} \/ old # 0 THEN {old}
    ELSE {b[i].no : i \in LastOf(Numbered(b, command, size))}

\* m_CSeq after parsing, as a set of one number: the last one scanned.  The
\* client's n-th request has CSeq n.
SeqNumbers(b, command, size, old) ==
    IF Numbered(b, command, size) = {} THEN {old}
    ELSE {b[i].no : i \in LastOf(Numbered(b, command, size))}

\* m_TcpTransport after parsing, likewise.
TcpChoices(b, command, size, old) ==
    LET named == {i \in Scanned(b, command, size) :
                     TransportLine(b, i) /\ Requested(b[i]).transport \in {"udp", "tcp"}}
    IN  IF command # "SETUP" \/ named = {} THEN {old}
        ELSE {Requested(b[i]).transport = "tcp" : i \in LastOf(named)}

-----------------------------------------------------------------------------
(* handleRequests *)

\* The check at its entry for an empty or an overfull buffer.
BufAtEntry == IF Len(buf) >= BufferSize THEN <<>> ELSE buf
HdrAtEntry == IF BufAtEntry = <<>> THEN "unknown" ELSE hdr

\* strstr finds a line end in six bytes or more.
HasLine(b) ==
    \E i \in DOMAIN b :
        b[i].part = 4 \/ (b[i].part = 3 /\ i > 1) \/ (b[i].part = 5 /\ Len(b) > 1)

MethodOf(b) ==
    IF Head(b).part = 1 /\ Requested(Head(b)).method \in Known
    THEN Requested(Head(b)).method ELSE "UNKNOWN"

\* Mutant: a header line ends the header.
HeaderEndsEarly(b) == b[Len(b)].part \in {3, 4, 5}

\* The empty line is looked for in the last four bytes only.
HeaderEnds(b) == b[Len(b)].part = 5

Classified(b) ==
    IF HdrAtEntry # "unknown" THEN HdrAtEntry
    ELSE IF ~HasLine(b) THEN "unknown"
    ELSE IF MethodOf(b) = "UNKNOWN" THEN "invalid" ELSE "method"

\* Mutant: the command is determined anew for every read.
CommandAfterEachRead(s, b) == IF HasLine(b) THEN MethodOf(b) ELSE cmd[s]

\* Mutant: the command is determined only once for a session.
CommandAfterOnce(s, b) ==
    IF HdrAtEntry = "unknown" /\ HasLine(b) /\ cmd[s] = "UNKNOWN" THEN MethodOf(b) ELSE cmd[s]

CommandAfter(s, b) ==
    IF HdrAtEntry = "unknown" /\ HasLine(b) THEN MethodOf(b) ELSE cmd[s]

\* More of a request has to come.
Wait(s, b) ==
    /\ Classified(b) # "unknown"
    /\ ~HeaderEnds(b)
    /\ buf' = b
    /\ hdr' = Classified(b)
    /\ cmd' = [cmd EXCEPT ![s] = CommandAfter(s, b)]
    /\ UNCHANGED <<phase, cseq, tcp, streaming, udpRefs, replies>>

\* Mutant: no answer to a request with an unknown method.
RejectSilently(s, b) ==
    /\ Classified(b) = "invalid"
    /\ HeaderEnds(b)
    /\ buf' = <<>>
    /\ hdr' = "invalid"
    /\ cmd' = [cmd EXCEPT ![s] = CommandAfter(s, b)]
    /\ UNCHANGED <<phase, cseq, tcp, streaming, udpRefs, replies>>

\* A request with an unknown method gets an error, once it is complete.
Reject(s, b) ==
    /\ Classified(b) = "invalid"
    /\ HeaderEnds(b)
    /\ buf' = <<>>
    /\ hdr' = "invalid"
    /\ cmd' = [cmd EXCEPT ![s] = CommandAfter(s, b)]
    /\ replies' = [replies EXCEPT ![s] =
           Append(@, [code |-> 400, method |-> "UNKNOWN", cseq |-> cseq[s]])]
    /\ UNCHANGED <<phase, cseq, tcp, streaming, udpRefs>>

\* The answers of the Handle_Rtsp... functions, for the URI of the request.
Answers(command, number, uri) ==
    IF command \in {"OPTIONS", "DESCRIBE", "SETUP", "PLAY"}
    THEN <<[code |-> IF command = "DESCRIBE" /\ uri # "stream" THEN 404 ELSE 200,
            method |-> command, cseq |-> number]>>
    ELSE <<>>

\* Handle_RtspRequest and the end of handleRequests; CStreamer::handleRequests
\* deletes a session that was torn down.  Also reached when no line end has
\* come yet, with the command of an earlier request: it is served once more when
\* the read ended between the CR and the LF of the request line.
Dispatch(s, b) ==
    /\ \/ Classified(b) = "method" /\ HeaderEnds(b)
       \/ Classified(b) = "unknown"
    /\ LET command == CommandAfter(s, b)
           size == Size(b, Len(b)) - Size(b, Len(BufAtEntry))
           ok == Parses(b, command, size)
       IN  \E number \in SeqNumbers(b, command, size, cseq[s]),
              overTcp \in TcpChoices(b, command, size, tcp[s]) :
           /\ cmd' = [cmd EXCEPT ![s] = command]
           /\ cseq' = [cseq EXCEPT ![s] = number]
           /\ tcp' = [tcp EXCEPT ![s] = overTcp]
           /\ replies' = IF ok
                         THEN [replies EXCEPT ![s] =
                                  @ \o Answers(command, number, Requested(Head(b)).uri)]
                         ELSE replies
           /\ streaming' = [streaming EXCEPT ![s] = @ \/ command = "PLAY"]
           /\ phase' = IF command = "TEARDOWN" THEN [phase EXCEPT ![s] = "gone"] ELSE phase
           /\ udpRefs' = udpRefs
                  + (IF ok /\ command = "SETUP" /\ ~overTcp THEN 1 ELSE 0)
                  - (IF command = "TEARDOWN" THEN 1 ELSE 0)
    /\ buf' = <<>>
    /\ hdr' = "unknown"

\* The clients of which only a part of a request has been read.
Interrupted == {t \in Session : phase[t] = "live" /\ taken[t] % 5 # 0}

ReadData(s) ==
    /\ phase[s] = "live"
    /\ Apart => Interrupted \subseteq {s}
    /\ \E k \in ReadLengths(s, BufferSize - Len(BufAtEntry)) :
       \E b \in {BufAtEntry \o [i \in 1 .. k |-> Piece(s, taken[s] + i)]} :
           /\ Wait(s, b) \/ Reject(s, b) \/ Dispatch(s, b)
           /\ taken' = [taken EXCEPT ![s] = @ + k]
           /\ torn' = IF Piece(s, taken[s] + k).part = 2
                      THEN [torn EXCEPT ![s] = @ + 1] ELSE torn
    /\ UNCHANGED clientVars

\* The read reports the end of the connection, or an error on it.
ReadClosed(s) ==
    /\ phase[s] = "live"
    /\ closed[s]
    /\ Apart => Interrupted = {}
    /\ buf' = BufAtEntry
    /\ hdr' = HdrAtEntry
    /\ phase' = [phase EXCEPT ![s] = "gone"]
    /\ udpRefs' = udpRefs - 1
    /\ UNCHANGED <<cmd, cseq, tcp, streaming, taken, torn, replies, clientVars>>

ReadTimeout(s) ==
    /\ phase[s] = "live"
    /\ Unread(s) = 0
    /\ ~closed[s]
    /\ buf' = BufAtEntry
    /\ hdr' = HdrAtEntry
    /\ UNCHANGED <<phase, cmd, cseq, tcp, streaming, udpRefs, taken, torn, replies, clientVars>>

HandleRequests(s) == ReadData(s) \/ ReadClosed(s) \/ ReadTimeout(s)

-----------------------------------------------------------------------------
(* The constructor, and the clients *)

Init ==
    /\ buf = <<>>
    /\ hdr = "unknown"
    /\ phase = [s \in Session |-> "new"]
    /\ cmd = [s \in Session |-> "UNKNOWN"]
    /\ cseq = [s \in Session |-> 0]
    /\ tcp = [s \in Session |-> FALSE]
    /\ streaming = [s \in Session |-> FALSE]
    /\ udpRefs = 0
    /\ sent = [s \in Session |-> <<>>]
    /\ closed = [s \in Session |-> FALSE]
    /\ taken = [s \in Session |-> 0]
    /\ torn = [s \in Session |-> 0]
    /\ replies = [s \in Session |-> <<>>]

\* addSession for an accepted connection.
AddSession(s) ==
    /\ phase[s] = "new"
    /\ Cardinality({t \in Session : phase[t] = "live"}) < MaxLive
    /\ phase' = [phase EXCEPT ![s] = "live"]
    /\ UNCHANGED <<buf, hdr, cmd, cseq, tcp, streaming, udpRefs, taken, torn, replies, clientVars>>

Send(s) ==
    /\ phase[s] = "live"
    /\ ~closed[s]
    /\ Len(sent[s]) < MaxRequests
    /\ Lockstep => Len(replies[s]) = Len(sent[s])
    /\ \E r \in Requests : sent' = [sent EXCEPT ![s] = Append(@, r)]
    /\ UNCHANGED <<serverVars, closed>>

Close(s) ==
    /\ phase[s] = "live"
    /\ ~closed[s]
    /\ closed' = [closed EXCEPT ![s] = TRUE]
    /\ UNCHANGED <<serverVars, sent>>

Next == \E s \in Session : HandleRequests(s) \/ AddSession(s) \/ Send(s) \/ Close(s)

Spec == Init /\ [][Next]_vars

\* The server's loop keeps calling handleRequests for every session.
LiveSpec == Spec /\ \A s \in Session : WF_vars(HandleRequests(s))

-----------------------------------------------------------------------------
(* Properties *)

Reply == [code : {200, 400, 404}, method : Known \cup {"UNKNOWN"}, cseq : Nat]

TypeOK ==
    /\ buf \in Seq([from : Session, no : Nat, part : 1 .. 5])
    /\ hdr \in {"unknown", "method", "invalid"}
    /\ phase \in [Session -> {"new", "live", "gone"}]
    /\ cmd \in [Session -> Known \cup {"UNKNOWN"}]
    /\ cseq \in [Session -> Nat]
    /\ tcp \in [Session -> BOOLEAN]
    /\ streaming \in [Session -> BOOLEAN]
    /\ udpRefs \in Int
    /\ sent \in [Session -> Seq(Requests)]
    /\ closed \in [Session -> BOOLEAN]
    /\ {taken, torn} \subseteq [Session -> Nat]
    /\ replies \in [Session -> Seq(Reply)]

\* The shared buffer never overflows, and bytes left in it are always those of
\* a request whose method has been looked at.
BufferSound == Len(buf) <= BufferSize /\ (hdr = "unknown" => buf = <<>>)

HasSent(s, method) == \E i \in DOMAIN sent[s] : sent[s][i].method = method

\* Though the buffer is shared, what a session does is never another client's
\* doing: the type of its current command, streaming and the end of the
\* session all go back to what its own client did.
OwnCommandsOnly ==
    \A s \in Session :
        /\ cmd[s] # "UNKNOWN" => HasSent(s, cmd[s])
        /\ streaming[s] => HasSent(s, "PLAY")
        /\ phase[s] = "gone" => closed[s] \/ HasSent(s, "TEARDOWN")

\* A client is answered at most once for each request whose last piece was
\* read, and at most once more for each read that ended between the CR and the
\* LF of a request line, however the requests of all clients were mixed.
NoSurplusReply == \A s \in Session : Len(replies[s]) <= taken[s] \div 5 + torn[s]

\* No request is answered before its last piece was read: "in all cases we need
\* to slurp the whole header before answering".  The code does not keep to that
\* when a read ends between the CR and the LF of a request line.
WholeHeaderFirst == \A s \in Session : Len(replies[s]) <= taken[s] \div 5

\* For clients that await their answers and are heard one after the other, the
\* sessions implement the plain dialogue.
Dialogue == INSTANCE RtspDialogue WITH
    asked <- sent,
    served <- [s \in Session |-> taken[s] \div 5],
    answers <- replies,
    overTcp <- tcp,
    playing <- streaming,
    state <- phase,
    refs <- udpRefs

ImplementsDialogue == Dialogue!Spec

\* What a client still waits for, unless it asked for the end of the session
\* or for something the parser gives up on.
AwaitsAnswer(s) ==
    /\ phase[s] = "live"
    /\ Len(replies[s]) < Len(sent[s])
    /\ LET r == sent[s][Len(sent[s])]
       IN  r.method # "TEARDOWN" /\ Dialogue!Understood(r)

\* A client that awaits its answers gets each of them, or hangs up.
EveryRequestAnswered ==
    \A s \in Session :
        AwaitsAnswer(s) ~> (Len(replies[s]) = Len(sent[s]) \/ closed[s])

\* An answer is of the type of the request whose number it bears: the command
\* type is that "of the current request".
AnswersCurrentRequest ==
    \A s \in Session : \A i \in DOMAIN replies[s] :
        replies[s][i].code # 400 =>
            replies[s][i].method = sent[s][replies[s][i].cseq].method
=============================================================================
