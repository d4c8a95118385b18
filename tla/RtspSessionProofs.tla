------------------------- MODULE RtspSessionProofs -------------------------
(***************************************************************************)
(* The shared receive buffer never makes a session act on another client's *)
(* command, for every set of sessions and requests, capacity of the buffer *)
(* and way of cutting requests into reads.                                 *)
(*                                                                         *)
(* The argument: the type of a command is determined only in the header    *)
(* state "unknown", and in that state the buffer is empty when a read      *)
(* begins (BufferSound), so the request line looked at was sent by the     *)
(* client being read from.                                                 *)
(***************************************************************************)
EXTENDS RtspSession, SequenceTheorems, TLAPS

PieceType == [from : Session, no : Nat, part : 1 .. 5]

\* The server has not read more than the clients have sent.
ReadIsSent == \A s \in Session : taken[s] <= 5 * Len(sent[s])

IInv ==
    /\ TypeOK
    /\ BufferSound
    /\ OwnCommandsOnly
    /\ ReadIsSent

-----------------------------------------------------------------------------

LEMMA InitIInv == Init => IInv
<1> SUFFICES ASSUME Init PROVE IInv
  OBVIOUS
<1>1. TypeOK
  BY DEF Init, TypeOK
<1>2. BufferSound /\ OwnCommandsOnly /\ ReadIsSent
  BY ReadAssumption DEF Init, BufferSound, OwnCommandsOnly, ReadIsSent
<1>. QED
  BY <1>1, <1>2 DEF IInv

\* A piece of the part of a stream that has been sent.
LEMMA PieceIsSent ==
    ASSUME NEW s \in Session, NEW j \in Nat, 1 <= j, NEW n \in Nat, j <= 5 * n
    PROVE  /\ Piece(s, j) \in PieceType
           /\ Piece(s, j).from = s
           /\ Piece(s, j).no \in 1 .. n
<1>1. (j - 1) \div 5 + 1 \in 1 .. n
  OBVIOUS
<1>2. ((j - 1) % 5) + 1 \in 1 .. 5
  OBVIOUS
<1>. QED
  BY <1>1, <1>2 DEF Piece, PieceType

\* The bytes handleRequests looks at after a read of k pieces from client s.
BufferWith(s, k) == BufAtEntry \o [i \in 1 .. k |-> Piece(s, taken[s] + i)]

LEMMA BufferAfterRead ==
    ASSUME IInv, NEW s \in Session,
           NEW k \in ReadLengths(s, BufferSize - Len(BufAtEntry))
    PROVE  /\ k \in Nat /\ k > 0 /\ taken[s] + k <= 5 * Len(sent[s])
           /\ BufferWith(s, k) \in Seq(PieceType)
           /\ Len(BufferWith(s, k)) > 0
           /\ Len(BufferWith(s, k)) <= BufferSize
           /\ HdrAtEntry = "unknown" =>
                 /\ Head(BufferWith(s, k)).from = s
                 /\ Head(BufferWith(s, k)).no \in DOMAIN sent[s]
<1> DEFINE read == [i \in 1 .. k |-> Piece(s, taken[s] + i)]
<1>1. taken[s] \in Nat /\ sent[s] \in Seq(Requests) /\ Len(sent[s]) \in Nat
  BY DEF IInv, TypeOK
<1>2. k \in Nat /\ k > 0 /\ taken[s] + k <= 5 * Len(sent[s])
  BY <1>1 DEF ReadLengths, Unread
<1>3. BufAtEntry \in Seq(PieceType) /\ Len(BufAtEntry) \in Nat
  BY DEF IInv, TypeOK, BufAtEntry, PieceType
<1>4. k <= BufferSize - Len(BufAtEntry)
  BY DEF ReadLengths
<1>5. \A i \in 1 .. k : /\ Piece(s, taken[s] + i) \in PieceType
                        /\ Piece(s, taken[s] + i).from = s
                        /\ Piece(s, taken[s] + i).no \in 1 .. Len(sent[s])
  BY <1>1, <1>2, PieceIsSent
<1>6. read \in Seq(PieceType) /\ Len(read) = k /\ read[1] = Piece(s, taken[s] + 1)
  BY <1>2, <1>5
<1>7. BufferWith(s, k) \in Seq(PieceType) /\ Len(BufferWith(s, k)) = Len(BufAtEntry) + k
  <2>1. BufferWith(s, k) = BufAtEntry \o read
    BY DEF BufferWith
  <2> HIDE DEF read
  <2>. QED
    BY <1>2, <1>3, <1>6, <2>1, ConcatProperties
<1>8. ASSUME HdrAtEntry = "unknown"
      PROVE  Head(BufferWith(s, k)) = Piece(s, taken[s] + 1)
  <2>1. BufAtEntry = <<>>
    BY <1>8 DEF IInv, BufferSound, BufAtEntry, HdrAtEntry
  <2>. QED
    BY <1>2, <1>6, <2>1 DEF BufferWith
<1>9. DOMAIN sent[s] = 1 .. Len(sent[s])
  BY <1>1
<1>. QED
  BY <1>1, <1>2, <1>3, <1>4, <1>5, <1>7, <1>8, <1>9, ReadAssumption

\* The command a session acts on was sent by its own client.
LEMMA CommandIsOwn ==
    ASSUME IInv, NEW s \in Session,
           NEW k \in ReadLengths(s, BufferSize - Len(BufAtEntry))
    PROVE  LET command == CommandAfter(s, BufferWith(s, k))
           IN  /\ command \in Known \cup {"UNKNOWN"}
               /\ command # "UNKNOWN" => HasSent(s, command)
<1> DEFINE b == BufferWith(s, k)
<1>1. MethodOf(b) \in Known \cup {"UNKNOWN"}
  BY DEF MethodOf
<1>2. cmd[s] \in Known \cup {"UNKNOWN"} /\ (cmd[s] # "UNKNOWN" => HasSent(s, cmd[s]))
  BY DEF IInv, TypeOK, OwnCommandsOnly
<1>3. ASSUME HdrAtEntry = "unknown", MethodOf(b) # "UNKNOWN"
      PROVE  HasSent(s, MethodOf(b))
  <2>1. MethodOf(b) = Requested(Head(b)).method
    BY <1>3 DEF MethodOf
  <2>2. Head(b).from = s /\ Head(b).no \in DOMAIN sent[s]
    BY <1>3, BufferAfterRead
  <2>. QED
    BY <2>1, <2>2 DEF HasSent, Requested
<1>. QED
  BY <1>1, <1>2, <1>3 DEF CommandAfter

\* What stays in the buffer after a read, and its header state.
LEMMA EntryKeepsBuffer ==
    ASSUME IInv
    PROVE  /\ BufAtEntry \in Seq(PieceType)
           /\ Len(BufAtEntry) <= BufferSize
           /\ HdrAtEntry \in {"unknown", "method", "invalid"}
           /\ HdrAtEntry = "unknown" => BufAtEntry = <<>>
BY ReadAssumption
   DEF IInv, TypeOK, BufferSound, BufAtEntry, HdrAtEntry, PieceType

LEMMA AnswersAreReplies ==
    ASSUME NEW command \in Known \cup {"UNKNOWN"}, NEW number \in Nat, NEW uri
    PROVE  Answers(command, number, uri) \in Seq(Reply)
<1>1. CASE command \in {"OPTIONS", "DESCRIBE", "SETUP", "PLAY"}
  <2> DEFINE answer ==
          [code |-> IF command = "DESCRIBE" /\ uri # "stream" THEN 404 ELSE 200,
           method |-> command, cseq |-> number]
  <2>1. answer \in Reply
    BY <1>1 DEF Reply, Known
  <2>2. Answers(command, number, uri) = <<answer>>
    BY <1>1 DEF Answers
  <2> HIDE DEF answer
  <2>. QED
    BY <2>1, <2>2
<1>2. CASE command \notin {"OPTIONS", "DESCRIBE", "SETUP", "PLAY"}
  BY <1>2 DEF Answers
<1>. QED
  BY <1>1, <1>2

\* The values ParseRtspRequest can leave in m_CSeq and m_TcpTransport.
LEMMA ParsedTypes ==
    ASSUME IInv, NEW s \in Session, NEW b \in Seq(PieceType), NEW command, NEW size
    PROVE  /\ SeqNumbers(b, command, size, cseq[s]) \subseteq Nat
           /\ TcpChoices(b, command, size, tcp[s]) \subseteq BOOLEAN
<1>1. cseq[s] \in Nat /\ tcp[s] \in BOOLEAN
  BY DEF IInv, TypeOK
<1>2. \A i \in DOMAIN b : b[i].no \in Nat
  <2>1. \A i \in DOMAIN b : b[i] \in PieceType
    BY ElementOfSeq, LenProperties
  <2>. QED
    BY <2>1 DEF PieceType
<1>3. SeqNumbers(b, command, size, cseq[s]) \subseteq Nat
  BY <1>1, <1>2 DEF SeqNumbers, LastOf, Numbered, Scanned
<1>4. TcpChoices(b, command, size, tcp[s]) \subseteq BOOLEAN
  BY <1>1 DEF TcpChoices
<1>. QED
  BY <1>3, <1>4

\* A read that brings bytes: the request has to go on, is rejected, or served.
LEMMA ReadDataKeepsIInv ==
    ASSUME IInv, NEW s \in Session, ReadData(s)
    PROVE  IInv'
<1>1. PICK k \in ReadLengths(s, BufferSize - Len(BufAtEntry)) :
          /\ \/ Wait(s, BufferWith(s, k))
             \/ Reject(s, BufferWith(s, k))
             \/ Dispatch(s, BufferWith(s, k))
          /\ taken' = [taken EXCEPT ![s] = @ + k]
          /\ torn' = IF Piece(s, taken[s] + k).part = 2
                     THEN [torn EXCEPT ![s] = @ + 1] ELSE torn
  BY DEF ReadData, BufferWith
<1> DEFINE b == BufferWith(s, k)
<1> DEFINE command == CommandAfter(s, b)
<1> DEFINE size == Size(b, Len(b)) - Size(b, Len(BufAtEntry))
<1>2. UNCHANGED <<sent, closed>>
  BY DEF ReadData, clientVars
<1>3. /\ k \in Nat /\ taken[s] + k <= 5 * Len(sent[s])
      /\ b \in Seq(PieceType) /\ Len(b) <= BufferSize
  BY BufferAfterRead
<1>4. /\ command \in Known \cup {"UNKNOWN"}
      /\ command # "UNKNOWN" => HasSent(s, command)
  BY CommandIsOwn
<1>5. cmd' = [cmd EXCEPT ![s] = command]
  BY <1>1 DEF Wait, Reject, Dispatch
<1> HIDE DEF b
<1>6. {taken', torn'} \subseteq [Session -> Nat] /\ ReadIsSent'
  <2>1. taken \in [Session -> Nat] /\ torn \in [Session -> Nat]
    BY DEF IInv, TypeOK
  <2>2. taken' \in [Session -> Nat] /\ ReadIsSent'
    BY <1>1, <1>2, <1>3, <2>1 DEF IInv, ReadIsSent
  <2>3. torn' \in [Session -> Nat]
    BY <1>1, <2>1
  <2>. QED
    BY <2>2, <2>3
<1> HIDE DEF command, size
<1>7. /\ cmd' \in [Session -> Known \cup {"UNKNOWN"}]
      /\ \A t \in Session : cmd'[t] # "UNKNOWN" => HasSent(t, cmd'[t])
  <2>1. /\ cmd \in [Session -> Known \cup {"UNKNOWN"}]
        /\ \A t \in Session : cmd[t] # "UNKNOWN" => HasSent(t, cmd[t])
    BY DEF IInv, TypeOK, OwnCommandsOnly
  <2>2. \A t \in Session : cmd'[t] = IF t = s THEN command ELSE cmd[t]
    BY <1>5, <2>1
  <2>. QED
    BY <1>4, <1>5, <2>1, <2>2
<1>8. /\ replies \in [Session -> Seq(Reply)] /\ cseq \in [Session -> Nat]
      /\ phase \in [Session -> {"new", "live", "gone"}]
      /\ tcp \in [Session -> BOOLEAN] /\ streaming \in [Session -> BOOLEAN]
      /\ udpRefs \in Int
      /\ \A t \in Session : streaming[t] => HasSent(t, "PLAY")
      /\ \A t \in Session : phase[t] = "gone" => closed[t] \/ HasSent(t, "TEARDOWN")
  BY DEF IInv, TypeOK, OwnCommandsOnly
<1>9. CASE Wait(s, b)
  <2>1. /\ buf' = b /\ hdr' = Classified(b) /\ Classified(b) # "unknown"
        /\ UNCHANGED <<phase, cseq, tcp, streaming, udpRefs, replies>>
    BY <1>9 DEF Wait
  <2>2. Classified(b) \in {"unknown", "method", "invalid"}
    BY EntryKeepsBuffer DEF Classified
  <2>3. TypeOK'
    BY <1>2, <1>3, <1>6, <1>7, <1>8, <2>1, <2>2 DEF IInv, TypeOK, PieceType
  <2>4. BufferSound'
    BY <1>3, <2>1 DEF BufferSound
  <2>5. OwnCommandsOnly'
    <3>1. \A t \in Session : /\ cmd'[t] # "UNKNOWN" => HasSent(t, cmd'[t])
                             /\ streaming'[t] => HasSent(t, "PLAY")
                             /\ phase'[t] = "gone" => closed'[t] \/ HasSent(t, "TEARDOWN")
      BY <1>2, <1>7, <1>8, <2>1
    <3>. QED
      BY <1>2, <3>1 DEF OwnCommandsOnly, HasSent
  <2>. QED
    BY <1>6, <2>3, <2>4, <2>5 DEF IInv
<1>10. CASE Reject(s, b)
  <2>1. /\ buf' = <<>> /\ hdr' = "invalid"
        /\ UNCHANGED <<phase, cseq, tcp, streaming, udpRefs>>
        /\ replies' = [replies EXCEPT ![s] =
               Append(@, [code |-> 400, method |-> "UNKNOWN", cseq |-> cseq[s]])]
    BY <1>10 DEF Reject
  <2>2. replies' \in [Session -> Seq(Reply)]
    <3>1. [code |-> 400, method |-> "UNKNOWN", cseq |-> cseq[s]] \in Reply
      BY <1>8 DEF Reply
    <3>. QED
      BY <1>8, <2>1, <3>1
  <2>3. TypeOK'
    BY <1>2, <1>6, <1>7, <1>8, <2>1, <2>2 DEF IInv, TypeOK
  <2>4. BufferSound'
    BY <2>1, ReadAssumption DEF BufferSound
  <2>5. OwnCommandsOnly'
    <3>1. \A t \in Session : /\ cmd'[t] # "UNKNOWN" => HasSent(t, cmd'[t])
                             /\ streaming'[t] => HasSent(t, "PLAY")
                             /\ phase'[t] = "gone" => closed'[t] \/ HasSent(t, "TEARDOWN")
      BY <1>2, <1>7, <1>8, <2>1
    <3>. QED
      BY <1>2, <3>1 DEF OwnCommandsOnly, HasSent
  <2>. QED
    BY <1>6, <2>3, <2>4, <2>5 DEF IInv
<1>11. CASE Dispatch(s, b)
  <2>1. PICK number \in SeqNumbers(b, command, size, cseq[s]),
             overTcp \in TcpChoices(b, command, size, tcp[s]) :
           /\ cseq' = [cseq EXCEPT ![s] = number]
           /\ tcp' = [tcp EXCEPT ![s] = overTcp]
           /\ replies' = IF Parses(b, command, size)
                         THEN [replies EXCEPT ![s] =
                                  @ \o Answers(command, number, Requested(Head(b)).uri)]
                         ELSE replies
           /\ streaming' = [streaming EXCEPT ![s] = @ \/ command = "PLAY"]
           /\ phase' = IF command = "TEARDOWN" THEN [phase EXCEPT ![s] = "gone"] ELSE phase
           /\ udpRefs' = udpRefs
                  + (IF Parses(b, command, size) /\ command = "SETUP" /\ ~overTcp THEN 1 ELSE 0)
                  - (IF command = "TEARDOWN" THEN 1 ELSE 0)
    BY <1>11 DEF Dispatch, command, size
  <2>2. buf' = <<>> /\ hdr' = "unknown"
    BY <1>11 DEF Dispatch
  <2>3. number \in Nat /\ overTcp \in BOOLEAN
    BY <1>3, <2>1, ParsedTypes
  <2>4. replies' \in [Session -> Seq(Reply)]
    <3>1. Answers(command, number, Requested(Head(b)).uri) \in Seq(Reply)
      BY <1>4, <2>3, AnswersAreReplies
    <3>2. replies[s] \o Answers(command, number, Requested(Head(b)).uri) \in Seq(Reply)
      BY <1>8, <3>1, ConcatProperties
    <3>. QED
      BY <1>8, <2>1, <3>2
  <2>5. /\ cseq' \in [Session -> Nat] /\ tcp' \in [Session -> BOOLEAN]
        /\ streaming' \in [Session -> BOOLEAN] /\ udpRefs' \in Int
        /\ phase' \in [Session -> {"new", "live", "gone"}]
    BY <1>8, <2>1, <2>3
  <2>6. TypeOK'
    BY <1>2, <1>6, <1>7, <2>2, <2>4, <2>5 DEF IInv, TypeOK
  <2>7. BufferSound'
    BY <2>2, ReadAssumption DEF BufferSound
  <2>8. OwnCommandsOnly'
    <3>1. \A t \in Session : streaming'[t] => HasSent(t, "PLAY")
      BY <1>4, <1>8, <2>1
    <3>2. \A t \in Session : phase'[t] = "gone" => closed[t] \/ HasSent(t, "TEARDOWN")
      BY <1>4, <1>8, <2>1
    <3>. QED
      <4>1. \A t \in Session : /\ cmd'[t] # "UNKNOWN" => HasSent(t, cmd'[t])
                               /\ streaming'[t] => HasSent(t, "PLAY")
                               /\ phase'[t] = "gone" => closed'[t] \/ HasSent(t, "TEARDOWN")
        BY <1>2, <1>7, <3>1, <3>2
      <4>. QED
        BY <1>2, <4>1 DEF OwnCommandsOnly, HasSent
  <2>. QED
    BY <1>6, <2>6, <2>7, <2>8 DEF IInv
<1>. QED
  BY <1>1, <1>9, <1>10, <1>11 DEF b

LEMMA NextIInv == IInv /\ [Next]_vars => IInv'
<1> SUFFICES ASSUME IInv, [Next]_vars
             PROVE  IInv'
  OBVIOUS
<1> USE DEF IInv
<1>1. ASSUME NEW s \in Session, ReadClosed(s)
      PROVE  IInv'
  <2>1. /\ buf' = BufAtEntry /\ hdr' = HdrAtEntry
        /\ phase' = [phase EXCEPT ![s] = "gone"]
        /\ closed[s] /\ udpRefs' = udpRefs - 1
        /\ UNCHANGED <<cmd, cseq, tcp, streaming, taken, torn, replies, sent, closed>>
    BY <1>1 DEF ReadClosed, clientVars
  <2>2. TypeOK' /\ BufferSound'
    <3>1. phase' \in [Session -> {"new", "live", "gone"}] /\ udpRefs' \in Int
      BY <2>1 DEF TypeOK
    <3>. QED
      BY <2>1, <3>1, EntryKeepsBuffer DEF TypeOK, BufferSound, PieceType
  <2>3. OwnCommandsOnly' /\ ReadIsSent'
    BY <2>1 DEF TypeOK, OwnCommandsOnly, ReadIsSent, HasSent
  <2>. QED
    BY <2>2, <2>3
<1>2. ASSUME NEW s \in Session, ReadTimeout(s)
      PROVE  IInv'
  <2>1. /\ buf' = BufAtEntry /\ hdr' = HdrAtEntry
        /\ UNCHANGED <<phase, cmd, cseq, tcp, streaming, udpRefs, taken, torn, replies, sent, closed>>
    BY <1>2 DEF ReadTimeout, clientVars
  <2>2. TypeOK' /\ BufferSound'
    BY <2>1, EntryKeepsBuffer DEF TypeOK, BufferSound, PieceType
  <2>3. OwnCommandsOnly' /\ ReadIsSent'
    BY <2>1 DEF OwnCommandsOnly, ReadIsSent, HasSent
  <2>. QED
    BY <2>2, <2>3
<1>3. ASSUME NEW s \in Session, AddSession(s)
      PROVE  IInv'
  <2>1. /\ phase' = [phase EXCEPT ![s] = "live"]
        /\ UNCHANGED <<buf, hdr, cmd, cseq, tcp, streaming, udpRefs, taken, torn, replies, sent, closed>>
    BY <1>3 DEF AddSession, clientVars
  <2>2. TypeOK' /\ BufferSound'
    BY <2>1 DEF TypeOK, BufferSound
  <2>3. OwnCommandsOnly' /\ ReadIsSent'
    BY <2>1 DEF TypeOK, OwnCommandsOnly, ReadIsSent, HasSent
  <2>. QED
    BY <2>2, <2>3
<1>4. ASSUME NEW s \in Session, Send(s)
      PROVE  IInv'
  <2>1. PICK r \in Requests : sent' = [sent EXCEPT ![s] = Append(@, r)]
    BY <1>4 DEF Send
  <2>2. UNCHANGED <<buf, hdr, phase, cmd, cseq, tcp, streaming, udpRefs, taken, torn, replies, closed>>
    BY <1>4 DEF Send, serverVars
  <2>3. /\ sent' \in [Session -> Seq(Requests)]
        /\ \A t \in Session : Len(sent[t]) <= Len(sent'[t])
        /\ \A t \in Session : Len(sent[t]) \in Nat /\ Len(sent'[t]) \in Nat
        /\ \A t \in Session : \A i \in DOMAIN sent[t] :
              i \in DOMAIN sent'[t] /\ sent'[t][i] = sent[t][i]
    BY <2>1 DEF TypeOK
  <2>4. TypeOK' /\ BufferSound'
    BY <2>2, <2>3 DEF TypeOK, BufferSound
  <2>5. \A t \in Session : \A method : HasSent(t, method) => HasSent(t, method)'
    BY <2>3 DEF HasSent
  <2>6. OwnCommandsOnly' /\ ReadIsSent'
    <3>1. ReadIsSent'
      BY <2>2, <2>3 DEF TypeOK, ReadIsSent
    <3>2. OwnCommandsOnly'
      BY <2>2, <2>5 DEF OwnCommandsOnly
    <3>. QED
      BY <3>1, <3>2
  <2>. QED
    BY <2>4, <2>6
<1>5. ASSUME NEW s \in Session, Close(s)
      PROVE  IInv'
  <2>1. /\ closed' = [closed EXCEPT ![s] = TRUE]
        /\ UNCHANGED <<buf, hdr, phase, cmd, cseq, tcp, streaming, udpRefs, taken, torn, replies, sent>>
    BY <1>5 DEF Close, serverVars
  <2>2. TypeOK' /\ BufferSound'
    BY <2>1 DEF TypeOK, BufferSound
  <2>3. OwnCommandsOnly' /\ ReadIsSent'
    BY <2>1 DEF TypeOK, OwnCommandsOnly, ReadIsSent, HasSent
  <2>. QED
    BY <2>2, <2>3
<1>6. CASE UNCHANGED vars
  BY <1>6 DEF vars, TypeOK, BufferSound, OwnCommandsOnly, ReadIsSent, HasSent
<1>. QED
  BY <1>1, <1>2, <1>3, <1>4, <1>5, <1>6, ReadDataKeepsIInv DEF Next, HandleRequests

-----------------------------------------------------------------------------
(* Replies and the requests they are for: a reply takes the last piece of a *)
(* request, and a read that ends with one takes the client's position past  *)
(* the end of at least one more request.                                    *)

LEMMA ConcatParts ==
    ASSUME NEW S, NEW a \in Seq(S), NEW b \in Seq(S)
    PROVE  /\ Len(a \o b) = Len(a) + Len(b)
           /\ \A i \in 1 .. Len(a) : (a \o b)[i] = a[i]
           /\ \A i \in 1 .. Len(b) : (a \o b)[Len(a) + i] = b[i]
<1>1. Len(a) \in Nat /\ Len(b) \in Nat
  OBVIOUS
<1>2. /\ Len(a \o b) = Len(a) + Len(b)
      /\ \A i \in 1 .. Len(a) + Len(b) :
            (a \o b)[i] = IF i <= Len(a) THEN a[i] ELSE b[i - Len(a)]
  BY ConcatProperties
<1> DEFINE c == a \o b
<1> HIDE DEF c
<1>3. ASSUME NEW i \in 1 .. Len(b)
      PROVE  c[Len(a) + i] = b[i]
  <2>1. Len(a) + i \in 1 .. Len(a) + Len(b) /\ ~(Len(a) + i <= Len(a))
    BY <1>1
  <2>2. (Len(a) + i) - Len(a) = i
    BY <1>1
  <2>. QED
    BY <1>2, <2>1, <2>2 DEF c
<1>. QED
  BY <1>1, <1>2, <1>3 DEF c

\* The parts of a request follow each other in the stream.
LEMMA PieceParts ==
    ASSUME NEW s \in Session, NEW j \in Nat, j > 0
    PROVE  /\ Piece(s, j).part = 5 <=> j % 5 = 0
           /\ \A n \in 1 .. 4 : Piece(s, j).part = n <=> j % 5 = n
           /\ Piece(s, j).part # 5 => Piece(s, j + 1).part = Piece(s, j).part + 1
<1>1. Piece(s, j).part = ((j - 1) % 5) + 1
  BY DEF Piece
<1>2. Piece(s, j + 1).part = (((j + 1) - 1) % 5) + 1
  BY DEF Piece
<1>. QED
  BY <1>1, <1>2

\* What the reader adds to the buffer.
LEMMA PiecesRead ==
    ASSUME IInv, NEW s \in Session,
           NEW k \in ReadLengths(s, BufferSize - Len(BufAtEntry))
    PROVE  LET b == BufferWith(s, k)
               n == Len(BufAtEntry)
           IN  /\ n \in Nat
               /\ Len(b) = n + k
               /\ \A i \in 1 .. n : b[i] = BufAtEntry[i]
               /\ \A i \in 1 .. k : b[n + i] = Piece(s, taken[s] + i)
               /\ b[Len(b)] = Piece(s, taken[s] + k)
<1> DEFINE read == [i \in 1 .. k |-> Piece(s, taken[s] + i)]
<1>1. k \in Nat /\ k > 0 /\ taken[s] \in Nat /\ taken[s] + k <= 5 * Len(sent[s])
  BY BufferAfterRead DEF IInv, TypeOK
<1>2. BufAtEntry \in Seq(PieceType) /\ Len(BufAtEntry) \in Nat
  BY EntryKeepsBuffer
<1>3. \A i \in 1 .. k : Piece(s, taken[s] + i) \in PieceType
  BY <1>1, PieceIsSent DEF IInv, TypeOK
<1>4. /\ read \in Seq(PieceType) /\ Len(read) = k
      /\ \A i \in 1 .. k : read[i] = Piece(s, taken[s] + i)
  BY <1>1, <1>3
<1>5. BufferWith(s, k) = BufAtEntry \o read
  BY DEF BufferWith
<1> HIDE DEF read
<1>6. /\ Len(BufferWith(s, k)) = Len(BufAtEntry) + k
      /\ \A i \in 1 .. Len(BufAtEntry) : BufferWith(s, k)[i] = BufAtEntry[i]
      /\ \A i \in 1 .. k : BufferWith(s, k)[Len(BufAtEntry) + i] = read[i]
  <2>1. /\ Len(BufAtEntry \o read) = Len(BufAtEntry) + Len(read)
        /\ \A i \in 1 .. Len(BufAtEntry) : (BufAtEntry \o read)[i] = BufAtEntry[i]
        /\ \A i \in 1 .. Len(read) : (BufAtEntry \o read)[Len(BufAtEntry) + i] = read[i]
    <3>1. BufAtEntry \in Seq(PieceType) /\ read \in Seq(PieceType)
      BY <1>2, <1>4
    <3>2. ASSUME NEW a, NEW c, a \in Seq(PieceType), c \in Seq(PieceType)
          PROVE  /\ Len(a \o c) = Len(a) + Len(c)
                 /\ \A i \in 1 .. Len(a) : (a \o c)[i] = a[i]
                 /\ \A i \in 1 .. Len(c) : (a \o c)[Len(a) + i] = c[i]
      BY <3>2, ConcatParts
    <3>. QED
      BY <3>1, <3>2
  <2>2. Len(read) = k
    BY <1>4
  <2> HIDE DEF read
  <2>. QED
    BY Zenon, <1>5, <2>1, <2>2
<1>. QED
  BY <1>1, <1>2, <1>4, <1>6

\* The read brings a request line and its CR, and nothing was there before.
TornRead(s, k) == BufAtEntry = <<>> /\ taken[s] % 5 = 0 /\ k = 2

\* The empty line ends the buffer only at the end of a request.
LEMMA HeaderEndsRequest ==
    ASSUME IInv, NEW s \in Session,
           NEW k \in ReadLengths(s, BufferSize - Len(BufAtEntry))
    PROVE  HeaderEnds(BufferWith(s, k)) <=> (taken[s] + k) % 5 = 0
<1>1. BufferWith(s, k)[Len(BufferWith(s, k))] = Piece(s, taken[s] + k)
  BY PiecesRead
<1>2. k \in Nat /\ k > 0 /\ taken[s] \in Nat
  BY BufferAfterRead DEF IInv, TypeOK
<1>3. Piece(s, taken[s] + k).part = 5 <=> (taken[s] + k) % 5 = 0
  BY <1>2, PieceParts
<1>. QED
  BY <1>1, <1>3 DEF HeaderEnds

\* Bytes without a line end are not a request, unless they are a request line
\* with its CR.
LEMMA NoLineNoRequest ==
    ASSUME IInv, NEW s \in Session,
           NEW k \in ReadLengths(s, BufferSize - Len(BufAtEntry)),
           Classified(BufferWith(s, k)) = "unknown",
           NEW command, NEW size
    PROVE  /\ HdrAtEntry = "unknown"
           /\ ~HasLine(BufferWith(s, k))
           /\ LineParses(BufferWith(s, k)) => TornRead(s, k)
           /\ ~LineParses(BufferWith(s, k)) =>
                 /\ Scanned(BufferWith(s, k), command, size) = {}
                 /\ ~Parses(BufferWith(s, k), command, size)
<1> DEFINE b == BufferWith(s, k)
<1>1. HdrAtEntry = "unknown" /\ ~HasLine(b)
  BY DEF Classified
<1>2. BufAtEntry = <<>> /\ Len(BufAtEntry) = 0
  BY <1>1, EntryKeepsBuffer
<1>3. k \in Nat /\ k > 0 /\ taken[s] \in Nat
  BY BufferAfterRead DEF IInv, TypeOK
<1>4. Len(b) = k /\ b \in Seq(PieceType)
  BY <1>2, <1>3, PiecesRead, BufferAfterRead
<1>5. DOMAIN b = 1 .. k
  BY <1>4
<1>6. ASSUME NEW i \in 1 .. k
      PROVE  b[i] = Piece(s, taken[s] + i)
  <2>1. b[Len(BufAtEntry) + i] = Piece(s, taken[s] + i)
    BY PiecesRead
  <2>2. Len(BufAtEntry) + i = i
    BY <1>2, <1>3
  <2>. QED
    BY <2>1, <2>2
<1>7. ASSUME LineParses(b)
      PROVE  TornRead(s, k)
  <2>1. Head(b) = Piece(s, taken[s] + 1) /\ Head(b).part = 1 /\ k > 1
    BY <1>3, <1>4, <1>6, <1>7 DEF LineParses
  <2>2. taken[s] % 5 = 0
    <3>1. (taken[s] + 1) % 5 = 1
      BY <1>3, <2>1, PieceParts
    <3>. QED
      BY <1>3, <3>1
  <2>3. ~(k > 2)
    <3>1. SUFFICES ASSUME k > 2 PROVE FALSE
      OBVIOUS
    <3>2. 3 \in DOMAIN b /\ b[3] = Piece(s, taken[s] + 3)
      BY <1>3, <1>5, <1>6, <3>1
    <3>3. (taken[s] + 3) % 5 = 3
      BY <1>3, <2>2
    <3>4. b[3].part = 3
      BY <1>3, <3>2, <3>3, PieceParts
    <3>. QED
      BY <1>1, <3>2, <3>4 DEF HasLine
  <2>. QED
    BY <1>2, <1>3, <2>1, <2>2, <2>3 DEF TornRead
<1>8. ASSUME ~LineParses(b)
      PROVE  Scanned(b, command, size) = {} /\ ~Parses(b, command, size)
  <2>1. Scanned(b, command, size) = {}
    BY <1>8 DEF Scanned
  <2>2. DOMAIN b # {}
    BY <1>3, <1>5
  <2>. QED
    BY <2>1, <2>2 DEF Parses
<1>. QED
  BY <1>1, <1>7, <1>8

\* A read answers with one reply at most, and only at the end of a request
\* or of a request line with its CR.
LEMMA OneReplyAtMost ==
    ASSUME IInv, NEW s \in Session,
           NEW k \in ReadLengths(s, BufferSize - Len(BufAtEntry)),
           \/ Wait(s, BufferWith(s, k))
           \/ Reject(s, BufferWith(s, k))
           \/ Dispatch(s, BufferWith(s, k))
    PROVE  /\ \A t \in Session \ {s} : replies'[t] = replies[t]
           /\ \/ replies'[s] = replies[s]
              \/ /\ Len(replies'[s]) = Len(replies[s]) + 1
                 /\ (taken[s] + k) % 5 = 0 \/ TornRead(s, k)
<1> DEFINE b == BufferWith(s, k)
<1>1. replies \in [Session -> Seq(Reply)]
  BY DEF IInv, TypeOK
<1>2. CASE Wait(s, b)
  BY <1>2 DEF Wait
<1>3. CASE Reject(s, b)
  <2>1. PICK answer : replies' = [replies EXCEPT ![s] = Append(@, answer)]
    BY <1>3 DEF Reject
  <2>2. (taken[s] + k) % 5 = 0
    BY <1>3, HeaderEndsRequest DEF Reject
  <2>3. replies'[s] = Append(replies[s], answer)
    BY <1>1, <2>1
  <2>4. Len(replies'[s]) = Len(replies[s]) + 1
    BY <1>1, <2>3
  <2>. QED
    BY <1>1, <2>1, <2>2, <2>4
<1>4. CASE Dispatch(s, b)
  <2> DEFINE command == CommandAfter(s, b)
  <2> DEFINE size == Size(b, Len(b)) - Size(b, Len(BufAtEntry))
  <2>1. PICK number \in SeqNumbers(b, command, size, cseq[s]) :
            replies' = IF Parses(b, command, size)
                       THEN [replies EXCEPT ![s] =
                                @ \o Answers(command, number, Requested(Head(b)).uri)]
                       ELSE replies
    BY <1>4 DEF Dispatch
  <2> HIDE DEF command, size, b
  <2>2. CASE ~Parses(b, command, size)
    BY <2>1, <2>2
  <2>3. CASE Parses(b, command, size)
    <3>1. HeaderEnds(b) \/ TornRead(s, k)
      BY <1>4, <2>3, NoLineNoRequest DEF Dispatch, b
    <3>2. (taken[s] + k) % 5 = 0 \/ TornRead(s, k)
      BY <3>1, HeaderEndsRequest DEF b
    <3>3. PICK answers : /\ answers = Answers(command, number, Requested(Head(b)).uri)
                         /\ replies'[s] = replies[s] \o answers
                         /\ \A t \in Session \ {s} : replies'[t] = replies[t]
      BY <1>1, <2>1, <2>3
    <3>4. answers \in Seq(Reply) /\ Len(answers) \in 0 .. 1
      <4>1. command \in Known \cup {"UNKNOWN"}
        BY CommandIsOwn DEF command, b
      <4>2. number \in Nat
        BY BufferAfterRead, ParsedTypes DEF b
      <4>3. Len(answers) \in 0 .. 1
        BY <3>3 DEF Answers
      <4>. QED
        BY <3>3, <4>1, <4>2, <4>3, AnswersAreReplies
    <3>5. replies[s] \in Seq(Reply)
      BY <1>1
    <3>6. Len(replies'[s]) = Len(replies[s]) + Len(answers)
      BY <3>3, <3>4, <3>5, ConcatProperties
    <3>7. CASE Len(answers) = 0
      <4>1. answers = <<>>
        BY <3>4, <3>7, EmptySeq
      <4>2. replies'[s] = replies[s]
        BY <3>3, <3>5, <4>1, ConcatEmptySeq
      <4>. QED
        BY <3>3, <4>2
    <3>8. CASE Len(answers) = 1
      BY <3>2, <3>3, <3>6, <3>8
    <3>. QED
      BY <3>4, <3>7, <3>8
  <2>. QED
    BY <2>2, <2>3 DEF b
<1>. QED
  BY <1>2, <1>3, <1>4

LEMMA PastAnEnd ==
    ASSUME NEW from \in Nat, NEW k \in Nat, k > 0
    PROVE  /\ (from + k) % 5 = 0 => from \div 5 + 1 <= (from + k) \div 5
           /\ from \div 5 <= (from + k) \div 5
OBVIOUS

LEMMA NoSurplusStep == IInv /\ NoSurplusReply /\ [Next]_vars => NoSurplusReply'
<1> SUFFICES ASSUME IInv, NoSurplusReply, [Next]_vars
             PROVE  NoSurplusReply'
  OBVIOUS
<1>1. /\ taken \in [Session -> Nat] /\ torn \in [Session -> Nat]
      /\ replies \in [Session -> Seq(Reply)]
      /\ \A t \in Session : Len(replies[t]) \in Nat
      /\ \A t \in Session : Len(replies[t]) <= taken[t] \div 5 + torn[t]
  BY DEF IInv, TypeOK, NoSurplusReply
<1>2. ASSUME NEW s \in Session, ReadData(s)
      PROVE  NoSurplusReply'
  <2>1. PICK k \in ReadLengths(s, BufferSize - Len(BufAtEntry)) :
            /\ \/ Wait(s, BufferWith(s, k))
               \/ Reject(s, BufferWith(s, k))
               \/ Dispatch(s, BufferWith(s, k))
            /\ taken' = [taken EXCEPT ![s] = @ + k]
            /\ torn' = IF Piece(s, taken[s] + k).part = 2
                       THEN [torn EXCEPT ![s] = @ + 1] ELSE torn
    BY <1>2 DEF ReadData, BufferWith
  <2>2. k \in Nat /\ k > 0
    BY BufferAfterRead
  <2>3. /\ taken'[s] = taken[s] + k
        /\ torn'[s] \in Nat /\ torn'[s] >= torn[s]
        /\ \A t \in Session \ {s} :
              taken'[t] = taken[t] /\ torn'[t] = torn[t] /\ replies'[t] = replies[t]
    BY <1>1, <2>1, OneReplyAtMost
  <2>4. (taken[s] + k) % 5 = 0 => taken[s] \div 5 + 1 <= (taken[s] + k) \div 5
    BY <1>1, <2>2, PastAnEnd
  <2>5. taken[s] \div 5 <= (taken[s] + k) \div 5
    BY <1>1, <2>2, PastAnEnd
  <2>6. TornRead(s, k) => torn'[s] = torn[s] + 1
    <3>1. SUFFICES ASSUME TornRead(s, k) PROVE torn'[s] = torn[s] + 1
      OBVIOUS
    <3>2. k = 2 /\ taken[s] % 5 = 0 /\ taken[s] \in Nat
      BY <1>1, <3>1 DEF TornRead
    <3>3. taken[s] + k \in Nat /\ taken[s] + k > 0 /\ (taken[s] + k) % 5 = 2
      BY <3>2
    <3>4. Piece(s, taken[s] + k).part = 2
      BY <3>3, PieceParts
    <3>. QED
      BY <1>1, <2>1, <3>4
  <2>7. \/ Len(replies'[s]) = Len(replies[s])
        \/ Len(replies'[s]) = Len(replies[s]) + 1 /\ ((taken[s] + k) % 5 = 0 \/ TornRead(s, k))
    BY <2>1, OneReplyAtMost
  <2>8. Len(replies'[s]) <= taken'[s] \div 5 + torn'[s]
    <3>1. /\ taken[s] \div 5 \in Int /\ (taken[s] + k) \div 5 \in Int
          /\ torn[s] \in Nat /\ Len(replies[s]) \in Nat
          /\ Len(replies[s]) <= taken[s] \div 5 + torn[s]
      BY <1>1, <2>2
    <3> DEFINE before == taken[s] \div 5
    <3> DEFINE after == (taken[s] + k) \div 5
    <3> DEFINE ends == (taken[s] + k) % 5 = 0
    <3>2. /\ before \in Int /\ after \in Int /\ before <= after
          /\ ends => before + 1 <= after
          /\ Len(replies[s]) <= before + torn[s]
          /\ \/ Len(replies'[s]) = Len(replies[s])
             \/ Len(replies'[s]) = Len(replies[s]) + 1 /\ (ends \/ TornRead(s, k))
      BY <2>4, <2>5, <2>7, <3>1
    <3>3. taken'[s] \div 5 = after
      BY <2>3
    <3> HIDE DEF before, after, ends
    <3>4. CASE Len(replies'[s]) = Len(replies[s])
      BY <2>3, <3>1, <3>2, <3>3, <3>4
    <3>5. CASE Len(replies'[s]) = Len(replies[s]) + 1 /\ ends
      BY <2>3, <3>1, <3>2, <3>3, <3>5
    <3>6. CASE Len(replies'[s]) = Len(replies[s]) + 1 /\ torn'[s] = torn[s] + 1
      BY <3>1, <3>2, <3>3, <3>6
    <3>. QED
      BY <2>6, <3>2, <3>4, <3>5, <3>6
  <2>. QED
    BY <1>1, <2>3, <2>8 DEF NoSurplusReply
<1>3. ASSUME UNCHANGED <<taken, torn, replies>>
      PROVE  NoSurplusReply'
  BY <1>3 DEF NoSurplusReply
<1>. QED
  BY <1>2, <1>3
     DEF Next, HandleRequests, ReadClosed, ReadTimeout, AddSession, Send, Close, vars, serverVars

\* No read ends between the CR and the LF of a request line, of its own or for
\* lack of room.
LinesWhole == 2 \notin Cuts /\ BufferSize > 2

LEMMA NoTornRead ==
    ASSUME LinesWhole, IInv, NEW s \in Session,
           NEW k \in ReadLengths(s, BufferSize - Len(BufAtEntry))
    PROVE  ~TornRead(s, k)
<1> SUFFICES ASSUME TornRead(s, k) PROVE FALSE
  OBVIOUS
<1>1. k = 2 /\ taken[s] % 5 = 0 /\ taken[s] \in Nat /\ BufAtEntry = <<>>
  BY DEF TornRead, IInv, TypeOK
<1>2. k # BufferSize - Len(BufAtEntry)
  BY <1>1, ReadAssumption DEF LinesWhole
<1>3. Len(sent[s]) \in Nat
  BY DEF IInv, TypeOK
<1>4. k # Unread(s)
  BY <1>1, <1>3 DEF Unread
<1>5. Piece(s, taken[s] + k).part = 2
  <2>1. taken[s] + k \in Nat /\ taken[s] + k > 0 /\ (taken[s] + k) % 5 = 2
    BY <1>1
  <2>. QED
    BY <2>1, PieceParts
<1>6. 2 \in Cuts \cup {5}
  BY <1>2, <1>4, <1>5 DEF ReadLengths
<1>. QED
  BY <1>6 DEF LinesWhole

LEMMA WholeHeaderStep ==
    ASSUME LinesWhole, IInv, WholeHeaderFirst, [Next]_vars
    PROVE  WholeHeaderFirst'
<1>1. /\ taken \in [Session -> Nat] /\ replies \in [Session -> Seq(Reply)]
      /\ \A t \in Session : Len(replies[t]) \in Nat
      /\ \A t \in Session : Len(replies[t]) <= taken[t] \div 5
  BY DEF IInv, TypeOK, WholeHeaderFirst
<1>2. ASSUME NEW s \in Session, ReadData(s)
      PROVE  WholeHeaderFirst'
  <2>1. PICK k \in ReadLengths(s, BufferSize - Len(BufAtEntry)) :
            /\ \/ Wait(s, BufferWith(s, k))
               \/ Reject(s, BufferWith(s, k))
               \/ Dispatch(s, BufferWith(s, k))
            /\ taken' = [taken EXCEPT ![s] = @ + k]
    BY <1>2 DEF ReadData, BufferWith
  <2>2. k \in Nat /\ k > 0
    BY BufferAfterRead
  <2>3. /\ taken'[s] = taken[s] + k
        /\ \A t \in Session \ {s} : taken'[t] = taken[t] /\ replies'[t] = replies[t]
    BY <1>1, <2>1, OneReplyAtMost
  <2>4. \/ Len(replies'[s]) = Len(replies[s])
        \/ Len(replies'[s]) = Len(replies[s]) + 1 /\ (taken[s] + k) % 5 = 0
    BY <2>1, OneReplyAtMost, NoTornRead
  <2>5. /\ (taken[s] + k) % 5 = 0 => taken[s] \div 5 + 1 <= (taken[s] + k) \div 5
        /\ taken[s] \div 5 <= (taken[s] + k) \div 5
    BY <1>1, <2>2, PastAnEnd
  <2>6. Len(replies'[s]) <= taken'[s] \div 5
    <3> DEFINE before == taken[s] \div 5
    <3> DEFINE after == (taken[s] + k) \div 5
    <3> DEFINE ends == (taken[s] + k) % 5 = 0
    <3>1. /\ before \in Int /\ after \in Int /\ before <= after
          /\ ends => before + 1 <= after
          /\ Len(replies[s]) \in Nat /\ Len(replies[s]) <= before
          /\ \/ Len(replies'[s]) = Len(replies[s])
             \/ Len(replies'[s]) = Len(replies[s]) + 1 /\ ends
      BY <1>1, <2>2, <2>4, <2>5
    <3>2. taken'[s] \div 5 = after
      BY <2>3
    <3> HIDE DEF before, after, ends
    <3>. QED
      BY <3>1, <3>2
  <2>. QED
    BY <1>1, <2>3, <2>6 DEF WholeHeaderFirst
<1>3. ASSUME UNCHANGED <<taken, replies>>
      PROVE  WholeHeaderFirst'
  BY <1>3 DEF WholeHeaderFirst
<1>. QED
  BY <1>2, <1>3
     DEF Next, HandleRequests, ReadClosed, ReadTimeout, AddSession, Send, Close, vars, serverVars

-----------------------------------------------------------------------------

\* IInv holds throughout.
THEOREM Invariance == Spec => []IInv
BY InitIInv, NextIInv, PTL DEF Spec

\* The variables keep their types.
THEOREM TypeCorrect == Spec => []TypeOK
<1>1. IInv => TypeOK
  BY DEF IInv
<1>. QED
  BY <1>1, Invariance, PTL

\* The shared buffer does not overflow, and it is empty whenever the next
\* bytes are going to be taken for the start of a request.
THEOREM BufferStaysSound == Spec => []BufferSound
<1>1. IInv => BufferSound
  BY DEF IInv
<1>. QED
  BY <1>1, Invariance, PTL

\* No session acts on a command its client did not send.
THEOREM SessionsActOnOwnCommands == Spec => []OwnCommandsOnly
<1>1. IInv => OwnCommandsOnly
  BY DEF IInv
<1>. QED
  BY <1>1, Invariance, PTL

\* However reads cut the requests of the clients and mix them in the shared
\* buffer, no client gets more replies than it has sent requests that were read
\* to their end, and one for each read that ended between the CR and the LF of
\* one of its request lines.
THEOREM RepliesNeverExceedRequests == Spec => []NoSurplusReply
<1>1. Init => NoSurplusReply
  BY DEF Init, NoSurplusReply
<1>. QED
  BY <1>1, Invariance, NoSurplusStep, PTL DEF Spec

\* When no read ends between the CR and the LF of a request line, no request is
\* answered before its last piece was read, however reads cut it elsewhere and
\* mix it with those of other clients.
THEOREM NothingAnsweredEarly == LinesWhole => (Spec => []WholeHeaderFirst)
<1> SUFFICES ASSUME LinesWhole
             PROVE  Spec => []WholeHeaderFirst
  OBVIOUS
<1>1. Init => WholeHeaderFirst
  BY DEF Init, WholeHeaderFirst
<1>2. IInv /\ WholeHeaderFirst /\ [Next]_vars => WholeHeaderFirst'
  BY WholeHeaderStep
<1>. QED
  BY <1>1, <1>2, Invariance, PTL DEF Spec
=============================================================================
