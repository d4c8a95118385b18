------------------------- MODULE RtspDialogueProofs -------------------------
(***************************************************************************)
(* What holds of the sessions when clients await their answers (Lockstep)  *)
(* and are heard one request after the other (Apart), for every set of     *)
(* sessions and requests and every way of cutting requests into reads but  *)
(* between the CR and the LF of a request line (LinesWhole):               *)
(* each answer is of the type of the request whose number it bears.        *)
(*                                                                         *)
(* The argument: no client is ever more than one request ahead of what was *)
(* read from it (InStep, by NothingAnsweredEarly), and whatever the        *)
(* shared buffer holds is the end of what was read of one client's latest  *)
(* request (InHand), from its request line on once the method is known.    *)
(*                                                                         *)
(* When moreover a read stops behind the CSeq header if anywhere, requests *)
(* are read in halves (ByHalves), the parser finds the number of the one   *)
(* in hand, and each step is one of RtspDialogue or changes nothing of it. *)
(***************************************************************************)
EXTENDS RtspSessionProofs

\* The pieces read of a client's latest request; 5 when it has sent none.
Progress(s) == taken[s] - 5 * (Len(sent[s]) - 1)

\* b holds the last of the first p pieces of the latest request of s.
Holding(s, b, p) ==
    /\ Len(b) <= p
    /\ \A i \in DOMAIN b :
          b[i] = [from |-> s, no |-> Len(sent[s]), part |-> p - Len(b) + i]

\* The method that s asks for in its latest request.
Asking(s) == sent[s][Len(sent[s])].method

InStep == \A s \in Session : Progress(s) \in 0 .. 5

InHandOf(s) ==
    /\ phase[s] = "live"
    /\ Progress(s) \in 1 .. 4
    /\ Holding(s, buf, Progress(s))
    /\ hdr = "method" => Len(buf) = Progress(s) /\ cmd[s] = Asking(s)

InHand == buf # <<>> => \E s \in Session : InHandOf(s)

\* AnswersCurrentRequest, and the number is that of a request.
AnswersMatch ==
    \A s \in Session : \A i \in DOMAIN replies[s] :
        replies[s][i].code # 400 =>
            /\ replies[s][i].cseq \in DOMAIN sent[s]
            /\ replies[s][i].method = sent[s][replies[s][i].cseq].method

DInv ==
    /\ IInv
    /\ WholeHeaderFirst
    /\ InStep
    /\ InHand
    /\ AnswersMatch

-----------------------------------------------------------------------------
(* The latest request of a client *)

LEMMA Quotient ==
    ASSUME NEW n \in Nat, NEW x \in 0 .. 4
    PROVE  /\ (5 * n + x) \div 5 = n
           /\ (5 * n + x) % 5 = x
OBVIOUS

LEMMA ProgressRange ==
    ASSUME IInv, InStep, NEW s \in Session
    PROVE  /\ Progress(s) \in 0 .. 5
           /\ Len(sent[s]) \in Nat /\ taken[s] \in Nat
           /\ taken[s] = 5 * (Len(sent[s]) - 1) + Progress(s)
           /\ Unread(s) = 5 - Progress(s)
           /\ Progress(s) < 5 => Len(sent[s]) > 0
           /\ taken[s] % 5 # 0 <=> Progress(s) \in 1 .. 4
<1>1. Len(sent[s]) \in Nat /\ taken[s] \in Nat /\ taken[s] <= 5 * Len(sent[s])
  BY DEF IInv, TypeOK, ReadIsSent
<1>2. Progress(s) \in 0 .. 5 /\ taken[s] = 5 * (Len(sent[s]) - 1) + Progress(s)
  BY <1>1 DEF InStep, Progress
<1>3. Unread(s) = 5 - Progress(s)
  BY <1>1, <1>2 DEF Unread
<1>4. Progress(s) < 5 => Len(sent[s]) > 0
  BY <1>1, <1>2
<1>5. taken[s] % 5 # 0 <=> Progress(s) \in 1 .. 4
  <2>1. CASE Progress(s) = 5
    <3>1. taken[s] = 5 * Len(sent[s])
      BY <1>1, <1>2, <2>1
    <3>2. \A n \in Nat : (5 * n) % 5 = 0
      OBVIOUS
    <3>3. taken[s] % 5 = 0
      BY Zenon, <1>1, <3>1, <3>2
    <3>. QED
      BY <2>1, <3>3
  <2>2. CASE Progress(s) \in 0 .. 4
    <3>1. Len(sent[s]) - 1 \in Nat
      BY <1>1, <1>4, <2>2
    <3>2. taken[s] % 5 = Progress(s)
      BY <1>2, <2>2, <3>1, Quotient
    <3>. QED
      BY <2>2, <3>2
  <2>. QED
    BY <1>2, <2>1, <2>2
<1>. QED
  BY <1>1, <1>2, <1>3, <1>4, <1>5

\* What is read next belongs to it.
LEMMA PieceOfLatest ==
    ASSUME IInv, InStep, NEW s \in Session, NEW j \in 1 .. 5, Progress(s) + j <= 5
    PROVE  Piece(s, taken[s] + j) =
               [from |-> s, no |-> Len(sent[s]), part |-> Progress(s) + j]
<1>1. /\ Progress(s) \in 0 .. 4 /\ Len(sent[s]) - 1 \in Nat
      /\ taken[s] = 5 * (Len(sent[s]) - 1) + Progress(s)
  BY ProgressRange
<1>2. PICK x \in 0 .. 4 : x = Progress(s) + j - 1
  BY <1>1
<1> DEFINE before == 5 * (Len(sent[s]) - 1)
<1>3. (taken[s] + j) - 1 = before + x
  <2>1. ASSUME NEW a \in Int, NEW q \in Int
        PROVE  ((a + q) + j) - 1 = a + (q + j - 1)
    OBVIOUS
  <2>2. before \in Int /\ Progress(s) \in Int /\ taken[s] = before + Progress(s)
    BY <1>1
  <2> HIDE DEF before
  <2>. QED
    BY <1>2, <2>1, <2>2
<1>4. /\ ((taken[s] + j) - 1) \div 5 = Len(sent[s]) - 1
      /\ ((taken[s] + j) - 1) % 5 = x
  BY <1>1, <1>3, Quotient
<1>5. x + 1 = Progress(s) + j /\ (Len(sent[s]) - 1) + 1 = Len(sent[s])
  BY <1>1, <1>2
<1>. QED
  BY <1>4, <1>5 DEF Piece

\* The buffer after a read: the end of what has come of the latest request of
\* the client read from, all of it when the method is known.
LEMMA RequestInHand ==
    ASSUME DInv, Apart, NEW s \in Session, Interrupted \subseteq {s},
           NEW k \in ReadLengths(s, BufferSize - Len(BufAtEntry))
    PROVE  LET b == BufferWith(s, k)
               p == Progress(s) + k
           IN  /\ p \in 1 .. 5
               /\ Len(b) \in 1 .. p
               /\ Holding(s, b, p)
               /\ HdrAtEntry = "unknown" => Len(b) = k
               /\ HdrAtEntry = "method" => Len(b) = p /\ cmd[s] = Asking(s)
<1> USE DEF DInv
<1> DEFINE b == BufferWith(s, k)
<1> DEFINE p == Progress(s) + k
<1> DEFINE m == Len(BufAtEntry)
<1> DEFINE n == Len(sent[s])
<1>1. /\ k \in Nat /\ k > 0 /\ k <= Unread(s)
  BY BufferAfterRead, ProgressRange DEF Unread
<1>2. p \in 1 .. 5 /\ k \in 1 .. 5 /\ n \in Nat /\ n > 0 /\ Progress(s) \in 0 .. 4
  BY <1>1, ProgressRange
<1>3. /\ m \in Nat /\ Len(b) = m + k /\ b \in Seq(PieceType)
      /\ \A i \in 1 .. m : b[i] = BufAtEntry[i]
      /\ \A i \in 1 .. k : b[m + i] = Piece(s, taken[s] + i)
  BY PiecesRead, BufferAfterRead
<1> HIDE DEF b
<1>4. DOMAIN b = 1 .. m + k
  BY <1>2, <1>3
<1>5. ASSUME NEW i \in 1 .. k
      PROVE  b[m + i] = [from |-> s, no |-> n, part |-> Progress(s) + i]
  <2>1. i \in 1 .. 5 /\ Progress(s) + i <= 5
    BY <1>2
  <2>. QED
    BY <1>3, <2>1, PieceOfLatest
<1>6. CASE BufAtEntry = <<>>
  <2>1. m = 0 /\ HdrAtEntry = "unknown"
    BY <1>6 DEF HdrAtEntry
  <2>2. ASSUME NEW i \in DOMAIN b
        PROVE  b[i] = [from |-> s, no |-> n, part |-> p - Len(b) + i]
    <3>1. i \in 1 .. k /\ m + i = i /\ p - Len(b) + i = Progress(s) + i
      BY <1>2, <1>3, <1>4, <2>1
    <3>. QED
      BY <1>5, <3>1
  <2>3. Len(b) = k /\ Len(b) \in 1 .. p
    BY <1>2, <1>3, <2>1
  <2>. QED
    BY <1>2, <2>1, <2>2, <2>3 DEF Holding, b
<1>7. CASE BufAtEntry # <<>>
  <2>1. BufAtEntry = buf /\ HdrAtEntry = hdr /\ buf # <<>>
    BY <1>7 DEF BufAtEntry, HdrAtEntry
  <2>2. PICK t \in Session : InHandOf(t)
    BY <2>1 DEF InHand
  <2>3. t = s
    <3>1. t \in Interrupted
      BY <2>2, ProgressRange DEF Interrupted, InHandOf
    <3>. QED
      BY <3>1
  <2>4. /\ m <= Progress(s)
        /\ \A i \in 1 .. m :
              BufAtEntry[i] = [from |-> s, no |-> n, part |-> Progress(s) - m + i]
    <3>1. DOMAIN BufAtEntry = 1 .. m
      BY EntryKeepsBuffer, LenProperties
    <3>. QED
      BY <2>1, <2>2, <2>3, <3>1 DEF InHandOf, Holding
  <2>5. ASSUME NEW i \in DOMAIN b
        PROVE  b[i] = [from |-> s, no |-> n, part |-> p - Len(b) + i]
    <3>1. p - Len(b) + i = Progress(s) - m + i
      BY <1>2, <1>3, <1>4
    <3>2. CASE i \in 1 .. m
      BY <1>3, <2>4, <3>1, <3>2
    <3>3. CASE i \notin 1 .. m
      <4>1. PICK j \in 1 .. k : i = m + j
        <5>1. i - m \in 1 .. k /\ i = m + (i - m)
          BY <1>2, <1>3, <1>4, <3>3
        <5>. QED
          BY <5>1
      <4>2. Progress(s) - m + i = Progress(s) + j
        BY <1>2, <1>3, <4>1
      <4>. QED
        BY <1>5, <3>1, <4>1, <4>2
    <3>. QED
      BY <3>2, <3>3
  <2>6. Len(b) \in 1 .. p
    BY <1>2, <1>3, <2>4
  <2>7. HdrAtEntry # "unknown"
    BY <1>7, EntryKeepsBuffer
  <2>8. HdrAtEntry = "method" => Len(b) = p /\ cmd[s] = Asking(s)
    BY <1>2, <1>3, <2>1, <2>2, <2>3 DEF InHandOf
  <2>. QED
    BY <1>2, <2>5, <2>6, <2>7, <2>8 DEF Holding, b
<1>. QED
  BY <1>6, <1>7

\* What a request can ask for.
LEMMA MethodsAsked ==
    ASSUME IInv, NEW s \in Session, Len(sent[s]) > 0
    PROVE  Asking(s) \in Known \cup {"other"} /\ Len(sent[s]) \in DOMAIN sent[s]
<1>1. sent[s] \in Seq(Requests) /\ Len(sent[s]) \in Nat
  BY DEF IInv, TypeOK
<1>2. Len(sent[s]) \in DOMAIN sent[s] /\ sent[s][Len(sent[s])] \in Requests
  BY <1>1
<1>. QED
  BY <1>2, RequestAssumption DEF Asking, Request

\* Once the method is known, the buffer holds all that has come of the request,
\* and the command is the one it asks for.
LEMMA WholeRequest ==
    ASSUME DInv, Apart, NEW s \in Session, Interrupted \subseteq {s},
           NEW k \in ReadLengths(s, BufferSize - Len(BufAtEntry)),
           Classified(BufferWith(s, k)) = "method"
    PROVE  LET b == BufferWith(s, k)
           IN  /\ Len(b) = Progress(s) + k
               /\ CommandAfter(s, b) = Asking(s)
               /\ Asking(s) \in Known
<1> DEFINE b == BufferWith(s, k)
<1> DEFINE p == Progress(s) + k
<1>1. CASE HdrAtEntry = "method"
  <2>1. Len(b) = p /\ cmd[s] = Asking(s)
    BY <1>1, RequestInHand
  <2>2. CommandAfter(s, b) = Asking(s)
    BY <1>1, <2>1 DEF CommandAfter
  <2>3. Asking(s) \in Known
    <3>1. Len(sent[s]) > 0
      BY ProgressRange, BufferAfterRead DEF DInv, Unread
    <3>2. cmd[s] \in Known \cup {"UNKNOWN"} /\ Asking(s) \in Known \cup {"other"}
      BY <3>1, MethodsAsked DEF DInv, IInv, TypeOK
    <3>. QED
      BY <2>1, <3>2 DEF Known
  <2>. QED
    BY <2>1, <2>2, <2>3
<1>2. CASE HdrAtEntry # "method"
  <2>1. HdrAtEntry = "unknown" /\ HasLine(b) /\ MethodOf(b) # "UNKNOWN"
    BY <1>2 DEF Classified
  <2>2. Head(b).part = 1 /\ MethodOf(b) = Requested(Head(b)).method /\ MethodOf(b) \in Known
    BY <2>1 DEF MethodOf
  <2>3. p \in 1 .. 5 /\ Len(b) \in 1 .. p /\ Holding(s, b, p) /\ b \in Seq(PieceType)
    BY RequestInHand, BufferAfterRead DEF DInv
  <2>4. Head(b) = [from |-> s, no |-> Len(sent[s]), part |-> p - Len(b) + 1]
    <3>1. Head(b) = b[1] /\ 1 \in DOMAIN b
      BY <2>3
    <3>. QED
      BY <2>3, <3>1 DEF Holding
  <2>5. Len(b) = p
    BY <2>2, <2>3, <2>4
  <2>6. CommandAfter(s, b) = Asking(s)
    BY <2>1, <2>2, <2>4 DEF CommandAfter, Requested, Asking
  <2>. QED
    BY <2>1, <2>2, <2>5, <2>6 DEF CommandAfter
<1>. QED
  BY <1>1, <1>2

\* When all of a request is there and parses, m_CSeq is its sequence number.
LEMMA NumberIsCurrent ==
    ASSUME NEW s \in Session, NEW b \in Seq(PieceType), Len(b) = 5, Holding(s, b, 5),
           NEW command, NEW size, Parses(b, command, size),
           NEW number \in SeqNumbers(b, command, size, cseq[s])
    PROVE  number = Len(sent[s])
<1>1. DOMAIN b = 1 .. 5 /\ Scanned(b, command, size) = 1 .. 5
  BY DEF Parses
<1>2. ASSUME NEW i \in 1 .. 5
      PROVE  b[i].part = i /\ b[i].no = Len(sent[s])
  <2>1. b[i] = [from |-> s, no |-> Len(sent[s]), part |-> 5 - 5 + i]
    BY <1>1 DEF Holding
  <2>2. 5 - 5 + i = i
    OBVIOUS
  <2>. QED
    BY <2>1, <2>2
<1>3. Numbered(b, command, size) = {3}
  BY <1>1, <1>2 DEF Numbered, NumberLine
<1>4. SeqNumbers(b, command, size, cseq[s]) = {b[i].no : i \in LastOf({3})}
  BY <1>3 DEF SeqNumbers
<1>5. LastOf({3}) \subseteq {3}
  BY DEF LastOf
<1>. QED
  BY <1>2, <1>4, <1>5

LEMMA ReadDataKeepsDInv ==
    ASSUME DInv, Apart, LinesWhole, NEW s \in Session, ReadData(s)
    PROVE  InStep' /\ InHand' /\ AnswersMatch'
<1>1. PICK k \in ReadLengths(s, BufferSize - Len(BufAtEntry)) :
          /\ \/ Wait(s, BufferWith(s, k))
             \/ Reject(s, BufferWith(s, k))
             \/ Dispatch(s, BufferWith(s, k))
          /\ taken' = [taken EXCEPT ![s] = @ + k]
  BY DEF ReadData, BufferWith
<1>2. UNCHANGED <<sent, closed>> /\ phase[s] = "live" /\ Interrupted \subseteq {s}
  BY DEF ReadData, clientVars
<1> DEFINE b == BufferWith(s, k)
<1> DEFINE p == Progress(s) + k
<1>3. /\ p \in 1 .. 5 /\ Len(b) \in 1 .. p /\ Holding(s, b, p) /\ b \in Seq(PieceType)
      /\ k \in Nat /\ DOMAIN b = 1 .. Len(b)
  BY <1>2, RequestInHand, BufferAfterRead DEF DInv
<1>4. /\ taken'[s] = taken[s] + k
      /\ \A t \in Session \ {s} : taken'[t] = taken[t]
  BY <1>1 DEF DInv, IInv, TypeOK
<1>5. Progress(s)' = p /\ \A t \in Session \ {s} : Progress(t)' = Progress(t)
  <2>1. taken[s] \in Nat /\ Len(sent[s]) \in Nat
    BY DEF DInv, IInv, TypeOK
  <2>. QED
    BY <1>2, <1>3, <1>4, <2>1 DEF Progress
<1>6. InStep'
  BY <1>3, <1>5 DEF DInv, InStep
<1>7. HeaderEnds(b) <=> p = 5
  <2>1. b[Len(b)].part = p - Len(b) + Len(b)
    BY <1>3 DEF Holding
  <2>. QED
    BY <1>3, <2>1 DEF HeaderEnds
<1> HIDE DEF b, p
<1>8. InHand'
  <2>1. CASE Wait(s, b)
    <3>1. buf' = b /\ hdr' = Classified(b) /\ phase' = phase /\ p # 5
      BY <1>7, <2>1 DEF Wait
    <3>2. cmd'[s] = CommandAfter(s, b)
      BY <2>1 DEF Wait, DInv, IInv, TypeOK
    <3>3. Holding(s, buf, Progress(s))'
      BY <1>2, <1>3, <1>5, <3>1 DEF Holding
    <3>4. Progress(s)' \in 1 .. 4 /\ phase'[s] = "live"
      BY <1>2, <1>3, <1>5, <3>1
    <3>5. hdr' = "method" => Len(buf') = Progress(s)' /\ cmd'[s] = Asking(s)'
      BY <1>2, <1>5, <3>1, <3>2, WholeRequest DEF Asking, b, p
    <3>6. InHandOf(s)'
      BY <3>3, <3>4, <3>5 DEF InHandOf
    <3>. QED
      BY <3>6 DEF InHand
  <2>2. CASE Reject(s, b) \/ Dispatch(s, b)
    BY <2>2 DEF Reject, Dispatch, InHand
  <2>. QED
    BY <1>1, <2>1, <2>2 DEF b
<1>9. ASSUME \A t \in Session \ {s} : replies'[t] = replies[t],
             \A i \in DOMAIN replies'[s] :
                 \/ i \in DOMAIN replies[s] /\ replies'[s][i] = replies[s][i]
                 \/ replies'[s][i].code = 400
                 \/ /\ replies'[s][i].cseq = Len(sent[s])
                    /\ replies'[s][i].method = Asking(s)
      PROVE  AnswersMatch'
  <2>1. Len(sent[s]) \in DOMAIN sent[s]
    BY <1>3, ProgressRange, MethodsAsked, BufferAfterRead
       DEF DInv, p, IInv, TypeOK, Unread, ReadLengths
  <2>. QED
    BY <1>2, <1>9, <2>1 DEF DInv, AnswersMatch, Asking
<1>10. AnswersMatch'
  <2>1. replies \in [Session -> Seq(Reply)]
    BY DEF DInv, IInv, TypeOK
  <2>2. CASE Wait(s, b)
    BY <1>9, <2>2 DEF Wait
  <2>3. CASE Reject(s, b)
    <3>1. replies' = [replies EXCEPT ![s] =
              Append(@, [code |-> 400, method |-> "UNKNOWN", cseq |-> cseq[s]])]
      BY <2>3 DEF Reject
    <3>2. replies'[s] = Append(replies[s], [code |-> 400, method |-> "UNKNOWN", cseq |-> cseq[s]])
      BY <2>1, <3>1
    <3>3. \A i \in DOMAIN replies'[s] :
             \/ i \in DOMAIN replies[s] /\ replies'[s][i] = replies[s][i]
             \/ replies'[s][i].code = 400
      BY <2>1, <3>2
    <3>. QED
      BY <1>9, <2>1, <3>1, <3>3
  <2>4. CASE Dispatch(s, b)
    <3> DEFINE command == CommandAfter(s, b)
    <3> DEFINE size == Size(b, Len(b)) - Size(b, Len(BufAtEntry))
    <3>1. PICK number \in SeqNumbers(b, command, size, cseq[s]) :
              replies' = IF Parses(b, command, size)
                         THEN [replies EXCEPT ![s] =
                                  @ \o Answers(command, number, Requested(Head(b)).uri)]
                         ELSE replies
      BY <2>4 DEF Dispatch
    <3> HIDE DEF command, size
    <3>2. CASE ~Parses(b, command, size)
      BY <1>9, <3>1, <3>2
    <3>3. CASE Parses(b, command, size)
      <4>1. Classified(b) = "method" /\ HeaderEnds(b)
        BY <2>4, <3>3, NoLineNoRequest, NoTornRead DEF Dispatch, b, DInv
      <4>2. Len(b) = 5 /\ command = Asking(s) /\ p = 5
        BY <1>2, <1>7, <4>1, WholeRequest DEF b, p, command
      <4>3. number = Len(sent[s])
        BY <1>3, <3>1, <3>3, <4>2, NumberIsCurrent
      <4>4. PICK answers : /\ answers = Answers(command, number, Requested(Head(b)).uri)
                           /\ replies'[s] = replies[s] \o answers
                           /\ \A t \in Session \ {s} : replies'[t] = replies[t]
        BY <2>1, <3>1, <3>3
      <4>5. answers \in Seq(Reply)
        <5>1. command \in Known \cup {"UNKNOWN"} /\ number \in Nat
          BY <1>3, CommandIsOwn, ParsedTypes DEF b, command, DInv
        <5>. QED
          BY <4>4, <5>1, AnswersAreReplies
      <4>6. \A i \in 1 .. Len(answers) :
               answers[i].cseq = Len(sent[s]) /\ answers[i].method = Asking(s)
        BY <4>2, <4>3, <4>4 DEF Answers
      <4>7. ASSUME NEW i \in DOMAIN replies'[s]
            PROVE  \/ i \in DOMAIN replies[s] /\ replies'[s][i] = replies[s][i]
                   \/ /\ replies'[s][i].cseq = Len(sent[s])
                      /\ replies'[s][i].method = Asking(s)
        <5>1. /\ Len(replies[s]) \in Nat /\ Len(answers) \in Nat
              /\ DOMAIN replies[s] = 1 .. Len(replies[s])
              /\ DOMAIN replies'[s] = 1 .. Len(replies[s]) + Len(answers)
              /\ replies'[s][i] = IF i <= Len(replies[s]) THEN replies[s][i]
                                  ELSE answers[i - Len(replies[s])]
          BY <2>1, <4>4, <4>5, ConcatProperties
        <5>. QED
          BY <4>6, <5>1
      <4>. QED
        BY <1>9, <4>4, <4>7
    <3>. QED
      BY <3>2, <3>3
  <2>. QED
    BY <1>1, <2>2, <2>3, <2>4 DEF b
<1>. QED
  BY <1>6, <1>8, <1>10

\* A client sends only when all it has sent before was read.
LEMMA SendStartsRequest ==
    ASSUME Lockstep, IInv, WholeHeaderFirst, NEW s \in Session, Send(s)
    PROVE  /\ Progress(s) = 5 /\ Progress(s)' = 0
           /\ \A t \in Session \ {s} : sent'[t] = sent[t] /\ Progress(t)' = Progress(t)
<1>1. PICK r \in Requests : sent' = [sent EXCEPT ![s] = Append(@, r)]
  BY DEF Send
<1>2. UNCHANGED taken /\ Len(replies[s]) = Len(sent[s])
  BY DEF Send, serverVars
<1>3. /\ sent \in [Session -> Seq(Requests)] /\ taken[s] \in Nat
      /\ taken[s] <= 5 * Len(sent[s])
  BY DEF IInv, TypeOK, ReadIsSent
<1>4. Progress(s) = 5 /\ taken[s] = 5 * Len(sent[s])
  <2>1. Len(sent[s]) <= taken[s] \div 5 /\ Len(sent[s]) \in Nat
    BY <1>2, <1>3 DEF WholeHeaderFirst
  <2>2. ASSUME NEW l \in Nat, NEW m \in Nat, l <= m \div 5, m <= 5 * l
        PROVE  m = 5 * l
    BY <2>2
  <2>3. taken[s] = 5 * Len(sent[s])
    BY Zenon, <1>3, <2>1, <2>2
  <2>. QED
    BY <2>1, <2>3 DEF Progress
<1>5. sent'[s] = Append(sent[s], r) /\ \A t \in Session \ {s} : sent'[t] = sent[t]
  BY <1>1, <1>3
<1>6. Len(sent'[s]) = Len(sent[s]) + 1 /\ Len(sent[s]) \in Nat
  BY <1>3, <1>5
<1>7. Progress(s)' = taken[s] - 5 * ((Len(sent[s]) + 1) - 1)
  BY <1>2, <1>6 DEF Progress
<1>8. Progress(s)' = 0
  BY <1>4, <1>6, <1>7
<1>9. \A t \in Session \ {s} : Progress(t)' = Progress(t)
  BY <1>2, <1>5 DEF Progress
<1>. QED
  BY <1>4, <1>5, <1>8, <1>9

LEMMA NextDInv ==
    ASSUME Lockstep, Apart, LinesWhole, DInv, [Next]_vars
    PROVE  DInv'
<1> USE DEF DInv
<1>1. IInv' /\ WholeHeaderFirst'
  BY NextIInv, WholeHeaderStep
<1>2. ASSUME NEW s \in Session, ReadClosed(s)
      PROVE  InStep' /\ InHand' /\ AnswersMatch'
  <2>1. /\ buf' = BufAtEntry
        /\ UNCHANGED <<taken, replies, sent>>
    BY <1>2 DEF ReadClosed, clientVars
  <2>2. buf = <<>>
    <3>1. Interrupted = {}
      BY <1>2 DEF ReadClosed
    <3>. QED
      BY <3>1, ProgressRange DEF InHand, InHandOf, Interrupted
  <2>3. InHand'
    BY <2>1, <2>2 DEF InHand, BufAtEntry
  <2>4. InStep' /\ AnswersMatch'
    BY <2>1 DEF InStep, Progress, AnswersMatch
  <2>. QED
    BY <2>3, <2>4
<1>3. ASSUME NEW s \in Session, ReadTimeout(s)
      PROVE  InStep' /\ InHand' /\ AnswersMatch'
  <2>1. /\ buf' = BufAtEntry /\ hdr' = HdrAtEntry
        /\ UNCHANGED <<phase, cmd, taken, replies, sent>>
    BY <1>3 DEF ReadTimeout, clientVars
  <2>2. InHand'
    <3>1. CASE BufAtEntry = <<>>
      BY <2>1, <3>1 DEF InHand
    <3>2. CASE BufAtEntry # <<>>
      <4>1. buf' = buf /\ hdr' = hdr
        BY <2>1, <3>2 DEF BufAtEntry, HdrAtEntry
      <4>. QED
        BY <2>1, <4>1 DEF InHand, InHandOf, Holding, Progress, Asking
    <3>. QED
      BY <3>1, <3>2
  <2>3. InStep' /\ AnswersMatch'
    BY <2>1 DEF InStep, Progress, AnswersMatch
  <2>. QED
    BY <2>2, <2>3
<1>4. ASSUME NEW s \in Session, AddSession(s)
      PROVE  InStep' /\ InHand' /\ AnswersMatch'
  <2>1. /\ phase' = [phase EXCEPT ![s] = "live"]
        /\ UNCHANGED <<buf, hdr, cmd, taken, replies, sent>>
    BY <1>4 DEF AddSession, clientVars
  <2>2. \A t \in Session : phase[t] = "live" => phase'[t] = "live"
    BY <2>1 DEF IInv, TypeOK
  <2>3. InHand'
    BY <2>1, <2>2 DEF InHand, InHandOf, Holding, Progress, Asking
  <2>4. InStep' /\ AnswersMatch'
    BY <2>1 DEF InStep, Progress, AnswersMatch
  <2>. QED
    BY <2>3, <2>4
<1>5. ASSUME NEW s \in Session, Send(s)
      PROVE  InStep' /\ InHand' /\ AnswersMatch'
  <2>1. PICK r \in Requests : sent' = [sent EXCEPT ![s] = Append(@, r)]
    BY <1>5 DEF Send
  <2>2. /\ UNCHANGED <<buf, hdr, phase, cmd, taken, replies>>
        /\ Len(replies[s]) = Len(sent[s])
    BY <1>5 DEF Send, serverVars
  <2>3. sent \in [Session -> Seq(Requests)]
    BY DEF IInv, TypeOK
  <2>4. /\ Progress(s) = 5 /\ Progress(s)' = 0
        /\ \A t \in Session \ {s} : sent'[t] = sent[t] /\ Progress(t)' = Progress(t)
    BY <1>5, SendStartsRequest
  <2>6. InStep'
    BY <2>4 DEF InStep
  <2>7. InHand'
    <3> SUFFICES ASSUME buf # <<>>
                 PROVE  InHand'
      BY <2>2 DEF InHand
    <3>1. PICK t \in Session : InHandOf(t)
      BY DEF InHand
    <3>2. t # s
      BY <2>4, <3>1 DEF InHandOf
    <3>3. InHandOf(t)'
      BY <2>2, <2>4, <3>1, <3>2 DEF InHandOf, Holding, Asking
    <3>. QED
      BY <3>3 DEF InHand
  <2>8. AnswersMatch'
    <3>1. \A t \in Session : \A i \in DOMAIN sent[t] :
             i \in DOMAIN sent'[t] /\ sent'[t][i] = sent[t][i]
      BY <2>1, <2>3
    <3>. QED
      BY <2>2, <3>1 DEF AnswersMatch
  <2>. QED
    BY <2>6, <2>7, <2>8
<1>6. ASSUME UNCHANGED <<buf, hdr, phase, cmd, taken, replies, sent>>
      PROVE  InStep' /\ InHand' /\ AnswersMatch'
  BY <1>6 DEF InStep, InHand, InHandOf, Holding, Progress, Asking, AnswersMatch
<1>7. ASSUME NEW s \in Session, ReadData(s)
      PROVE  InStep' /\ InHand' /\ AnswersMatch'
  BY <1>7, ReadDataKeepsDInv
<1>8. ASSUME NEW s \in Session, Close(s)
      PROVE  InStep' /\ InHand' /\ AnswersMatch'
  BY <1>6, <1>8 DEF Close, serverVars
<1>9. ASSUME UNCHANGED vars
      PROVE  InStep' /\ InHand' /\ AnswersMatch'
  <2>1. UNCHANGED <<buf, hdr, phase, cmd, taken, replies, sent>>
    BY <1>9 DEF vars
  <2>. QED
    BY <1>6, <2>1
<1>. QED
  BY <1>1, <1>2, <1>3, <1>4, <1>5, <1>7, <1>8, <1>9 DEF Next, HandleRequests

LEMMA InitDInv == Init => DInv
<1> SUFFICES ASSUME Init PROVE DInv
  OBVIOUS
<1>1. IInv
  BY InitIInv
<1>2. InStep /\ InHand
  BY DEF Init, InStep, InHand, Progress
<1>3. WholeHeaderFirst /\ AnswersMatch
  BY DEF Init, WholeHeaderFirst, AnswersMatch
<1>. QED
  BY <1>1, <1>2, <1>3 DEF DInv

\* Clients that await their answers and are heard one request after the other
\* get answers of the type of the request whose number the answer bears,
\* errors for unknown methods excepted: neither the shared buffer nor the
\* command kept from an earlier read mixes requests up, as long as no read ends
\* between the CR and the LF of a request line.
THEOREM AnswersAreForTheirRequests ==
    ASSUME Lockstep, Apart, LinesWhole
    PROVE  Spec => []AnswersCurrentRequest
<1>1. DInv /\ [Next]_vars => DInv'
  BY NextDInv
<1>2. DInv => AnswersCurrentRequest
  BY DEF DInv, AnswersMatch, AnswersCurrentRequest
<1>. QED
  BY <1>1, <1>2, InitDInv, PTL DEF Spec

-----------------------------------------------------------------------------
(* The refinement of RtspDialogue.  A read may stop after the CSeq header   *)
(* only, and the buffer holds a request: a request is read in two halves or *)
(* at once.  Its headers after the CSeq are longer than what precedes them, *)
(* else the parser gives up on the sequence number (NumberRead).            *)

Plainly ==
    /\ Lockstep
    /\ Apart
    /\ Cuts \subseteq {3}
    /\ BufferSize >= 5
    /\ \A r \in Requests : r.headers = "many"

Latest(s) == sent[s][Len(sent[s])]

ByHalves == \A s \in Session : Progress(s) \in {0, 3, 5}

\* The first half of a request is in the buffer, its method looked at.
HalfRead ==
    \A s \in Session :
        phase[s] = "live" /\ Progress(s) = 3 =>
            /\ Holding(s, buf, 3)
            /\ Len(buf) = 3
            /\ hdr = IF Asking(s) = "other" THEN "invalid" ELSE "method"

NumbersServed == \A s \in Session : cseq[s] <= taken[s] \div 5

NewIsFresh == \A s \in Session : phase[s] = "new" => Progress(s) = 5

RInv ==
    /\ DInv
    /\ ByHalves
    /\ HalfRead
    /\ NumbersServed
    /\ NewIsFresh

\* The length of a request's pieces, added up.
LEMMA SizeOfHalf ==
    ASSUME NEW b, \A i \in 1 .. 3 : Weight(b[i]) \in Nat
    PROVE  /\ Size(b, 0) = 0
           /\ Size(b, 3) = Weight(b[1]) + Weight(b[2]) + Weight(b[3])
<1> DEFINE Sum(f, n) == [i \in 0 .. n |-> IF i = 0 THEN 0 ELSE f[i - 1] + Weight(b[i])]
<1>1. Size(b, 0) = 0
  <2> DEFINE g == [i \in 0 .. 0 |-> 0]
  <2> DEFINE upTo == CHOOSE f : f = Sum(f, 0)
  <2>1. g = Sum(g, 0)
    OBVIOUS
  <2>2. upTo = Sum(upTo, 0)
    BY <2>1
  <2>3. Size(b, 0) = upTo[0]
    BY DEF Size
  <2> HIDE DEF upTo
  <2>. QED
    BY <2>2, <2>3
<1>2. Size(b, 3) = Weight(b[1]) + Weight(b[2]) + Weight(b[3])
  <2> DEFINE g == [i \in 0 .. 3 |-> IF i = 0 THEN 0
                                    ELSE IF i = 1 THEN Weight(b[1])
                                    ELSE IF i = 2 THEN Weight(b[1]) + Weight(b[2])
                                    ELSE Weight(b[1]) + Weight(b[2]) + Weight(b[3])]
  <2> DEFINE upTo == CHOOSE f : f = Sum(f, 3)
  <2>1. g = Sum(g, 3)
    OBVIOUS
  <2>2. upTo = Sum(upTo, 3)
    BY <2>1
  <2>3. Size(b, 3) = upTo[3]
    BY DEF Size
  <2> HIDE DEF upTo
  <2>4. /\ upTo[0] = 0 /\ upTo[1] = upTo[0] + Weight(b[1])
        /\ upTo[2] = upTo[1] + Weight(b[2]) /\ upTo[3] = upTo[2] + Weight(b[3])
    BY <2>2
  <2>. QED
    BY <2>3, <2>4
<1>. QED
  BY <1>1, <1>2

LEMMA SizeOfWhole ==
    ASSUME NEW b, \A i \in 1 .. 5 : Weight(b[i]) \in Nat
    PROVE  Size(b, 5) = Size(b, 3) + Weight(b[4]) + Weight(b[5])
<1> DEFINE Sum(f, n) == [i \in 0 .. n |-> IF i = 0 THEN 0 ELSE f[i - 1] + Weight(b[i])]
<1> DEFINE three == Weight(b[1]) + Weight(b[2]) + Weight(b[3])
<1> DEFINE g == [i \in 0 .. 5 |-> IF i = 0 THEN 0
                                  ELSE IF i = 1 THEN Weight(b[1])
                                  ELSE IF i = 2 THEN Weight(b[1]) + Weight(b[2])
                                  ELSE IF i = 3 THEN three
                                  ELSE IF i = 4 THEN three + Weight(b[4])
                                  ELSE three + Weight(b[4]) + Weight(b[5])]
<1> DEFINE upTo == CHOOSE f : f = Sum(f, 5)
<1>1. g = Sum(g, 5)
  OBVIOUS
<1>2. upTo = Sum(upTo, 5)
  BY <1>1
<1>3. Size(b, 5) = upTo[5]
  BY DEF Size
<1>4. Size(b, 3) = three
  BY SizeOfHalf
<1> HIDE DEF upTo
<1>5. /\ upTo[0] = 0 /\ upTo[1] = upTo[0] + Weight(b[1]) /\ upTo[2] = upTo[1] + Weight(b[2])
      /\ upTo[3] = upTo[2] + Weight(b[3]) /\ upTo[4] = upTo[3] + Weight(b[4])
      /\ upTo[5] = upTo[4] + Weight(b[5])
  BY <1>2
<1>. QED
  BY <1>3, <1>4, <1>5

\* Nothing is in the buffer unless a client's request was read in part.
LEMMA EmptyBetweenRequests ==
    ASSUME DInv, Interrupted = {}
    PROVE  buf = <<>> /\ BufAtEntry = <<>> /\ HdrAtEntry = "unknown"
<1>1. buf = <<>>
  BY ProgressRange DEF DInv, InHand, InHandOf, Interrupted
<1>. QED
  BY <1>1 DEF BufAtEntry, HdrAtEntry

\* A read brings the first half of a request, the second, or all of it, and
\* from then on its method is known.
LEMMA HalfOrWhole ==
    ASSUME Plainly, RInv, NEW s \in Session, phase[s] = "live", Interrupted \subseteq {s},
           NEW k \in ReadLengths(s, BufferSize - Len(BufAtEntry))
    PROVE  LET b == BufferWith(s, k)
               p == Progress(s) + k
           IN  /\ Progress(s) \in {0, 3}
               /\ p \in {3, 5}
               /\ Len(b) = p /\ Holding(s, b, p)
               /\ Len(BufAtEntry) = Progress(s)
               /\ Classified(b) = IF Asking(s) = "other" THEN "invalid" ELSE "method"
<1> USE DEF RInv, DInv
<1> DEFINE b == BufferWith(s, k)
<1> DEFINE p == Progress(s) + k
<1>1. /\ k \in Nat /\ k > 0 /\ k <= Unread(s) /\ Unread(s) = 5 - Progress(s)
      /\ Len(sent[s]) \in Nat /\ taken[s] \in Nat
  BY BufferAfterRead, ProgressRange DEF Unread
<1>2. Progress(s) \in {0, 3} /\ p \in 1 .. 5 /\ k \in 1 .. 5
  BY <1>1 DEF ByHalves
<1>3. Apart /\ BufferSize >= 5 /\ BufferSize \in Nat /\ Cuts \subseteq {3}
  BY ReadAssumption DEF Plainly
<1>4. /\ Progress(s) = 0 => BufAtEntry = <<>> /\ HdrAtEntry = "unknown"
      /\ Progress(s) = 3 => /\ BufAtEntry = buf /\ HdrAtEntry = hdr
                            /\ Len(buf) = 3 /\ buf # <<>>
  <2>1. CASE Progress(s) = 0
    <3>1. s \notin Interrupted
      BY <2>1, ProgressRange DEF Interrupted
    <3>. QED
      BY <2>1, <3>1, EmptyBetweenRequests
  <2>2. CASE Progress(s) = 3
    <3>1. Len(buf) = 3 /\ ~(Len(buf) >= BufferSize)
      <4>1. Len(buf) = 3
        BY <2>2 DEF HalfRead
      <4>. QED
        BY <1>3, <4>1
    <3>2. buf # <<>>
      BY <3>1
    <3>. QED
      BY <2>2, <3>1, <3>2 DEF BufAtEntry, HdrAtEntry
  <2>. QED
    BY <1>2, <2>1, <2>2
<1>5. Len(BufAtEntry) = Progress(s)
  BY <1>2, <1>4
<1>6. p \in {3, 5}
  <2>1. \/ k = BufferSize - Len(BufAtEntry) \/ k = Unread(s)
        \/ Piece(s, taken[s] + k).part \in Cuts \cup {5}
    BY DEF ReadLengths
  <2>2. Piece(s, taken[s] + k).part = p
    <3>1. Progress(s) + k <= 5
      BY <1>2
    <3>2. Piece(s, taken[s] + k) =
              [from |-> s, no |-> Len(sent[s]), part |-> Progress(s) + k]
      BY <1>2, <3>1, PieceOfLatest
    <3>. QED
      BY <3>2
  <2>. QED
    BY <1>1, <1>2, <1>3, <1>5, <2>1, <2>2
<1>7. /\ Len(b) \in 1 .. p /\ Holding(s, b, p) /\ b \in Seq(PieceType)
      /\ Len(b) = Len(BufAtEntry) + k
  BY <1>3, RequestInHand, BufferAfterRead, PiecesRead
<1>8. Len(b) = p
  BY <1>1, <1>2, <1>5, <1>7
<1> HIDE DEF b, p
<1>9. Len(sent[s]) > 0
  BY <1>1, <1>2, ProgressRange
<1>10. Classified(b) = IF Asking(s) = "other" THEN "invalid" ELSE "method"
  <2>1. CASE Progress(s) = 0
    <3>1. HdrAtEntry = "unknown" /\ DOMAIN b = 1 .. p /\ Head(b) = b[1]
      BY <1>4, <1>6, <1>7, <1>8, <2>1
    <3>2. ASSUME NEW i \in 1 .. p
          PROVE  b[i] = [from |-> s, no |-> Len(sent[s]), part |-> i]
      <4>1. b[i] = [from |-> s, no |-> Len(sent[s]), part |-> p - p + i]
        BY <1>7, <1>8, <3>1 DEF Holding
      <4>2. p - p + i = i
        BY <1>6
      <4>. QED
        BY <4>1, <4>2
    <3>3. b[3].part = 3 /\ 3 \in DOMAIN b /\ 1 \in 1 .. p
      BY <1>6, <3>1, <3>2
    <3>4. HasLine(b)
      BY <3>3 DEF HasLine
    <3>5. Head(b).part = 1 /\ Requested(Head(b)).method = Asking(s)
      BY <3>1, <3>2, <3>3 DEF Requested, Asking
    <3>6. Asking(s) \in Known \cup {"other"}
      BY <1>9, MethodsAsked
    <3>. QED
      BY <3>1, <3>4, <3>5, <3>6 DEF Classified, MethodOf, Known
  <2>2. CASE Progress(s) = 3
    <3>1. hdr = IF Asking(s) = "other" THEN "invalid" ELSE "method"
      BY <2>2 DEF HalfRead
    <3>2. HdrAtEntry = hdr
      BY <1>4, <2>2
    <3>. QED
      BY <3>1, <3>2 DEF Classified
  <2>. QED
    BY <1>2, <2>1, <2>2
<1>. QED
  BY <1>2, <1>5, <1>6, <1>7, <1>8, <1>10 DEF b, p

\* What ParseRtspRequest makes of a complete request with a known method.
LEMMA WholeParsed ==
    ASSUME Plainly, RInv, NEW s \in Session, phase[s] = "live", Interrupted \subseteq {s},
           NEW k \in ReadLengths(s, BufferSize - Len(BufAtEntry)),
           Progress(s) + k = 5, Asking(s) \in Known
    PROVE  LET b == BufferWith(s, k)
               command == Asking(s)
               size == Size(b, Len(b)) - Size(b, Len(BufAtEntry))
               r == Latest(s)
           IN  /\ Requested(Head(b)) = r
               /\ Parses(b, command, size) <=> Dialogue!Understood(r)
               /\ SeqNumbers(b, command, size, cseq[s]) \subseteq {cseq[s], Len(sent[s])}
               /\ TcpChoices(b, command, size, tcp[s]) =
                      {IF command = "SETUP" /\ Dialogue!Understood(r)
                          /\ r.transport \in {"udp", "tcp"}
                       THEN r.transport = "tcp" ELSE tcp[s]}
<1> DEFINE b == BufferWith(s, k)
<1> DEFINE command == Asking(s)
<1> DEFINE size == Size(b, Len(b)) - Size(b, Len(BufAtEntry))
<1> DEFINE r == Latest(s)
<1> DEFINE n == Len(sent[s])
<1>1. /\ Len(b) = 5 /\ Holding(s, b, 5) /\ Len(BufAtEntry) \in {0, 3}
      /\ b \in Seq(PieceType) /\ Len(sent[s]) > 0
  <2>1. Len(b) = 5 /\ Holding(s, b, 5) /\ Len(BufAtEntry) \in {0, 3}
    BY HalfOrWhole
  <2>2. b \in Seq(PieceType) /\ k > 0 /\ k <= Unread(s)
    BY BufferAfterRead DEF RInv, DInv, Unread, ReadLengths
  <2>3. Len(sent[s]) > 0
    BY <2>1, HalfOrWhole, ProgressRange DEF RInv, DInv
  <2>. QED
    BY <2>1, <2>2, <2>3
<1>2. r \in Requests /\ r \in Request /\ r.headers = "many" /\ r.method = command
  <2>1. n \in DOMAIN sent[s] /\ sent[s] \in Seq(Requests)
    BY <1>1, MethodsAsked DEF RInv, DInv, IInv, TypeOK
  <2>2. r \in Requests
    BY <2>1 DEF Latest
  <2>. QED
    BY <2>2, RequestAssumption DEF Plainly, Latest, Asking
<1> HIDE DEF b
<1>3. ASSUME NEW i \in 1 .. 5
      PROVE  b[i].part = i /\ b[i].no = n /\ Requested(b[i]) = r
  <2>1. i \in DOMAIN b
    BY <1>1
  <2>2. b[i] = [from |-> s, no |-> n, part |-> 5 - 5 + i]
    BY <1>1, <2>1 DEF Holding
  <2>3. 5 - 5 + i = i
    OBVIOUS
  <2>. QED
    BY <2>2, <2>3 DEF Requested, Latest
<1> HIDE DEF r, n, command, size
<1>4. DOMAIN b = 1 .. 5 /\ Head(b) = b[1]
  BY <1>1
<1>5. /\ Weight(b[1]) = 4 /\ Weight(b[2]) = 0 /\ Weight(b[3]) = 1
      /\ Weight(b[4]) = 8 /\ Weight(b[5]) = 1
  BY <1>2, <1>3 DEF Weight
<1>6. Size(b, 3) < size
  <2>1. Size(b, 0) = 0 /\ Size(b, 3) = 5
    BY <1>5, SizeOfHalf
  <2>2. Size(b, 5) = Size(b, 3) + Weight(b[4]) + Weight(b[5])
    <3>1. \A i \in 1 .. 5 : Weight(b[i]) \in Nat
      BY <1>5
    <3>. QED
      BY <3>1, SizeOfWhole
  <2>3. Size(b, 5) = 14
    BY <1>5, <2>1, <2>2
  <2>4. size = Size(b, 5) - Size(b, Len(BufAtEntry))
    BY <1>1 DEF size
  <2>5. CASE Len(BufAtEntry) = 0
    BY <2>1, <2>3, <2>4, <2>5
  <2>6. CASE Len(BufAtEntry) = 3
    BY <2>1, <2>3, <2>4, <2>6
  <2>. QED
    BY <1>1, <2>5, <2>6
<1>7. \A i \in 1 .. 5 :
         GivesUp(b, i, command, size) <=>
             i = 4 /\ command = "SETUP" /\ r.transport = "other"
  BY <1>3, <1>6 DEF GivesUp, NumberRead, NumberLine, TransportLine
<1>8. LineParses(b) <=> r.uri # "malformed"
  BY <1>1, <1>3, <1>4 DEF LineParses
<1>9. Dialogue!Understood(r) <=>
         r.uri # "malformed" /\ ~(command = "SETUP" /\ r.transport = "other")
  <2>1. r.method # "other"
    BY <1>2 DEF Known, command
  <2>2. r.transport = "other" => command = "SETUP"
    BY <1>2, RequestAssumption
  <2>. QED
    BY <2>1, <2>2 DEF Dialogue!Understood
<1>10. Dialogue!Understood(r) => Scanned(b, command, size) = 1 .. 5
  BY <1>4, <1>7, <1>8, <1>9 DEF Scanned
<1>11. ~Dialogue!Understood(r) => 4 \notin Scanned(b, command, size)
  BY <1>4, <1>7, <1>8, <1>9 DEF Scanned
<1>12. Parses(b, command, size) <=> Dialogue!Understood(r)
  BY <1>4, <1>10, <1>11 DEF Parses
<1>13. SeqNumbers(b, command, size, cseq[s]) \subseteq {cseq[s], n}
  BY <1>3, <1>4 DEF SeqNumbers, LastOf, Numbered, NumberLine, Scanned
<1>14. TcpChoices(b, command, size, tcp[s]) =
           {IF command = "SETUP" /\ Dialogue!Understood(r) /\ r.transport \in {"udp", "tcp"}
            THEN r.transport = "tcp" ELSE tcp[s]}
  <2> DEFINE named == {i \in Scanned(b, command, size) :
                          TransportLine(b, i) /\ Requested(b[i]).transport \in {"udp", "tcp"}}
  <2>1. Scanned(b, command, size) \subseteq 1 .. 5
    BY <1>4 DEF Scanned
  <2>2. CASE Dialogue!Understood(r) /\ r.transport \in {"udp", "tcp"}
    <3>1. named = {4}
      BY <1>3, <1>10, <2>2 DEF TransportLine
    <3>2. LastOf({4}) = {4}
      BY DEF LastOf
    <3>3. {Requested(b[i]).transport = "tcp" : i \in LastOf(named)} = {r.transport = "tcp"}
      <4>1. LastOf(named) = {4}
        BY <3>1, <3>2
      <4>2. Requested(b[4]) = r
        BY <1>3
      <4> HIDE DEF named
      <4>. QED
        BY Zenon, <4>1, <4>2
    <3>. QED
      BY <2>2, <3>1, <3>3 DEF TcpChoices
  <2>3. CASE ~(Dialogue!Understood(r) /\ r.transport \in {"udp", "tcp"})
    <3>1. named = {}
      BY <1>3, <1>11, <2>1, <2>3 DEF TransportLine
    <3>. QED
      BY <2>3, <3>1 DEF TcpChoices
  <2>. QED
    BY <2>2, <2>3
<1>. QED
  BY <1>3, <1>4, <1>12, <1>13, <1>14 DEF b, command, size, r, n

\* The three things a read can do.
FirstHalf(s) ==
    /\ Progress(s)' = 3
    /\ Holding(s, buf, 3)'
    /\ Len(buf') = 3
    /\ hdr' = IF Asking(s) = "other" THEN "invalid" ELSE "method"
    /\ UNCHANGED <<phase, cseq, tcp, streaming, udpRefs, replies>>

Refused(s) ==
    /\ Progress(s)' = 5
    /\ Asking(s) = "other"
    /\ replies' = [replies EXCEPT ![s] =
           Append(@, [code |-> 400, method |-> "UNKNOWN", cseq |-> cseq[s]])]
    /\ UNCHANGED <<phase, cseq, tcp, streaming, udpRefs>>

OverTcp(s) ==
    LET r == Latest(s)
    IN  IF r.method = "SETUP" /\ Dialogue!Understood(r) /\ r.transport \in {"udp", "tcp"}
        THEN r.transport = "tcp" ELSE tcp[s]

Done(s) ==
    LET r == Latest(s)
        ok == Dialogue!Understood(r)
    IN  /\ Progress(s)' = 5
        /\ r.method \in Known
        /\ \E number \in {cseq[s], Len(sent[s])} : cseq' = [cseq EXCEPT ![s] = number]
        /\ tcp' = [tcp EXCEPT ![s] = OverTcp(s)]
        /\ replies' = IF ok THEN [replies EXCEPT ![s] =
                                     @ \o Answers(r.method, Len(sent[s]), r.uri)]
                      ELSE replies
        /\ streaming' = [streaming EXCEPT ![s] = @ \/ r.method = "PLAY"]
        /\ phase' = IF r.method = "TEARDOWN" THEN [phase EXCEPT ![s] = "gone"] ELSE phase
        /\ udpRefs' = udpRefs
               + (IF ok /\ r.method = "SETUP" /\ ~OverTcp(s) THEN 1 ELSE 0)
               - (IF r.method = "TEARDOWN" THEN 1 ELSE 0)

LEMMA ReadEffects ==
    ASSUME Plainly, RInv, NEW s \in Session, ReadData(s)
    PROVE  /\ phase[s] = "live" /\ Interrupted \subseteq {s}
           /\ sent' = sent /\ Len(sent[s]) > 0
           /\ Progress(s) \in {0, 3}
           /\ \A t \in Session \ {s} : taken'[t] = taken[t] /\ Progress(t)' = Progress(t)
           /\ taken[s] \div 5 = Len(sent[s]) - 1
           /\ taken'[s] \div 5 = IF Progress(s)' = 5 THEN Len(sent[s]) ELSE Len(sent[s]) - 1
           /\ FirstHalf(s) \/ Refused(s) \/ Done(s)
<1>1. PICK k \in ReadLengths(s, BufferSize - Len(BufAtEntry)) :
          /\ \/ Wait(s, BufferWith(s, k))
             \/ Reject(s, BufferWith(s, k))
             \/ Dispatch(s, BufferWith(s, k))
          /\ taken' = [taken EXCEPT ![s] = @ + k]
  BY DEF ReadData, BufferWith
<1>2. sent' = sent /\ phase[s] = "live" /\ Interrupted \subseteq {s}
  BY DEF ReadData, clientVars, Plainly
<1> DEFINE b == BufferWith(s, k)
<1> DEFINE p == Progress(s) + k
<1>3. /\ Progress(s) \in {0, 3} /\ p \in {3, 5}
      /\ Len(b) = p /\ Holding(s, b, p)
      /\ Classified(b) = IF Asking(s) = "other" THEN "invalid" ELSE "method"
  BY <1>2, HalfOrWhole
<1>4. k \in Nat /\ k > 0 /\ b \in Seq(PieceType) /\ DOMAIN b = 1 .. Len(b)
  BY BufferAfterRead DEF RInv, DInv
<1>5. /\ taken \in [Session -> Nat] /\ Len(sent[s]) \in Nat /\ Len(sent[s]) > 0
  BY <1>3, ProgressRange DEF RInv, DInv, IInv, TypeOK
<1>6. Progress(s)' = p
  <2>1. taken'[s] = taken[s] + k /\ taken[s] \in Nat
    BY <1>1, <1>5
  <2>. QED
    BY <1>2, <1>4, <1>5, <2>1 DEF Progress
<1>7. \A t \in Session \ {s} : taken'[t] = taken[t] /\ Progress(t)' = Progress(t)
  <2>1. \A t \in Session \ {s} : taken'[t] = taken[t]
    BY <1>1, <1>5
  <2>. QED
    BY <1>2, <2>1 DEF Progress
<1> DEFINE counts ==
        /\ taken[s] \div 5 = Len(sent[s]) - 1
        /\ taken'[s] \div 5 = IF Progress(s)' = 5 THEN Len(sent[s]) ELSE Len(sent[s]) - 1
<1>8. counts
  <2>1. taken[s] = 5 * (Len(sent[s]) - 1) + Progress(s)
    BY ProgressRange DEF RInv, DInv
  <2>2. taken'[s] = taken[s] + k /\ taken[s] \in Nat
    BY <1>1, <1>5
  <2>3. PICK m \in Nat : m = Len(sent[s]) - 1
    <3>1. Len(sent[s]) - 1 \in Nat
      BY <1>5
    <3>. QED
      BY <3>1
  <2>4. taken[s] = 5 * m + Progress(s) /\ taken'[s] = 5 * m + p
    BY <1>3, <1>4, <2>1, <2>2, <2>3
  <2>5. Len(sent[s]) = m + 1
    BY <1>5, <2>3
  <2> HIDE DEF p
  <2>6. taken[s] \div 5 = m
    BY <1>3, <2>4
  <2>7. taken'[s] \div 5 = IF p = 5 THEN m + 1 ELSE m
    BY <1>3, <2>4
  <2>. QED
    BY <1>6, <2>3, <2>5, <2>6, <2>7
<1> HIDE DEF counts
<1>9. HeaderEnds(b) <=> p = 5
  <2>1. b[Len(b)].part = p - Len(b) + Len(b)
    BY <1>3, <1>4 DEF Holding
  <2>. QED
    BY <1>3, <2>1 DEF HeaderEnds
<1>10. Asking(s) \in Known \cup {"other"}
  BY <1>5, MethodsAsked DEF RInv, DInv
<1> HIDE DEF b, p
<1>11. CASE Wait(s, b)
  <2>1. /\ buf' = b /\ hdr' = Classified(b) /\ p = 3
        /\ UNCHANGED <<phase, cseq, tcp, streaming, udpRefs, replies>>
    BY <1>3, <1>9, <1>11 DEF Wait
  <2>2. Holding(s, buf, 3)'
    BY <1>2, <1>3, <2>1 DEF Holding
  <2>. QED
    BY <1>2, <1>3, <1>5, <1>6, <1>7, <1>8, <2>1, <2>2 DEF FirstHalf, counts
<1>12. CASE Reject(s, b)
  <2>1. Asking(s) = "other" /\ p = 5
    BY <1>3, <1>9, <1>12 DEF Reject
  <2>2. Refused(s)
    BY <1>6, <1>12, <2>1 DEF Refused, Reject
  <2>. QED
    BY <1>2, <1>3, <1>5, <1>7, <1>8, <2>2 DEF counts
<1>13. CASE Dispatch(s, b)
  <2>1. Classified(b) = "method" /\ p = 5 /\ Asking(s) \in Known
    BY <1>3, <1>9, <1>10, <1>13 DEF Dispatch
  <2>2. CommandAfter(s, b) = Asking(s)
    BY <1>2, <2>1, WholeRequest DEF b, RInv, Plainly
  <2> DEFINE command == CommandAfter(s, b)
  <2> DEFINE size == Size(b, Len(b)) - Size(b, Len(BufAtEntry))
  <2> DEFINE r == Latest(s)
  <2>3. PICK number \in SeqNumbers(b, command, size, cseq[s]),
             overTcp \in TcpChoices(b, command, size, tcp[s]) :
           /\ cseq' = [cseq EXCEPT ![s] = number]
           /\ tcp' = [tcp EXCEPT ![s] = overTcp]
           /\ replies' = IF Parses(b, command, size)
                         THEN [replies EXCEPT ![s] =
                                  @ \o Answers(command, number, Requested(Head(b)).uri)]
                         ELSE replies
           /\ streaming' = [streaming EXCEPT ![s] = @ \/ command = "PLAY"]
           /\ phase' = IF command = "TEARDOWN" THEN [phase EXCEPT ![s] = "gone"] ELSE phase
           /\ udpRefs' = udpRefs
                  + (IF Parses(b, command, size) /\ command = "SETUP" /\ ~overTcp THEN 1 ELSE 0)
                  - (IF command = "TEARDOWN" THEN 1 ELSE 0)
    BY <1>13 DEF Dispatch
  <2>4. /\ Requested(Head(b)) = r
        /\ Parses(b, command, size) <=> Dialogue!Understood(r)
        /\ SeqNumbers(b, command, size, cseq[s]) \subseteq {cseq[s], Len(sent[s])}
        /\ TcpChoices(b, command, size, tcp[s]) = {OverTcp(s)}
    BY <1>2, <2>1, <2>2, WholeParsed DEF b, p, OverTcp, Asking, Latest
  <2>5. Parses(b, command, size) => number = Len(sent[s])
    BY <1>3, <1>4, <2>1, <2>3, NumberIsCurrent
  <2>6. r.method = command
    BY <2>2 DEF Asking, Latest
  <2> HIDE DEF size, command, r
  <2>7. Done(s)
    <3>1. overTcp = OverTcp(s)
      BY <2>3, <2>4
    <3>2. number \in {cseq[s], Len(sent[s])}
      BY <2>3, <2>4
    <3>3. replies' = IF Dialogue!Understood(r)
                     THEN [replies EXCEPT ![s] = @ \o Answers(r.method, Len(sent[s]), r.uri)]
                     ELSE replies
      BY <2>3, <2>4, <2>5, <2>6
    <3>4. /\ streaming' = [streaming EXCEPT ![s] = @ \/ r.method = "PLAY"]
          /\ phase' = IF r.method = "TEARDOWN" THEN [phase EXCEPT ![s] = "gone"] ELSE phase
          /\ udpRefs' = udpRefs
                 + (IF Dialogue!Understood(r) /\ r.method = "SETUP" /\ ~OverTcp(s) THEN 1 ELSE 0)
                 - (IF r.method = "TEARDOWN" THEN 1 ELSE 0)
      BY <2>3, <2>4, <2>6, <3>1
    <3>5. r.method \in Known /\ Progress(s)' = 5
      BY <1>6, <2>1, <2>2, <2>6 DEF command
    <3>. QED
      BY <2>3, <3>1, <3>2, <3>3, <3>4, <3>5 DEF Done, r
  <2>. QED
    BY <1>2, <1>3, <1>5, <1>7, <1>8, <2>7 DEF counts
<1>. QED
  BY <1>1, <1>11, <1>12, <1>13 DEF b

LEMMA NextRInv ==
    ASSUME Plainly, RInv, [Next]_vars
    PROVE  RInv'
<1> USE DEF RInv
<1> DEFINE Rest == ByHalves /\ HalfRead /\ NumbersServed /\ NewIsFresh
<1>1. DInv'
  <2>1. LinesWhole
    BY ReadAssumption DEF Plainly, LinesWhole
  <2>. QED
    BY <2>1, NextDInv DEF Plainly
<1>2. /\ cseq \in [Session -> Nat] /\ taken \in [Session -> Nat]
      /\ phase \in [Session -> {"new", "live", "gone"}] /\ sent \in [Session -> Seq(Requests)]
  BY DEF DInv, IInv, TypeOK
<1>3. Lockstep /\ Apart /\ BufferSize >= 5 /\ BufferSize \in Nat
  BY ReadAssumption DEF Plainly
<1>4. ASSUME NEW s \in Session, ReadData(s)
      PROVE  Rest'
  <2>1. /\ phase[s] = "live" /\ Interrupted \subseteq {s}
        /\ sent' = sent /\ Len(sent[s]) > 0 /\ Progress(s) \in {0, 3}
        /\ \A t \in Session \ {s} : taken'[t] = taken[t] /\ Progress(t)' = Progress(t)
        /\ taken[s] \div 5 = Len(sent[s]) - 1
        /\ taken'[s] \div 5 = IF Progress(s)' = 5 THEN Len(sent[s]) ELSE Len(sent[s]) - 1
        /\ FirstHalf(s) \/ Refused(s) \/ Done(s)
    BY <1>4, ReadEffects
  <2>2. /\ Progress(s)' \in {3, 5}
        /\ \A t \in Session : phase'[t] = phase[t] \/ phase'[t] = "gone"
    BY <1>2, <2>1 DEF FirstHalf, Refused, Done
  <2>3. ByHalves'
    BY <2>1, <2>2 DEF ByHalves
  <2>4. \A t \in Session \ {s} : ~(phase'[t] = "live" /\ Progress(t)' = 3)
    <3>1. ASSUME NEW t \in Session \ {s}, phase'[t] = "live", Progress(t)' = 3
          PROVE  FALSE
      <4>1. phase[t] = "live" /\ Progress(t) = 3
        BY <2>1, <2>2, <3>1
      <4>2. t \in Interrupted
        BY <4>1, ProgressRange DEF Interrupted, DInv
      <4>. QED
        BY <2>1, <4>2
    <3>. QED
      BY <3>1
  <2>5. HalfRead'
    <3>1. Asking(s)' = Asking(s)
      BY <2>1 DEF Asking
    <3>2. Progress(s)' = 3 => FirstHalf(s)
      BY <2>1 DEF Refused, Done
    <3>. QED
      BY <2>4, <3>1, <3>2 DEF HalfRead, FirstHalf
  <2>6. NumbersServed'
    <3>1. Len(sent[s]) \in Nat /\ cseq[s] <= Len(sent[s]) - 1 /\ cseq[s] \in Nat
      BY <1>2, <2>1 DEF NumbersServed
    <3>2. cseq'[s] <= taken'[s] \div 5
      <4>1. CASE FirstHalf(s)
        BY <2>1, <3>1, <4>1 DEF FirstHalf
      <4>2. CASE Refused(s)
        BY <2>1, <3>1, <4>2 DEF Refused
      <4>3. CASE Done(s)
        <5>1. cseq'[s] \in {cseq[s], Len(sent[s])}
          BY <1>2, <4>3 DEF Done
        <5>2. taken'[s] \div 5 = Len(sent[s])
          BY <2>1, <4>3 DEF Done
        <5>. QED
          BY <3>1, <5>1, <5>2
      <4>. QED
        BY <2>1, <4>1, <4>2, <4>3
    <3>3. \A t \in Session \ {s} : cseq'[t] = cseq[t]
      BY <1>2, <2>1 DEF FirstHalf, Refused, Done
    <3>. QED
      BY <2>1, <3>2, <3>3 DEF NumbersServed
  <2>7. NewIsFresh'
    <3>1. phase'[s] # "new"
      BY <2>1, <2>2
    <3>2. \A t \in Session \ {s} : phase'[t] = "new" => phase[t] = "new"
      BY <2>2
    <3>. QED
      BY <2>1, <3>1, <3>2 DEF NewIsFresh
  <2>. QED
    BY <2>3, <2>5, <2>6, <2>7
<1>5. ASSUME NEW s \in Session, ReadClosed(s)
      PROVE  Rest'
  <2>1. /\ phase' = [phase EXCEPT ![s] = "gone"]
        /\ UNCHANGED <<cmd, cseq, taken, sent>>
        /\ Interrupted = {}
    BY <1>3, <1>5 DEF ReadClosed, clientVars
  <2>2. \A t \in Session : phase'[t] = phase[t] \/ phase'[t] = "gone"
    BY <1>2, <2>1
  <2>3. \A t \in Session : Progress(t)' = Progress(t)
    BY <2>1 DEF Progress
  <2>4. \A t \in Session : ~(phase[t] = "live" /\ Progress(t) = 3)
    BY <2>1, ProgressRange DEF Interrupted, DInv
  <2>5. HalfRead'
    BY <2>2, <2>3, <2>4 DEF HalfRead
  <2>. QED
    BY <2>1, <2>2, <2>3, <2>5 DEF ByHalves, NumbersServed, NewIsFresh
<1>6. ASSUME NEW s \in Session, ReadTimeout(s)
      PROVE  Rest'
  <2>1. /\ buf' = BufAtEntry /\ hdr' = HdrAtEntry
        /\ UNCHANGED <<phase, cseq, taken, sent>>
    BY <1>6 DEF ReadTimeout, clientVars
  <2>2. \A t \in Session : Progress(t)' = Progress(t) /\ Asking(t)' = Asking(t)
    BY <2>1 DEF Progress, Asking
  <2>3. HalfRead'
    <3>1. ASSUME Len(buf) = 3
          PROVE  buf' = buf /\ hdr' = hdr
      <4>1. buf # <<>> /\ ~(Len(buf) >= BufferSize)
        BY <1>3, <3>1
      <4>. QED
        BY <2>1, <4>1 DEF BufAtEntry, HdrAtEntry
    <3>. QED
      BY <2>1, <2>2, <3>1 DEF HalfRead, Holding
  <2>. QED
    BY <2>1, <2>2, <2>3 DEF ByHalves, NumbersServed, NewIsFresh
<1>7. ASSUME NEW s \in Session, AddSession(s)
      PROVE  Rest'
  <2>1. /\ phase' = [phase EXCEPT ![s] = "live"] /\ phase[s] = "new"
        /\ UNCHANGED <<buf, hdr, cseq, taken, sent>>
    BY <1>7 DEF AddSession, clientVars
  <2>2. \A t \in Session : Progress(t)' = Progress(t) /\ Asking(t)' = Asking(t)
    BY <2>1 DEF Progress, Asking
  <2>3. Progress(s) = 5
    BY <2>1 DEF NewIsFresh
  <2>4. \A t \in Session \ {s} : phase'[t] = phase[t]
    BY <1>2, <2>1
  <2>5. HalfRead'
    BY <2>1, <2>2, <2>3, <2>4 DEF HalfRead, Holding
  <2>6. NewIsFresh'
    BY <1>2, <2>1, <2>2, <2>4 DEF NewIsFresh
  <2>. QED
    BY <2>1, <2>2, <2>5, <2>6 DEF ByHalves, NumbersServed
<1>8. ASSUME NEW s \in Session, Send(s)
      PROVE  Rest'
  <2>1. /\ UNCHANGED <<buf, hdr, phase, cseq, taken>> /\ phase[s] = "live"
        /\ \A t \in Session \ {s} : sent'[t] = sent[t]
    BY <1>2, <1>8 DEF Send, serverVars
  <2>2. Progress(s)' = 0
    BY <1>3, <1>8, SendStartsRequest DEF DInv
  <2>3. \A t \in Session \ {s} : Progress(t)' = Progress(t) /\ Asking(t)' = Asking(t)
    BY <2>1 DEF Progress, Asking
  <2>4. HalfRead'
    BY <2>1, <2>2, <2>3 DEF HalfRead, Holding
  <2>. QED
    BY <2>1, <2>2, <2>3, <2>4 DEF ByHalves, NumbersServed, NewIsFresh
<1>9. ASSUME UNCHANGED <<buf, hdr, phase, cseq, taken, sent>>
      PROVE  Rest'
  BY <1>9 DEF ByHalves, HalfRead, NumbersServed, NewIsFresh, Holding, Progress, Asking
<1>10. ASSUME NEW s \in Session, Close(s)
       PROVE  Rest'
  BY <1>9, <1>10 DEF Close, serverVars
<1>11. ASSUME UNCHANGED vars
       PROVE  Rest'
  <2>1. UNCHANGED <<buf, hdr, phase, cseq, taken, sent>>
    BY <1>11 DEF vars
  <2>. QED
    BY <1>9, <2>1
<1>. QED
  BY <1>1, <1>4, <1>5, <1>6, <1>7, <1>8, <1>10, <1>11 DEF Next, HandleRequests

\* The number of requests served, as ImplementsDialogue counts them.
Served == [s \in Session |-> taken[s] \div 5]

LEMMA OneMoreServed ==
    ASSUME NEW s \in Session, NEW n \in Nat,
           \A t \in Session \ {s} : taken'[t] = taken[t],
           taken[s] \div 5 = n - 1, taken'[s] \div 5 = n
    PROVE  Served' = [Served EXCEPT ![s] = @ + 1]
<1>1. Served'[s] = Served[s] + 1
  BY DEF Served
<1>2. \A t \in Session \ {s} : Served'[t] = Served[t]
  BY DEF Served
<1>3. /\ Served = [t \in Session |-> Served[t]]
      /\ Served' = [t \in Session |-> Served'[t]]
  BY DEF Served
<1> DEFINE before == Served
<1> DEFINE after == Served'
<1>. QED
  BY <1>1, <1>2, <1>3

\* The steps of RtspDialogue under the refinement mapping.
LEMMA RefusedServes ==
    ASSUME Plainly, RInv, NEW s \in Session, ReadData(s), Refused(s)
    PROVE  Dialogue!Serve(s)
<1> DEFINE r == Latest(s)
<1> DEFINE n == Len(sent[s])
<1>1. /\ phase[s] = "live" /\ sent' = sent /\ n > 0
      /\ \A t \in Session \ {s} : taken'[t] = taken[t]
      /\ taken[s] \div 5 = n - 1 /\ taken'[s] \div 5 = n
  BY ReadEffects DEF Refused
<1>2. n \in Nat /\ r \in Request /\ r.method = "other"
  <2>1. sent[s] \in Seq(Requests) /\ n \in DOMAIN sent[s]
    BY <1>1, MethodsAsked DEF RInv, DInv, IInv, TypeOK
  <2>. QED
    BY <2>1, RequestAssumption DEF Latest, Refused, Asking
<1>3. Served[s] = n - 1 /\ sent[s][Served[s] + 1] = r
  BY <1>1, <1>2 DEF Served, Latest
<1>4. Served' = [Served EXCEPT ![s] = @ + 1]
  BY <1>1, <1>2, OneMoreServed
<1>5. /\ Dialogue!Understood(r)
      /\ Dialogue!AnswerTo(r).code = 400 /\ Dialogue!AnswerTo(r).method = "UNKNOWN"
  BY <1>2 DEF Dialogue!Understood, Dialogue!AnswerTo
<1>6. cseq[s] \in Dialogue!NumberOf(s, r)
  <2>1. cseq[s] \in Nat /\ cseq[s] <= taken[s] \div 5
    BY DEF RInv, DInv, IInv, TypeOK, NumbersServed
  <2>2. cseq[s] \in 0 .. Served[s]
    BY <1>1, <1>2, <1>3, <2>1
  <2>. QED
    BY <1>2, <2>2 DEF Dialogue!NumberOf, Served
<1>7. UNCHANGED <<phase, tcp, streaming, udpRefs>>
  BY DEF Refused
<1>8. replies' = [replies EXCEPT ![s] = Append(@,
          [code |-> Dialogue!AnswerTo(r).code, method |-> Dialogue!AnswerTo(r).method,
           cseq |-> cseq[s]])]
  BY <1>5 DEF Refused
<1>9. /\ streaming' = [streaming EXCEPT ![s] = @ \/ r.method = "PLAY"]
      /\ udpRefs' = udpRefs + 0 - 0
  BY <1>2, <1>7 DEF RInv, DInv, IInv, TypeOK
<1>10. /\ Served[s] < Len(sent[s])
       /\ r.method # "SETUP" /\ r.method # "TEARDOWN"
  BY <1>2, <1>3
<1> HIDE DEF r, n
<1>. QED
  BY <1>1, <1>3, <1>4, <1>5, <1>6, <1>7, <1>8, <1>9, <1>10
     DEF Dialogue!Serve, Served

LEMMA DoneServes ==
    ASSUME Plainly, RInv, NEW s \in Session, ReadData(s), Done(s)
    PROVE  Dialogue!Serve(s)
<1> DEFINE r == Latest(s)
<1> DEFINE n == Len(sent[s])
<1> DEFINE ok == Dialogue!Understood(r)
<1> DEFINE udp == /\ r.method = "SETUP" /\ ok
                  /\ r.transport = "udp" \/ (r.transport = "none" /\ ~tcp[s])
<1>1. /\ phase[s] = "live" /\ sent' = sent /\ n > 0
      /\ \A t \in Session \ {s} : taken'[t] = taken[t]
      /\ taken[s] \div 5 = n - 1 /\ taken'[s] \div 5 = n
  BY ReadEffects DEF Done
<1>2. n \in Nat /\ r \in Request /\ r.method \in Known
  <2>1. sent[s] \in Seq(Requests) /\ n \in DOMAIN sent[s]
    BY <1>1, MethodsAsked DEF RInv, DInv, IInv, TypeOK
  <2>. QED
    BY <2>1, RequestAssumption DEF Latest, Done
<1>3. Served[s] = n - 1 /\ sent[s][Served[s] + 1] = r
  BY <1>1, <1>2 DEF Served, Latest
<1>4. Served' = [Served EXCEPT ![s] = @ + 1]
  BY <1>1, <1>2, OneMoreServed
<1>5. r.method # "other" /\ (ok <=> r.uri # "malformed" /\ r.transport # "other")
  BY <1>2 DEF Known, Dialogue!Understood
<1>6. n \in Dialogue!NumberOf(s, r)
  BY <1>2, <1>3, <1>5 DEF Dialogue!NumberOf, Served
<1>7. /\ replies \in [Session -> Seq(Reply)] /\ tcp \in [Session -> BOOLEAN]
      /\ udpRefs \in Int
  BY DEF RInv, DInv, IInv, TypeOK
<1>8. tcp' = IF r.method = "SETUP" /\ ok /\ r.transport # "none"
             THEN [tcp EXCEPT ![s] = r.transport = "tcp"] ELSE tcp
  <2>1. tcp' = [tcp EXCEPT ![s] = OverTcp(s)]
    BY DEF Done
  <2>2. CASE r.method = "SETUP" /\ ok /\ r.transport # "none"
    <3>1. r.transport \in {"udp", "tcp"}
      BY <1>2, <1>5, <2>2 DEF Request
    <3>2. OverTcp(s) = (r.transport = "tcp")
      BY <2>2, <3>1 DEF OverTcp
    <3>. QED
      BY <2>1, <2>2, <3>2
  <2>3. CASE ~(r.method = "SETUP" /\ ok /\ r.transport # "none")
    <3>1. OverTcp(s) = tcp[s]
      BY <2>3 DEF OverTcp
    <3>. QED
      BY <1>7, <2>1, <2>3, <3>1
  <2>. QED
    BY <2>2, <2>3
<1>9. udp <=> ok /\ r.method = "SETUP" /\ ~OverTcp(s)
  <2>1. r.transport \in {"none", "udp", "tcp", "other"} /\ tcp[s] \in BOOLEAN
    BY <1>2, <1>7 DEF Request
  <2>. QED
    BY <1>5, <2>1 DEF OverTcp
<1> DEFINE code == IF r.method = "DESCRIBE" /\ r.uri # "stream" THEN 404 ELSE 200
<1>10. Dialogue!AnswerTo(r) = [code |-> code, method |-> r.method]
  BY <1>5 DEF Dialogue!AnswerTo
<1>11. \/ /\ ok /\ r.method # "TEARDOWN"
          /\ replies' = [replies EXCEPT ![s] = Append(@,
                 [code |-> Dialogue!AnswerTo(r).code, method |-> Dialogue!AnswerTo(r).method,
                  cseq |-> n])]
       \/ /\ ~ok \/ r.method = "TEARDOWN"
          /\ UNCHANGED replies
  <2>1. replies' = IF ok THEN [replies EXCEPT ![s] = @ \o Answers(r.method, n, r.uri)]
                   ELSE replies
    BY DEF Done
  <2>2. CASE ok /\ r.method # "TEARDOWN"
    <3> DEFINE answer == [code |-> code, method |-> r.method, cseq |-> n]
    <3>1. r.method \in {"OPTIONS", "DESCRIBE", "SETUP", "PLAY"}
      BY <1>2, <2>2 DEF Known
    <3>2. Answers(r.method, n, r.uri) = <<answer>>
      BY <3>1 DEF Answers
    <3>3. answer \in Reply
      BY <1>2, <3>1 DEF Reply, Known
    <3>4. replies[s] \o <<answer>> = Append(replies[s], answer)
      <4> HIDE DEF answer
      <4>. QED
        BY <1>7, <3>3, AppendIsConcat
    <3>5. replies' = [replies EXCEPT ![s] = Append(@, answer)]
      BY <2>1, <2>2, <3>2, <3>4
    <3>. QED
      BY <1>10, <2>2, <3>5
  <2>3. CASE ok /\ r.method = "TEARDOWN"
    <3>1. Answers(r.method, n, r.uri) = <<>>
      BY <2>3 DEF Answers
    <3>2. replies[s] \o <<>> = replies[s]
      BY <1>7, ConcatEmptySeq
    <3>3. replies' = [replies EXCEPT ![s] = replies[s]]
      BY <2>1, <2>3, <3>1, <3>2
    <3>. QED
      BY <1>7, <2>3, <3>3
  <2>4. CASE ~ok
    BY <2>1, <2>4
  <2>. QED
    BY <2>2, <2>3, <2>4
<1>12. /\ streaming' = [streaming EXCEPT ![s] = @ \/ r.method = "PLAY"]
       /\ phase' = IF r.method = "TEARDOWN" THEN [phase EXCEPT ![s] = "gone"] ELSE phase
       /\ udpRefs' = udpRefs + (IF udp THEN 1 ELSE 0)
                             - (IF r.method = "TEARDOWN" THEN 1 ELSE 0)
  BY <1>9 DEF Done
<1>13. Served[s] < Len(sent[s])
  BY <1>2, <1>3
<1> HIDE DEF r, n
<1>. QED
  BY <1>1, <1>3, <1>4, <1>6, <1>8, <1>11, <1>12, <1>13 DEF Dialogue!Serve, Served

LEMMA StepRefines ==
    ASSUME Plainly, RInv, [Next]_vars
    PROVE  [Dialogue!Next]_(Dialogue!dialogueVars)
<1> DEFINE stutters == UNCHANGED <<sent, taken, replies, tcp, streaming, phase, udpRefs>>
<1>1. ASSUME stutters
      PROVE  UNCHANGED Dialogue!dialogueVars
  BY <1>1 DEF Dialogue!dialogueVars
<1>2. ASSUME NEW s \in Session, ReadData(s)
      PROVE  Dialogue!Serve(s) \/ UNCHANGED Dialogue!dialogueVars
  <2>1. CASE FirstHalf(s)
    <3>1. Served' = Served
      <4>1. \A t \in Session : taken'[t] \div 5 = taken[t] \div 5
        BY <1>2, <2>1, ReadEffects DEF FirstHalf
      <4>. QED
        BY <4>1 DEF Served
    <3>2. sent' = sent
      BY <1>2, ReadEffects
    <3>. QED
      BY <2>1, <3>1, <3>2 DEF FirstHalf, Dialogue!dialogueVars, Served
  <2>. QED
    BY <1>2, <2>1, ReadEffects, RefusedServes, DoneServes
<1>3. ASSUME NEW s \in Session, ReadClosed(s)
      PROVE  Dialogue!Leave(s)
  BY <1>3 DEF ReadClosed, clientVars, Dialogue!Leave
<1>4. ASSUME NEW s \in Session, ReadTimeout(s)
      PROVE  stutters
  BY <1>4 DEF ReadTimeout, clientVars
<1>5. ASSUME NEW s \in Session, AddSession(s)
      PROVE  Dialogue!Arrive(s)
  BY <1>5 DEF AddSession, clientVars, Dialogue!Arrive
<1>6. ASSUME NEW s \in Session, Send(s)
      PROVE  Dialogue!Ask(s)
  BY <1>6 DEF Send, serverVars, Dialogue!Ask
<1>7. ASSUME NEW s \in Session, Close(s)
      PROVE  stutters
  BY <1>7 DEF Close, serverVars
<1>8. ASSUME UNCHANGED vars
      PROVE  stutters
  BY <1>8 DEF vars
<1> HIDE DEF stutters
<1>. QED
  BY <1>1, <1>2, <1>3, <1>4, <1>5, <1>6, <1>7, <1>8 DEF Next, HandleRequests, Dialogue!Next

LEMMA InitRefines ==
    ASSUME Init
    PROVE  Dialogue!Init /\ RInv
<1>1. Dialogue!Init
  BY DEF Init, Dialogue!Init
<1>2. DInv
  BY InitDInv
<1>3. \A s \in Session : Progress(s) = 5 /\ phase[s] = "new" /\ cseq[s] <= taken[s] \div 5
  BY DEF Init, Progress
<1>4. ByHalves /\ HalfRead /\ NumbersServed /\ NewIsFresh
  BY <1>3 DEF ByHalves, HalfRead, NumbersServed, NewIsFresh
<1>. QED
  BY <1>1, <1>2, <1>4 DEF RInv

\* The sessions implement the plain dialogue, when clients await their answers,
\* nobody is heard in the middle of another's request, a read stops after the
\* CSeq header if anywhere inside a request, the buffer holds a request, and the
\* headers that follow the CSeq are longer than what precedes them.  Without
\* the last condition a request cut in two is not answered.
THEOREM SessionsImplementDialogue ==
    ASSUME Plainly
    PROVE  Spec => ImplementsDialogue
<1>1. Init => Dialogue!Init /\ RInv
  BY InitRefines
<1>2. RInv /\ [Next]_vars => RInv'
  BY NextRInv
<1>3. RInv /\ [Next]_vars => [Dialogue!Next]_(Dialogue!dialogueVars)
  BY StepRefines
<1>. QED
  BY <1>1, <1>2, <1>3, PTL DEF Spec, ImplementsDialogue, Dialogue!Spec
=============================================================================
