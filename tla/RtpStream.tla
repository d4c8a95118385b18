------------------------------ MODULE RtpStream ------------------------------
(***************************************************************************)
(* CStreamer::streamFrame and SendRtpPacket: an image is cut into packets, *)
(* each packet goes to every session that is streaming, and the media      *)
(* clock advances by the time since the previous image.                    *)
(*                                                                         *)
(* streamFrame runs to its end before the server loop handles a request,   *)
(* so sessions come, go and play only between two images.  One call of     *)
(* SendRtpPacket is one step.  The clients reassemble images as RFC 2435   *)
(* describes; a packet over UDP may be lost, one over TCP is not.          *)
(***************************************************************************)
EXTENDS Integers

CONSTANTS
    Session,      \* addresses of sessions
    ImageLen,     \* lengths of the scan data of an image
    MaxFragment,  \* MAX_FRAGMENT_SIZE
    SeqMod,       \* 2^16: number of values of m_SequenceNumber
    Word,         \* 2^32: number of values of a uint32_t
    Units,        \* 90000, ticks of the media clock in a second
    Second,       \* 1000, milliseconds in a second
    Lie,          \* 100, the time assumed to have passed when the clock rolls over
    Starts,       \* times at which the program may start, in milliseconds
    Gaps,         \* times between two calls of streamImage
    MaxImages     \* bound: number of calls of streamImage

ASSUME FragmentAssumption ==
    /\ ImageLen \subseteq Nat \ {0}
    /\ MaxFragment \in Nat \ {0}
    /\ SeqMod \in Nat \ {0, 1}

ASSUME ClockAssumption ==
    /\ {Word, Units, Second} \subseteq Nat \ {0}
    /\ Units % Second = 0
    /\ Lie \in Nat /\ Starts \subseteq Nat /\ Gaps \subseteq Nat /\ MaxImages \in Nat

VARIABLES
    sessions,        \* the sessions in m_Clients
    streaming,       \* those with m_streaming
    tcp,             \* those with m_TcpTransport
    sequenceNumber,  \* m_SequenceNumber
    timestamp,       \* m_Timestamp
    prevMsec,        \* m_prevMsec
    sending,         \* the loop of streamFrame runs
    image,           \* the image it sends: len is dataLen, tables whether qtable0 and
                     \* qtable1 are set; history: nr, at, ts, its number, time, timestamp
    offset,          \* its local variable offset
    deltams,         \* its local variable deltams
    receiver,        \* what the client of each session does with its packets
    missed,          \* history: packets a client lost since the last it received
    calls,           \* history: number of calls of streamImage
    now,             \* history: the time in milliseconds, which does not roll over
    start,           \* history: the time of the first call of streamImage
    advanced         \* history: what has been added to m_Timestamp in all

clock == <<timestamp, prevMsec, deltams, calls, now, start, advanced>>
roles == <<sessions, streaming, tcp>>
vars == <<roles, clock, sequenceNumber, sending, image, offset, receiver, missed>>

KRtpHeaderSize == 12
KJpegHeaderSize == 8
TableSize == 4 + 64 * 2

Rate == Units \div Second

-----------------------------------------------------------------------------
(* The receiving client *)

Nothing == -1
NoPicture == [parts |-> {}, len |-> 0]

\* parts and len: the images whose bytes, and how many of them, are put together.
Fresh == [have |-> Nothing, parts |-> {}, seq |-> 0, ts |-> 0, shown |-> NoPicture]

\* The tables are announced by q and stand in the first packet only.
PayloadLen(p) ==
    p.size - KRtpHeaderSize - KJpegHeaderSize
           - IF p.q >= 128 /\ p.offset = 0 THEN TableSize ELSE 0

\* A packet with offset 0 starts a picture; one that continues it in number,
\* offset and timestamp is added; the marker shows what is there.
Receive(r, p) ==
    LET goesOn == r.have = p.offset /\ p.seq = (r.seq + 1) % SeqMod /\ p.ts = r.ts
        have == IF p.offset = 0 \/ goesOn THEN p.offset + PayloadLen(p) ELSE Nothing
        parts == IF p.offset = 0 THEN {p.image} ELSE r.parts \cup {p.image}
        done == p.marker \/ have = Nothing
    IN  [have |-> IF done THEN Nothing ELSE have,
         parts |-> IF done THEN {} ELSE parts,
         seq |-> p.seq,
         ts |-> p.ts,
         shown |-> IF p.marker /\ have # Nothing
                   THEN [parts |-> parts, len |-> have] ELSE r.shown]

-----------------------------------------------------------------------------
(* The sessions, between two images *)

Init ==
    /\ sessions = {} /\ streaming = {} /\ tcp = {}
    /\ sequenceNumber = 0 /\ timestamp = 0 /\ prevMsec = 0
    /\ sending = FALSE
    /\ image = [nr |-> 0, len |-> 0, tables |-> FALSE, at |-> 0, ts |-> 0]
    /\ offset = 0 /\ deltams = 0
    /\ receiver = [s \in Session |-> Fresh]
    /\ missed = [s \in Session |-> 0]
    /\ calls = 0 /\ advanced = 0
    /\ now \in Starts /\ start = now

AddSession(s) ==
    /\ ~sending
    /\ s \notin sessions
    /\ sessions' = sessions \cup {s}
    /\ UNCHANGED <<streaming, tcp, clock, sequenceNumber, sending, image, offset,
                   receiver, missed>>

\* The Transport line of a SETUP.
Setup(s, overTcp) ==
    /\ ~sending
    /\ s \in sessions
    /\ tcp' = IF overTcp THEN tcp \cup {s} ELSE tcp \ {s}
    /\ UNCHANGED <<sessions, streaming, clock, sequenceNumber, sending, image, offset,
                   receiver, missed>>

Play(s) ==
    /\ ~sending
    /\ s \in sessions
    /\ streaming' = streaming \cup {s}
    /\ UNCHANGED <<sessions, tcp, clock, sequenceNumber, sending, image, offset,
                   receiver, missed>>

\* TEARDOWN or a closed connection, and the deletion that follows in the same pass.
Leave(s) ==
    /\ ~sending
    /\ s \in sessions
    /\ sessions' = sessions \ {s}
    /\ streaming' = streaming \ {s}
    /\ tcp' = tcp \ {s}
    /\ receiver' = [receiver EXCEPT ![s] = Fresh]
    /\ missed' = [missed EXCEPT ![s] = 0]
    /\ UNCHANGED <<clock, sequenceNumber, sending, image, offset>>

-----------------------------------------------------------------------------
(* streamFrame *)

\* Mutant: the time of the first image is counted from 0.
DeltaFromZero(curMsec) == IF curMsec >= prevMsec THEN curMsec - prevMsec ELSE Lie

Delta(curMsec) ==
    LET prev == IF prevMsec = 0 THEN curMsec ELSE prevMsec
    IN  IF curMsec >= prev THEN curMsec - prev ELSE Lie

\* streamFrame is called with the clock gap milliseconds further on.
TimeOfCall(gap) ==
    /\ ~sending
    /\ calls < MaxImages
    /\ calls' = calls + 1
    /\ now' = now + gap
    /\ start' = IF calls = 0 THEN now + gap ELSE start
    /\ prevMsec' = (now + gap) % Word

\* The image can be decoded; tables tells whether its quantisation tables were found.
StreamFrame(len, tables, gap) ==
    /\ TimeOfCall(gap)
    /\ deltams' = Delta((now + gap) % Word)
    /\ sending' = TRUE
    /\ image' = [nr |-> calls + 1, len |-> len, tables |-> tables,
                 at |-> now + gap, ts |-> timestamp]
    /\ offset' = 0
    /\ UNCHANGED <<roles, timestamp, advanced, sequenceNumber, receiver, missed>>

\* decodeJPEGfile fails: streamFrame returns with m_prevMsec moved on.
StreamBroken(gap) ==
    /\ TimeOfCall(gap)
    /\ UNCHANGED <<roles, timestamp, deltams, advanced, sequenceNumber, sending, image,
                   offset, receiver, missed>>

\* units * deltams is computed in 32 bits.
Increment(ms) == ((Units * ms) % Word) \div Second

\* The loop condition with what SendRtpPacket returned, and the end of streamFrame.
Continue(returned) ==
    /\ offset' = returned
    /\ sending' = (returned # 0)
    /\ IF returned # 0
       THEN UNCHANGED <<timestamp, advanced>>
       ELSE /\ timestamp' = (timestamp + Increment(deltams)) % Word
            /\ advanced' = advanced + Increment(deltams)
    /\ UNCHANGED <<roles, prevMsec, deltams, calls, now, start, image>>

-----------------------------------------------------------------------------
(* SendRtpPacket *)

FragmentLen ==
    IF MaxFragment + offset > image.len THEN image.len - offset ELSE MaxFragment

\* Mutant: a fragment that ends with the image is not seen to be the last.
IsLastFragmentStrict == offset + FragmentLen > image.len

\* Mutant: the index of the last byte is taken for the length.
IsLastFragmentEarly == offset + FragmentLen >= image.len - 1

IsLastFragment == offset + FragmentLen = image.len

\* Mutant: the tables are put into every packet of the image.
IncludeQuantTblAlways == image.tables

IncludeQuantTbl == image.tables /\ offset = 0

RtpPacketSize ==
    FragmentLen + KRtpHeaderSize + KJpegHeaderSize + IF IncludeQuantTbl THEN TableSize ELSE 0

\* size is the length of the datagram over UDP and stands in the four bytes
\* in front of the packet over TCP; image tells whose bytes the packet carries.
Packet ==
    [seq |-> sequenceNumber, ts |-> timestamp, marker |-> IsLastFragment,
     offset |-> offset, q |-> IF IncludeQuantTbl THEN 128 ELSE 94,
     size |-> RtpPacketSize, image |-> image]

\* socketsend: what is sent over TCP arrives.
SentOverTcp(got) == streaming \cap tcp \subseteq got

\* udpsocketsend: a packet may be lost, fewer than SeqMod are in a row.
SentOverUdp(got) == \A s \in streaming \ got : missed[s] + 1 < SeqMod

\* The packet is sent to every streaming session and arrives at those in got.
SendRtpPacket(got) ==
    /\ sending
    /\ sessions # {}
    /\ SentOverTcp(got)
    /\ SentOverUdp(got)
    /\ receiver' = [s \in Session |-> IF s \in got THEN Receive(receiver[s], Packet)
                                      ELSE receiver[s]]
    /\ missed' = [s \in Session |-> IF s \in got THEN 0
                                    ELSE IF s \in streaming THEN missed[s] + 1 ELSE missed[s]]
    /\ sequenceNumber' = (sequenceNumber + 1) % SeqMod
    /\ Continue(IF IsLastFragment THEN 0 ELSE offset + FragmentLen)

\* Without clients it returns the offset it was given, which is 0.
SendToNobody ==
    /\ sending
    /\ sessions = {}
    /\ UNCHANGED <<sequenceNumber, receiver, missed>>
    /\ Continue(IF IsLastFragment THEN 0 ELSE offset)

Send == (\E got \in SUBSET streaming : SendRtpPacket(got)) \/ SendToNobody

Next ==
    \/ \E s \in Session :
        \/ AddSession(s)
        \/ \E overTcp \in BOOLEAN : Setup(s, overTcp)
        \/ Play(s)
        \/ Leave(s)
    \/ \E gap \in Gaps :
        \/ \E len \in ImageLen, tables \in BOOLEAN : StreamFrame(len, tables, gap)
        \/ StreamBroken(gap)
    \/ Send

\* The loop of streamFrame waits for nothing.
Spec == Init /\ [][Next]_vars /\ WF_vars(Send)

-----------------------------------------------------------------------------
(* Properties *)

Image == [nr : Nat, len : Nat, tables : BOOLEAN, at : Nat, ts : Nat]
Picture == [parts : SUBSET Image, len : Int]
Receiver == [have : Int, parts : SUBSET Image, seq : 0 .. SeqMod - 1, ts : Nat,
             shown : Picture]

TypeOK ==
    /\ streaming \cup tcp \subseteq sessions /\ sessions \subseteq Session
    /\ sequenceNumber \in 0 .. SeqMod - 1
    /\ {timestamp, prevMsec} \subseteq 0 .. Word - 1
    /\ sending \in BOOLEAN
    /\ image \in Image
    /\ offset \in 0 .. image.len
    /\ {deltams, calls, now, start, advanced} \subseteq Nat
    /\ receiver \in [Session -> Receiver]
    /\ missed \in [Session -> 0 .. SeqMod - 1]

\* While streamFrame sends an image, a client over TCP has put together exactly
\* the bytes up to the offset; a client over UDP has too if it received the
\* latest packet and has not given the image up, and they are all of this image.
InStep ==
    sending /\ offset > 0 =>
        \A s \in streaming :
            /\ s \in tcp => missed[s] = 0 /\ receiver[s].have # Nothing
            /\ missed[s] = 0 /\ receiver[s].have # Nothing =>
                   receiver[s].have = offset /\ receiver[s].parts = {image}

\* Whatever packets are lost, whenever a client begins to play and whichever way
\* the lengths fall on the fragment size: a picture that is shown consists of
\* all the bytes of one image and of no other bytes.
PicturesWhole ==
    \A s \in Session : LET v == receiver[s].shown IN
        v # NoPicture => \E i \in v.parts : v = [parts |-> {i}, len |-> i.len]

\* The media clock never gets ahead of the time, but for the lie that is told
\* when the millisecond clock rolls over.
NotAhead ==
    LET rollovers == now \div Word - start \div Word
    IN  advanced <= Rate * (now - start + Lie * rollovers)

\* streamFrame gets to its end and lets the server loop go on.
ImageEnds == sending ~> ~sending

\* Two images that a client shows one after the other carry timestamps as far
\* apart as the images were taken ("Hz per RFC 2435").  This does not hold.
PacedAsTaken ==
    [][\A s \in Session :
          \A i \in receiver[s].shown.parts, j \in receiver'[s].shown.parts :
             j.nr = i.nr + 1 => j.ts - i.ts = Rate * (j.at - i.at)]_vars

-----------------------------------------------------------------------------
(* The clients see a feed of whole pictures. *)

Feed == INSTANCE PictureFeed WITH
    playing <- streaming,
    reliable <- tcp,
    pending <- sending,
    shown <- [s \in Session |-> receiver[s].shown]

\* Every image is shown at one moment and as a whole, by all the clients over
\* TCP and by some of those over UDP, in the order in which the images were taken.
ImplementsFeed == Feed!Spec
=============================================================================
