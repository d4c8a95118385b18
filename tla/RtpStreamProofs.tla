-------------------------- MODULE RtpStreamProofs --------------------------
(***************************************************************************)
(* The RTP stream, for every set of sessions, size of fragments and        *)
(* images, width of the counters and loss of packets.                      *)
(*                                                                         *)
(* A client gives up an image when a packet does not continue it, and it   *)
(* can tell so by the sequence number alone as long as fewer than SeqMod   *)
(* packets are lost in a row (SeqInStep).  So what it holds behind the     *)
(* latest packet is all of the image that is being sent (Assembled).       *)
(***************************************************************************)
EXTENDS RtpStream, TLAPS

\* The loop of streamFrame stands inside an image of a length that occurs.
OffsetInside ==
    /\ ~sending => offset = 0
    /\ sending => offset < image.len
    /\ sessions = {} => offset = 0
    /\ image.nr <= calls

\* Who holds a part of an image knows how many packets it lacks.
SeqInStep ==
    \A s \in Session : receiver[s].have # Nothing =>
        /\ s \in streaming
        /\ receiver[s].seq + 1 + missed[s] \in {sequenceNumber, sequenceNumber + SeqMod}

\* What a client holds behind the latest packet of the image being sent.
Assembled ==
    sending /\ offset > 0 =>
        \A s \in streaming :
            /\ s \in tcp => missed[s] = 0 /\ receiver[s].have # Nothing
            /\ missed[s] = 0 /\ receiver[s].have # Nothing =>
                   /\ receiver[s].have = offset
                   /\ receiver[s].parts = {image}
                   /\ receiver[s].ts = timestamp

IInv ==
    /\ TypeOK
    /\ OffsetInside
    /\ SeqInStep
    /\ Assembled
    /\ PicturesWhole

\* How often the millisecond clock has rolled over since the first call, and the
\* most the media clock may have advanced by now.
Rollovers == now \div Word - start \div Word
Allowed == Rate * (now - start + Lie * Rollovers)

\* The same for the clock: what the image being sent will add is still to come.
ClockInv ==
    /\ start <= now
    /\ calls = 0 => ~sending /\ advanced = 0 /\ prevMsec = 0
    /\ calls # 0 => prevMsec = now % Word
    /\ advanced + (IF sending THEN Rate * deltams ELSE 0) <= Allowed

-----------------------------------------------------------------------------
(* Arithmetic *)

LEMMA ModRange ==
    ASSUME NEW a \in Nat, NEW m \in Nat \ {0}
    PROVE  a % m \in 0 .. m - 1 /\ a % m <= a
OBVIOUS

LEMMA DivNat ==
    ASSUME NEW a \in Nat, NEW m \in Nat \ {0}
    PROVE  a \div m \in Nat
OBVIOUS

LEMMA DivMod ==
    ASSUME NEW a \in Nat, NEW m \in Nat \ {0}
    PROVE  a = m * (a \div m) + (a % m)
OBVIOUS

\* Sequence numbers wrap around at SeqMod.
LEMMA NextSeq ==
    ASSUME NEW n \in 0 .. SeqMod - 1
    PROVE  (n + 1) % SeqMod = IF n + 1 = SeqMod THEN 0 ELSE n + 1
BY FragmentAssumption

LEMMA IncrementNat ==
    ASSUME NEW ms \in Nat
    PROVE  Increment(ms) \in Nat
<1>1. Units * ms \in Nat /\ Word \in Nat \ {0} /\ Second \in Nat \ {0}
  BY ClockAssumption
<1>2. (Units * ms) % Word \in Nat
  BY <1>1, ModRange
<1>. QED
  BY <1>1, <1>2, DivNat DEF Increment

LEMMA DeltaNat ==
    ASSUME NEW cur \in Nat, prevMsec \in Nat
    PROVE  Delta(cur) \in Nat
BY ClockAssumption DEF Delta

-----------------------------------------------------------------------------
(* One packet *)

\* The packet carries a fragment that is not empty and does not go beyond the image.
LEMMA PacketFacts ==
    ASSUME IInv, sending
    PROVE  /\ offset \in Nat /\ image.len \in Nat
           /\ FragmentLen \in Nat \ {0}
           /\ offset + FragmentLen <= image.len
           /\ PayloadLen(Packet) = FragmentLen
<1>1. offset \in Nat /\ image.len \in Nat /\ offset < image.len /\ image.tables \in BOOLEAN
  BY DEF IInv, TypeOK, OffsetInside, Image
<1>2. FragmentLen \in Nat \ {0} /\ offset + FragmentLen <= image.len
  BY <1>1, FragmentAssumption DEF FragmentLen
<1>3. Packet.q >= 128 /\ Packet.offset = 0 <=> IncludeQuantTbl
  BY DEF Packet, IncludeQuantTbl
<1>4. PayloadLen(Packet) = FragmentLen
  <2>1. CASE IncludeQuantTbl
    BY <1>2, <1>3, <2>1 DEF PayloadLen, Packet, RtpPacketSize, KRtpHeaderSize,
                            KJpegHeaderSize, TableSize
  <2>2. CASE ~IncludeQuantTbl
    BY <1>2, <1>3, <2>2 DEF PayloadLen, Packet, RtpPacketSize, KRtpHeaderSize,
                            KJpegHeaderSize, TableSize
  <2>. QED
    BY <2>1, <2>2
<1>. QED
  BY <1>1, <1>2, <1>4

\* A client accepts the packet as a continuation only if it received the packet
\* before it and holds the image up to the offset.
LEMMA ContinuesInStep ==
    ASSUME IInv, sending, offset > 0, NEW s \in streaming,
           receiver[s].have = offset,
           sequenceNumber = (receiver[s].seq + 1) % SeqMod
    PROVE  receiver[s].parts = {image} /\ receiver[s].ts = timestamp
<1>1. /\ s \in Session /\ offset \in Nat
      /\ missed[s] \in 0 .. SeqMod - 1 /\ sequenceNumber \in 0 .. SeqMod - 1
      /\ receiver[s].seq \in 0 .. SeqMod - 1
  BY DEF IInv, TypeOK, Receiver, Image
<1>2. receiver[s].have # Nothing
  BY <1>1 DEF Nothing
<1>3. receiver[s].seq + 1 + missed[s] \in {sequenceNumber, sequenceNumber + SeqMod}
  BY <1>1, <1>2 DEF IInv, SeqInStep
<1>4. sequenceNumber = IF receiver[s].seq + 1 = SeqMod THEN 0 ELSE receiver[s].seq + 1
  BY <1>1, NextSeq
<1>5. missed[s] = 0
  BY <1>1, <1>3, <1>4, FragmentAssumption
<1>. QED
  BY <1>2, <1>5 DEF IInv, Assembled

\* What the packet makes of a client that receives it.
LEMMA ReceiveFacts ==
    ASSUME IInv, sending, NEW s \in streaming, NEW n, n = Receive(receiver[s], Packet)
    PROVE  /\ n \in Receiver
           /\ n.seq = sequenceNumber /\ n.ts = timestamp
           /\ n.have # Nothing => /\ ~IsLastFragment
                                 /\ n.have = offset + FragmentLen
                                 /\ n.parts = {image}
           /\ n.shown # receiver[s].shown =>
                  IsLastFragment /\ n.shown = [parts |-> {image}, len |-> image.len]
           /\ s \in tcp => IF IsLastFragment
                           THEN n.shown = [parts |-> {image}, len |-> image.len]
                           ELSE n.have # Nothing
<1> DEFINE r == receiver[s]
           goesOn == /\ r.have = offset
                     /\ sequenceNumber = (r.seq + 1) % SeqMod
                     /\ timestamp = r.ts
           have == IF offset = 0 \/ goesOn THEN offset + FragmentLen ELSE Nothing
           parts == IF offset = 0 THEN {image} ELSE r.parts \cup {image}
           done == IsLastFragment \/ have = Nothing
<1>1. /\ s \in Session /\ r \in Receiver /\ image \in Image
      /\ timestamp \in Nat /\ sequenceNumber \in 0 .. SeqMod - 1
      /\ missed[s] \in 0 .. SeqMod - 1
  BY ClockAssumption DEF IInv, TypeOK
<1>2. /\ offset \in Nat /\ image.len \in Nat /\ FragmentLen \in Nat \ {0}
      /\ IsLastFragment => offset + FragmentLen = image.len
      /\ PayloadLen(Packet) = FragmentLen
  BY PacketFacts DEF IsLastFragment
<1>3. n = [have |-> IF done THEN Nothing ELSE have,
           parts |-> IF done THEN {} ELSE parts,
           seq |-> sequenceNumber,
           ts |-> timestamp,
           shown |-> IF IsLastFragment /\ have # Nothing
                     THEN [parts |-> parts, len |-> have] ELSE r.shown]
  BY <1>2 DEF Receive, Packet
<1>4. have # Nothing => have = offset + FragmentLen /\ parts = {image}
  <2>1. CASE offset = 0
    BY <2>1
  <2>2. CASE offset # 0 /\ goesOn
    <3>1. r.parts = {image}
      BY <1>2, <2>2, ContinuesInStep
    <3>. QED
      BY <2>2, <3>1
  <2>3. CASE offset # 0 /\ ~goesOn
    BY <2>3
  <2>. QED
    BY <2>1, <2>2, <2>3
<1>5. s \in tcp => have # Nothing
  <2> SUFFICES ASSUME s \in tcp PROVE have # Nothing
    OBVIOUS
  <2>1. CASE offset = 0
    BY <1>2, <2>1 DEF Nothing
  <2>2. CASE offset # 0
    <3>1. missed[s] = 0 /\ r.have = offset /\ r.ts = timestamp
      BY <1>2, <2>2 DEF IInv, Assembled
    <3>2. r.seq + 1 \in {sequenceNumber, sequenceNumber + SeqMod}
      <4>1. r.have # Nothing
        BY <1>2, <3>1 DEF Nothing
      <4>2. r.seq + 1 + missed[s] \in {sequenceNumber, sequenceNumber + SeqMod}
        BY <1>1, <4>1 DEF IInv, SeqInStep
      <4>. QED
        BY <1>1, <3>1, <4>2, FragmentAssumption DEF Receiver
    <3>3. sequenceNumber = (r.seq + 1) % SeqMod
      <4>1. r.seq \in 0 .. SeqMod - 1
        BY <1>1 DEF Receiver
      <4>. HIDE DEF r
      <4>. QED
        BY <1>1, <3>2, <4>1, NextSeq, FragmentAssumption
    <3>. QED
      BY <1>2, <3>1, <3>3 DEF Nothing
  <2>. QED
    BY <2>1, <2>2
<1>6. have \in Int /\ (have # Nothing => parts \in SUBSET Image)
  BY <1>1, <1>2, <1>4 DEF Nothing
<1> HIDE DEF goesOn, have, parts
<1>7. n \in Receiver
  BY <1>1, <1>3, <1>6 DEF Receiver, Picture, Nothing
<1>8. CASE IsLastFragment
  <2>1. /\ n.have = Nothing /\ n.seq = sequenceNumber /\ n.ts = timestamp
        /\ n.shown = IF have # Nothing THEN [parts |-> parts, len |-> have] ELSE r.shown
    BY <1>3, <1>8
  <2>2. have # Nothing => n.shown = [parts |-> {image}, len |-> image.len]
    BY <1>2, <1>4, <1>8, <2>1
  <2>. QED
    BY <1>5, <1>7, <1>8, <2>1, <2>2
<1>9. CASE ~IsLastFragment
  <2>1. /\ n.seq = sequenceNumber /\ n.ts = timestamp
        /\ n.have = have /\ n.shown = r.shown
        /\ have # Nothing => n.parts = parts
    BY <1>3, <1>9
  <2>. QED
    BY <1>4, <1>5, <1>7, <1>9, <2>1
<1>. QED
  BY <1>8, <1>9

-----------------------------------------------------------------------------
(* The inductive invariant *)

LEMMA InitIInv == Init => IInv
<1> SUFFICES ASSUME Init PROVE IInv
  OBVIOUS
<1>1. Fresh \in Receiver /\ NoPicture \in Picture
  BY FragmentAssumption DEF Fresh, NoPicture, Nothing, Receiver, Picture
<1>2. image \in Image
  BY DEF Init, Image
<1>3. TypeOK
  <2>1. receiver \in [Session -> Receiver] /\ missed \in [Session -> 0 .. SeqMod - 1]
    BY <1>1, FragmentAssumption DEF Init
  <2>2. /\ streaming \cup tcp \subseteq sessions /\ sessions \subseteq Session
        /\ sending \in BOOLEAN
    BY DEF Init
  <2>3. /\ sequenceNumber \in 0 .. SeqMod - 1
        /\ {timestamp, prevMsec} \subseteq 0 .. Word - 1
        /\ offset \in 0 .. image.len
    <3>1. image.len = 0 /\ offset = 0 /\ timestamp = 0 /\ prevMsec = 0 /\ sequenceNumber = 0
      BY DEF Init
    <3>. QED
      BY <3>1, FragmentAssumption, ClockAssumption
  <2>4. {deltams, calls, now, start, advanced} \subseteq Nat
    BY ClockAssumption DEF Init
  <2>. QED
    BY <1>2, <2>1, <2>2, <2>3, <2>4 DEF TypeOK
<1>4. \A s \in Session : receiver[s].have = Nothing /\ receiver[s].shown = NoPicture
  BY DEF Init, Fresh
<1>. QED
  BY <1>3, <1>4 DEF Init, IInv, OffsetInside, SeqInStep, Assembled, PicturesWhole

\* Between two images sessions come, go, set up and play.
LEMMA RolesKeepIInv ==
    ASSUME IInv, NEW s \in Session, NEW overTcp \in BOOLEAN,
           AddSession(s) \/ Setup(s, overTcp) \/ Play(s)
    PROVE  IInv'
<1>1. /\ ~sending /\ ~sending'
      /\ streaming \subseteq streaming' /\ sessions \subseteq sessions'
      /\ streaming' \cup tcp' \subseteq sessions' /\ sessions' \subseteq Session
      /\ UNCHANGED <<clock, sequenceNumber, sending, image, offset, receiver, missed>>
  BY DEF IInv, TypeOK, AddSession, Setup, Play
<1>2. TypeOK' /\ OffsetInside'
  BY <1>1 DEF IInv, TypeOK, OffsetInside, clock
<1>3. SeqInStep'
  BY <1>1 DEF IInv, SeqInStep
<1>4. Assembled' /\ PicturesWhole'
  BY <1>1 DEF IInv, Assembled, PicturesWhole
<1>. QED
  BY <1>2, <1>3, <1>4 DEF IInv

LEMMA LeaveKeepsIInv ==
    ASSUME IInv, NEW s \in Session, Leave(s)
    PROVE  IInv'
<1>1. /\ ~sending /\ ~sending'
      /\ streaming' = streaming \ {s} /\ sessions' = sessions \ {s} /\ tcp' = tcp \ {s}
      /\ receiver' = [receiver EXCEPT ![s] = Fresh]
      /\ missed' = [missed EXCEPT ![s] = 0]
      /\ UNCHANGED <<clock, sequenceNumber, sending, image, offset>>
  BY DEF Leave
<1>2. Fresh \in Receiver /\ Fresh.have = Nothing /\ Fresh.shown = NoPicture
  BY FragmentAssumption DEF Fresh, NoPicture, Nothing, Receiver, Picture
<1>3. receiver' \in [Session -> Receiver] /\ missed' \in [Session -> 0 .. SeqMod - 1]
  BY <1>1, <1>2, FragmentAssumption DEF IInv, TypeOK
<1>4. \A t \in Session \ {s} : receiver'[t] = receiver[t] /\ missed'[t] = missed[t]
  BY <1>1 DEF IInv, TypeOK
<1>5. receiver'[s] = Fresh
  BY <1>1 DEF IInv, TypeOK
<1>6. TypeOK' /\ OffsetInside'
  BY <1>1, <1>3 DEF IInv, TypeOK, OffsetInside, clock
<1>7. SeqInStep'
  BY <1>1, <1>2, <1>4, <1>5 DEF IInv, SeqInStep
<1>8. Assembled' /\ PicturesWhole'
  BY <1>1, <1>2, <1>4, <1>5 DEF IInv, Assembled, PicturesWhole
<1>. QED
  BY <1>6, <1>7, <1>8 DEF IInv

LEMMA CallKeepsTypes ==
    ASSUME IInv, NEW gap \in Gaps, TimeOfCall(gap)
    PROVE  /\ (now + gap) % Word \in 0 .. Word - 1
           /\ {calls', now', start'} \subseteq Nat /\ prevMsec' \in 0 .. Word - 1
           /\ calls' = calls + 1 /\ now + gap \in Nat
<1>1. now + gap \in Nat /\ Word \in Nat \ {0} /\ {calls, now, start} \subseteq Nat
  BY ClockAssumption DEF IInv, TypeOK
<1>2. (now + gap) % Word \in 0 .. Word - 1
  BY <1>1, ModRange
<1>. QED
  BY <1>1, <1>2 DEF TimeOfCall

LEMMA StreamFrameKeepsIInv ==
    ASSUME IInv, NEW len \in ImageLen, NEW tables \in BOOLEAN, NEW gap \in Gaps,
           StreamFrame(len, tables, gap)
    PROVE  IInv'
<1>1. /\ ~sending /\ sending' /\ offset' = 0
      /\ deltams' = Delta((now + gap) % Word)
      /\ image' = [nr |-> calls + 1, len |-> len, tables |-> tables,
                   at |-> now + gap, ts |-> timestamp]
      /\ UNCHANGED <<roles, timestamp, advanced, sequenceNumber, receiver, missed>>
      /\ TimeOfCall(gap)
  BY DEF StreamFrame, TimeOfCall
<1>2. /\ (now + gap) % Word \in 0 .. Word - 1
      /\ {calls', now', start'} \subseteq Nat /\ prevMsec' \in 0 .. Word - 1
      /\ calls' = calls + 1 /\ now + gap \in Nat
  BY <1>1, CallKeepsTypes
<1>3. len \in Nat \ {0} /\ timestamp \in Nat /\ calls \in Nat /\ prevMsec \in Nat
  BY FragmentAssumption, ClockAssumption DEF IInv, TypeOK
<1>4. image' \in Image /\ image'.len = len /\ image'.nr = calls + 1
  BY <1>1, <1>2, <1>3 DEF Image
<1>5. deltams' \in Nat
  BY <1>1, <1>2, <1>3, DeltaNat, ClockAssumption
<1>6. TypeOK'
  BY <1>1, <1>2, <1>3, <1>4, <1>5 DEF IInv, TypeOK, roles
<1>7. OffsetInside'
  BY <1>1, <1>2, <1>3, <1>4 DEF OffsetInside
<1>8. SeqInStep' /\ PicturesWhole'
  BY <1>1 DEF IInv, SeqInStep, PicturesWhole, roles
<1>9. Assembled'
  BY <1>1 DEF Assembled
<1>. QED
  BY <1>6, <1>7, <1>8, <1>9 DEF IInv

LEMMA StreamBrokenKeepsIInv ==
    ASSUME IInv, NEW gap \in Gaps, StreamBroken(gap)
    PROVE  IInv'
<1>1. /\ UNCHANGED <<roles, timestamp, deltams, advanced, sequenceNumber, sending, image,
                     offset, receiver, missed>>
      /\ ~sending
      /\ TimeOfCall(gap)
  BY DEF StreamBroken, TimeOfCall
<1>2. /\ {calls', now', start'} \subseteq Nat /\ prevMsec' \in 0 .. Word - 1
      /\ calls' = calls + 1
  BY <1>1, CallKeepsTypes
<1>3. TypeOK' /\ OffsetInside'
  BY <1>1, <1>2 DEF IInv, TypeOK, OffsetInside, roles, Image
<1>4. SeqInStep' /\ PicturesWhole' /\ Assembled'
  BY <1>1 DEF IInv, SeqInStep, PicturesWhole, Assembled, roles
<1>. QED
  BY <1>3, <1>4 DEF IInv

\* The step of the loop of streamFrame, whoever the packet was sent to.
LEMMA ContinueFacts ==
    ASSUME IInv, sending, NEW returned \in Nat, returned < image.len, Continue(returned)
    PROVE  /\ offset' = returned /\ (sending' <=> returned # 0)
           /\ sending' \in BOOLEAN
           /\ UNCHANGED <<roles, prevMsec, deltams, calls, now, start, image>>
           /\ sending' => timestamp' = timestamp
           /\ timestamp' \in 0 .. Word - 1 /\ advanced' \in Nat
<1>1. /\ offset' = returned /\ sending' = (returned # 0)
      /\ UNCHANGED <<roles, prevMsec, deltams, calls, now, start, image>>
      /\ IF returned # 0 THEN UNCHANGED <<timestamp, advanced>>
         ELSE /\ timestamp' = (timestamp + Increment(deltams)) % Word
              /\ advanced' = advanced + Increment(deltams)
      /\ sending' \in BOOLEAN /\ (sending' <=> returned # 0)
  BY Zenon DEF Continue
<1>2. /\ timestamp \in 0 .. Word - 1 /\ advanced \in Nat
      /\ Increment(deltams) \in Nat /\ Word \in Nat \ {0}
  BY IncrementNat, ClockAssumption DEF IInv, TypeOK
<1>3. (timestamp + Increment(deltams)) % Word \in 0 .. Word - 1
  <2>1. timestamp + Increment(deltams) \in Nat
    BY <1>2
  <2>. QED
    BY <1>2, <2>1, ModRange
<1>. QED
  BY <1>1, <1>2, <1>3

LEMMA SendToNobodyKeepsIInv ==
    ASSUME IInv, SendToNobody
    PROVE  IInv' /\ ~sending'
<1>1. /\ sending /\ sessions = {} /\ offset = 0 /\ image.len \in Nat \ {0}
      /\ UNCHANGED <<sequenceNumber, receiver, missed>>
      /\ Continue(0)
  BY DEF SendToNobody, IInv, OffsetInside, TypeOK, Image
<1>2. /\ offset' = 0 /\ ~sending'
      /\ UNCHANGED <<roles, prevMsec, deltams, calls, now, start, image>>
      /\ timestamp' \in 0 .. Word - 1 /\ advanced' \in Nat /\ sending' \in BOOLEAN
  BY <1>1, ContinueFacts
<1>3. TypeOK' /\ OffsetInside'
  BY <1>1, <1>2 DEF IInv, TypeOK, OffsetInside, roles, Image
<1>4. SeqInStep' /\ PicturesWhole' /\ Assembled'
  BY <1>1, <1>2 DEF IInv, SeqInStep, PicturesWhole, Assembled, roles
<1>. QED
  BY <1>2, <1>3, <1>4 DEF IInv

\* What a packet that arrives at got changes.
LEMMA SendRtpPacketFacts ==
    ASSUME IInv, NEW got \in SUBSET streaming, SendRtpPacket(got)
    PROVE  /\ sending /\ offset \in Nat /\ got \subseteq Session
           /\ streaming \cap tcp \subseteq got
           /\ offset' = IF IsLastFragment THEN 0 ELSE offset + FragmentLen
           /\ FragmentLen \in Nat \ {0} /\ offset' < image.len
           /\ sending' \in BOOLEAN /\ (sending' <=> ~IsLastFragment)
           /\ UNCHANGED <<roles, prevMsec, deltams, calls, now, start, image>>
           /\ sending' => timestamp' = timestamp
           /\ timestamp' \in 0 .. Word - 1 /\ advanced' \in Nat
           /\ \A s \in got : missed'[s] = 0 /\ receiver'[s] = Receive(receiver[s], Packet)
           /\ \A s \in Session \ got :
                  /\ receiver'[s] = receiver[s]
                  /\ IF s \in streaming THEN missed'[s] = missed[s] + 1 /\ missed[s] + 1 < SeqMod
                                       ELSE missed'[s] = missed[s]
<1> DEFINE returned == IF IsLastFragment THEN 0 ELSE offset + FragmentLen
<1>1. /\ sending /\ streaming \cap tcp \subseteq got
      /\ got \subseteq Session
      /\ \A s \in streaming \ got : missed[s] + 1 < SeqMod
      /\ receiver' = [s \in Session |-> IF s \in got THEN Receive(receiver[s], Packet)
                                        ELSE receiver[s]]
      /\ missed' = [s \in Session |-> IF s \in got THEN 0
                       ELSE IF s \in streaming THEN missed[s] + 1 ELSE missed[s]]
      /\ Continue(returned)
  BY DEF SendRtpPacket, SentOverTcp, SentOverUdp, IInv, TypeOK
<1>2. /\ offset \in Nat /\ image.len \in Nat /\ FragmentLen \in Nat \ {0}
      /\ returned \in Nat /\ returned < image.len
      /\ returned # 0 <=> ~IsLastFragment
  BY <1>1, PacketFacts DEF IsLastFragment
<1>. HIDE DEF returned
<1>3. /\ offset' = returned /\ (sending' <=> returned # 0) /\ sending' \in BOOLEAN
      /\ UNCHANGED <<roles, prevMsec, deltams, calls, now, start, image>>
      /\ sending' => timestamp' = timestamp
      /\ timestamp' \in 0 .. Word - 1 /\ advanced' \in Nat
  BY <1>1, <1>2, ContinueFacts
<1>4. /\ \A s \in got : missed'[s] = 0 /\ receiver'[s] = Receive(receiver[s], Packet)
      /\ \A s \in Session \ got :
             /\ receiver'[s] = receiver[s]
             /\ IF s \in streaming THEN missed'[s] = missed[s] + 1 /\ missed[s] + 1 < SeqMod
                                  ELSE missed'[s] = missed[s]
  BY <1>1
<1>5. /\ offset' = IF IsLastFragment THEN 0 ELSE offset + FragmentLen
      /\ offset' < image.len /\ (sending' <=> ~IsLastFragment)
  BY <1>2, <1>3 DEF returned
<1>. QED
  BY <1>1, <1>2, <1>3, <1>4, <1>5

LEMMA SendRtpPacketKeepsIInv ==
    ASSUME IInv, NEW got \in SUBSET streaming, SendRtpPacket(got)
    PROVE  IInv'
<1>1. /\ sending /\ offset \in Nat /\ got \subseteq Session
      /\ streaming \cap tcp \subseteq got
      /\ offset' = IF IsLastFragment THEN 0 ELSE offset + FragmentLen
      /\ FragmentLen \in Nat \ {0} /\ offset' < image.len
      /\ sending' \in BOOLEAN /\ (sending' <=> ~IsLastFragment)
      /\ UNCHANGED <<roles, prevMsec, deltams, calls, now, start, image>>
      /\ sending' => timestamp' = timestamp
      /\ timestamp' \in 0 .. Word - 1 /\ advanced' \in Nat
  BY SendRtpPacketFacts
<1>2. \A s \in got : missed'[s] = 0 /\ receiver'[s] = Receive(receiver[s], Packet)
  BY SendRtpPacketFacts
<1>3. \A s \in Session \ got :
         /\ receiver'[s] = receiver[s]
         /\ IF s \in streaming THEN missed'[s] = missed[s] + 1 /\ missed[s] + 1 < SeqMod
                              ELSE missed'[s] = missed[s]
  BY SendRtpPacketFacts
<1>4. \A s \in got :
         /\ receiver'[s] \in Receiver
         /\ receiver'[s].seq = sequenceNumber /\ receiver'[s].ts = timestamp
         /\ receiver'[s].have # Nothing => /\ ~IsLastFragment
                                          /\ receiver'[s].have = offset + FragmentLen
                                          /\ receiver'[s].parts = {image}
         /\ receiver'[s].shown # receiver[s].shown =>
                receiver'[s].shown = [parts |-> {image}, len |-> image.len]
         /\ s \in tcp /\ ~IsLastFragment => receiver'[s].have # Nothing
  <2> SUFFICES ASSUME NEW s \in got, NEW n, n = receiver'[s]
               PROVE  /\ n \in Receiver
                      /\ n.seq = sequenceNumber /\ n.ts = timestamp
                      /\ n.have # Nothing => /\ ~IsLastFragment
                                            /\ n.have = offset + FragmentLen
                                            /\ n.parts = {image}
                      /\ n.shown # receiver[s].shown =>
                             n.shown = [parts |-> {image}, len |-> image.len]
                      /\ s \in tcp /\ ~IsLastFragment => n.have # Nothing
    OBVIOUS
  <2>1. n = Receive(receiver[s], Packet) /\ s \in streaming
    BY <1>2
  <2>. QED
    BY <1>1, <2>1, ReceiveFacts
<1>5. /\ sequenceNumber' = IF sequenceNumber + 1 = SeqMod THEN 0 ELSE sequenceNumber + 1
      /\ sequenceNumber \in 0 .. SeqMod - 1
      /\ \A s \in Session : missed[s] \in 0 .. SeqMod - 1 /\ receiver[s] \in Receiver
  BY NextSeq DEF SendRtpPacket, IInv, TypeOK
<1>6. TypeOK'
  <2>1. DOMAIN receiver' = Session /\ receiver' = [s \in Session |-> receiver'[s]]
        /\ missed' = [s \in Session |-> missed'[s]]
    BY DEF SendRtpPacket
  <2>2. receiver' \in [Session -> Receiver]
    BY <1>3, <1>4, <1>5, <2>1
  <2>3. missed' \in [Session -> 0 .. SeqMod - 1]
    <3>1. \A s \in Session : missed'[s] \in 0 .. SeqMod - 1
      BY <1>1, <1>2, <1>3, <1>5, FragmentAssumption
    <3>. QED
      BY <2>1, <3>1
  <2>4. sequenceNumber' \in 0 .. SeqMod - 1 /\ offset' \in 0 .. image.len
    BY <1>1, <1>5, FragmentAssumption DEF IInv, TypeOK, Image
  <2>. QED
    BY <1>1, <2>2, <2>3, <2>4 DEF IInv, TypeOK, roles
<1>7. OffsetInside'
  BY <1>1 DEF IInv, OffsetInside, roles, SendRtpPacket
<1>8. SeqInStep'
  <2> SUFFICES ASSUME NEW s \in Session, receiver'[s].have # Nothing
               PROVE  /\ s \in streaming'
                      /\ receiver'[s].seq + 1 + missed'[s]
                            \in {sequenceNumber', sequenceNumber' + SeqMod}
    BY DEF SeqInStep
  <2>1. CASE s \in got
    BY <1>1, <1>2, <1>4, <1>5, <2>1, FragmentAssumption DEF roles
  <2>2. CASE s \notin got
    <3>1. /\ s \in streaming
          /\ receiver[s].seq + 1 + missed[s] \in {sequenceNumber, sequenceNumber + SeqMod}
      BY <1>3, <2>2 DEF IInv, SeqInStep
    <3>2. /\ receiver'[s].seq = receiver[s].seq /\ receiver[s].seq \in 0 .. SeqMod - 1
          /\ missed'[s] = missed[s] + 1 /\ missed[s] + 1 < SeqMod
      BY <1>3, <1>5, <2>2, <3>1 DEF Receiver
    <3>. QED
      BY <1>1, <1>5, <3>1, <3>2, FragmentAssumption DEF roles
  <2>. QED
    BY <2>1, <2>2
<1>9. Assembled'
  <2> SUFFICES ASSUME ~IsLastFragment, sending', NEW s \in streaming
               PROVE  /\ s \in tcp => missed'[s] = 0 /\ receiver'[s].have # Nothing
                      /\ missed'[s] = 0 /\ receiver'[s].have # Nothing =>
                             /\ receiver'[s].have = offset + FragmentLen
                             /\ receiver'[s].parts = {image}
                             /\ receiver'[s].ts = timestamp
    BY <1>1 DEF Assembled, roles
  <2>1. CASE s \in got
    BY <1>2, <1>4, <2>1
  <2>2. CASE s \notin got
    <3>1. s \in Session /\ s \notin tcp /\ missed'[s] = missed[s] + 1 /\ missed[s] \in Nat
      BY <1>1, <1>3, <1>5, <2>2 DEF IInv, TypeOK
    <3>. QED
      BY <3>1
  <2>. QED
    BY <2>1, <2>2
<1>10. PicturesWhole'
  <2> SUFFICES ASSUME NEW s \in Session, receiver'[s].shown # NoPicture
               PROVE  \E i \in receiver'[s].shown.parts :
                         receiver'[s].shown = [parts |-> {i}, len |-> i.len]
    BY DEF PicturesWhole
  <2>1. CASE receiver'[s].shown = receiver[s].shown
    BY <2>1 DEF IInv, PicturesWhole
  <2>2. CASE receiver'[s].shown # receiver[s].shown
    <3>1. receiver'[s].shown = [parts |-> {image}, len |-> image.len]
      BY <1>3, <1>4, <2>2
    <3>2. image \in receiver'[s].shown.parts
      BY <3>1
    <3>. QED
      BY <3>1, <3>2, Zenon
  <2>. QED
    BY <2>1, <2>2
<1>. QED
  BY <1>6, <1>7, <1>8, <1>9, <1>10 DEF IInv

LEMMA NextKeepsIInv == IInv /\ [Next]_vars => IInv'
<1> SUFFICES ASSUME IInv, [Next]_vars PROVE IInv'
  OBVIOUS
<1>1. ASSUME NEW s \in Session, NEW overTcp \in BOOLEAN,
             AddSession(s) \/ Setup(s, overTcp) \/ Play(s)
      PROVE  IInv'
  BY <1>1, RolesKeepIInv
<1>2. ASSUME NEW s \in Session, Leave(s) PROVE IInv'
  BY <1>2, LeaveKeepsIInv
<1>3. ASSUME NEW len \in ImageLen, NEW tables \in BOOLEAN, NEW gap \in Gaps,
             StreamFrame(len, tables, gap)
      PROVE  IInv'
  BY <1>3, StreamFrameKeepsIInv
<1>4. ASSUME NEW gap \in Gaps, StreamBroken(gap) PROVE IInv'
  BY <1>4, StreamBrokenKeepsIInv
<1>5. ASSUME NEW got \in SUBSET streaming, SendRtpPacket(got) PROVE IInv'
  BY <1>5, SendRtpPacketKeepsIInv
<1>6. CASE SendToNobody
  BY <1>6, SendToNobodyKeepsIInv
<1>7. CASE UNCHANGED vars
  BY <1>7 DEF vars, roles, clock, IInv, TypeOK, OffsetInside, SeqInStep, Assembled,
              PicturesWhole, Image, Receiver, Picture
<1>. QED
  BY <1>1, <1>2, <1>3, <1>4, <1>5, <1>6, <1>7 DEF Next, Send

LEMMA Invariance == Spec => []IInv
BY InitIInv, NextKeepsIInv, PTL DEF Spec

\* The variables keep their types: counters stay below their modulus, offsets
\* inside the image.
THEOREM TypeCorrect == Spec => []TypeOK
<1>1. IInv => TypeOK
  BY DEF IInv
<1>. QED
  BY <1>1, Invariance, PTL

\* While streamFrame sends an image, clients that received the latest packet hold
\* exactly the bytes sent so far, and clients over TCP always do.
THEOREM ClientsInStep == Spec => []InStep
<1>1. IInv => InStep
  BY DEF IInv, Assembled, InStep
<1>. QED
  BY <1>1, Invariance, PTL

\* No client ever shows a picture with missing bytes or bytes of another image.
THEOREM OnlyWholePictures == Spec => []PicturesWhole
<1>1. IInv => PicturesWhole
  BY DEF IInv
<1>. QED
  BY <1>1, Invariance, PTL

-----------------------------------------------------------------------------
(* The clients see a feed of whole pictures. *)

pictures == [s \in Session |-> receiver[s].shown]

\* The last packet shows the image to whoever has put it together, the others
\* show nothing.
LEMMA SendRtpPacketShows ==
    ASSUME IInv, NEW got \in SUBSET streaming, SendRtpPacket(got)
    PROVE  Feed!Next \/ UNCHANGED Feed!vars
<1>1. /\ sending /\ got \subseteq Session /\ streaming \cap tcp \subseteq got
      /\ sending' \in BOOLEAN /\ (sending' <=> ~IsLastFragment)
      /\ UNCHANGED <<streaming, tcp, image>>
      /\ \A s \in Session \ got : receiver'[s] = receiver[s]
  BY SendRtpPacketFacts DEF roles
<1>2. \A s \in got :
         /\ receiver'[s].shown # receiver[s].shown =>
                /\ IsLastFragment
                /\ receiver'[s].shown = [parts |-> {image}, len |-> image.len]
         /\ s \in tcp /\ IsLastFragment =>
                receiver'[s].shown = [parts |-> {image}, len |-> image.len]
  <2> SUFFICES ASSUME NEW s \in got, NEW n, n = receiver'[s]
               PROVE  /\ n.shown # receiver[s].shown =>
                             /\ IsLastFragment
                             /\ n.shown = [parts |-> {image}, len |-> image.len]
                      /\ s \in tcp /\ IsLastFragment =>
                             n.shown = [parts |-> {image}, len |-> image.len]
    OBVIOUS
  <2>1. n = Receive(receiver[s], Packet) /\ s \in streaming
    BY SendRtpPacketFacts
  <2>. QED
    BY <1>1, <2>1, ReceiveFacts
<1>3. CASE ~IsLastFragment
  <2>1. \A s \in Session : receiver'[s].shown = receiver[s].shown
    BY <1>1, <1>2, <1>3
  <2>2. pictures' = pictures
    BY <2>1 DEF pictures
  <2>. QED
    BY <1>1, <1>3, <2>2 DEF Feed!vars, pictures
<1>4. CASE IsLastFragment
  <2>1. PICK showing \in SUBSET streaming :
           showing = {s \in got : receiver'[s].shown = [parts |-> {image}, len |-> image.len]}
    OBVIOUS
  <2>2. streaming \cap tcp \subseteq showing
    BY <1>1, <1>2, <1>4, <2>1
  <2>3. \A s \in Session :
           receiver'[s].shown = IF s \in showing THEN Feed!Whole(image) ELSE receiver[s].shown
    BY <1>1, <1>2, <2>1 DEF Feed!Whole
  <2>4. pictures' = [s \in Session |-> IF s \in showing THEN Feed!Whole(image) ELSE pictures[s]]
    BY <2>3 DEF pictures
  <2>5. Feed!Show(showing)
    BY <1>1, <1>4, <2>2, <2>4 DEF Feed!Show, pictures
  <2>. QED
    BY <2>5 DEF Feed!Next
<1>. QED
  BY <1>3, <1>4

LEMMA StepsShow ==
    ASSUME IInv, [Next]_vars
    PROVE  Feed!Next \/ UNCHANGED Feed!vars
<1>1. ASSUME NEW s \in Session, AddSession(s)
      PROVE  UNCHANGED Feed!vars
  BY <1>1 DEF AddSession, Feed!vars
<1>2. ASSUME NEW s \in Session, NEW overTcp \in BOOLEAN, Setup(s, overTcp)
      PROVE  Feed!Connection(s)
  BY <1>2 DEF Setup, Feed!Connection
<1>3. ASSUME NEW s \in Session, Play(s)
      PROVE  Feed!Play(s)
  BY <1>3 DEF Play, Feed!Play
<1>4. ASSUME NEW s \in Session, Leave(s)
      PROVE  Feed!Leave(s)
  <2>1. receiver' = [receiver EXCEPT ![s] = Fresh] /\ receiver \in [Session -> Receiver]
    BY <1>4 DEF Leave, IInv, TypeOK
  <2>2. pictures' = [pictures EXCEPT ![s] = NoPicture]
    BY <2>1 DEF pictures, Fresh
  <2>. QED
    BY <1>4, <2>2 DEF Leave, Feed!Leave, pictures
<1>5. ASSUME NEW len \in ImageLen, NEW tables \in BOOLEAN, NEW gap \in Gaps,
             StreamFrame(len, tables, gap)
      PROVE  Feed!Take
  <2>1. /\ ~sending /\ sending' = TRUE /\ image'.nr = calls + 1
        /\ UNCHANGED <<streaming, tcp, receiver>>
    BY <1>5 DEF StreamFrame, TimeOfCall, roles
  <2>2. calls + 1 > image.nr
    BY DEF IInv, TypeOK, OffsetInside, Image
  <2>. QED
    BY <2>1, <2>2 DEF Feed!Take
<1>6. ASSUME NEW gap \in Gaps, StreamBroken(gap)
      PROVE  UNCHANGED Feed!vars
  BY <1>6 DEF StreamBroken, Feed!vars, roles
<1>7. ASSUME NEW got \in SUBSET streaming, SendRtpPacket(got)
      PROVE  Feed!Next \/ UNCHANGED Feed!vars
  BY <1>7, SendRtpPacketShows
<1>8. CASE SendToNobody
  <2>1. sending /\ ~sending' /\ sending' \in BOOLEAN
    BY <1>8, SendToNobodyKeepsIInv DEF SendToNobody, IInv, TypeOK
  <2>2. streaming = {} /\ UNCHANGED <<streaming, tcp, image, receiver>>
    BY <1>8 DEF SendToNobody, Continue, IInv, TypeOK, roles
  <2>3. Feed!Show({})
    BY <2>1, <2>2 DEF Feed!Show
  <2>. QED
    BY <2>2, <2>3 DEF Feed!Next
<1>9. CASE UNCHANGED vars
  BY <1>9 DEF vars, roles, Feed!vars
<1>. QED
  BY <1>1, <1>2, <1>3, <1>4, <1>5, <1>6, <1>7, <1>8, <1>9 DEF Next, Send, Feed!Next

\* The stream implements the feed: each image is shown at one moment, whole, by
\* everybody who plays it over TCP and by some of the others.
THEOREM StreamImplementsFeed == Spec => ImplementsFeed
<1>1. Init => Feed!Init
  <2> SUFFICES ASSUME Init PROVE Feed!Init
    OBVIOUS
  <2>1. pictures = [s \in Session |-> NoPicture]
    BY DEF Init, pictures, Fresh
  <2>. QED
    BY <2>1 DEF Init, Feed!Init, pictures
<1>2. IInv /\ [Next]_vars => [Feed!Next]_(Feed!vars)
  BY StepsShow
<1>. QED
  BY <1>1, <1>2, Invariance, PTL DEF Spec, ImplementsFeed, Feed!Spec

-----------------------------------------------------------------------------
(* The media clock *)

\* The 32-bit product divided by Second is never more than what the time is worth.
LEMMA IncrementBound ==
    ASSUME NEW ms \in Nat
    PROVE  Increment(ms) \in Nat /\ Increment(ms) <= Rate * ms
<1>1. /\ Units \in Nat /\ Word \in Nat \ {0} /\ Second \in Nat \ {0}
      /\ Rate \in Nat /\ Units = Second * Rate
  BY ClockAssumption, DivNat DEF Rate
<1>2. /\ Units * ms \in Nat /\ Rate * ms \in Nat
      /\ Units * ms = Second * (Rate * ms)
  BY <1>1
<1>3. (Units * ms) % Word \in Nat /\ (Units * ms) % Word <= Units * ms
  <2>1. \A a \in Nat : a % Word \in Nat /\ a % Word <= a
    BY <1>1, ModRange
  <2>. QED
    BY <1>2, <2>1
<1>4. ASSUME NEW a \in Nat, NEW k \in Nat, NEW m \in Nat \ {0}, a <= m * k
      PROVE  a \div m <= k
  BY <1>4
<1>. QED
  BY <1>1, <1>2, <1>3, <1>4, IncrementNat DEF Increment

\* If the remainder of the time has fallen, the quotient has grown.
LEMMA RollOver ==
    ASSUME NEW t \in Nat, NEW gap \in Nat, NEW m \in Nat \ {0}
    PROVE  /\ t \div m \in Nat /\ (t + gap) \div m \in Nat
           /\ t \div m <= (t + gap) \div m
           /\ (t + gap) % m >= t % m => ((t + gap) % m) - (t % m) <= gap
           /\ (t + gap) % m < t % m => t \div m + 1 <= (t + gap) \div m
<1> DEFINE q == t \div m  p == (t + gap) \div m
           r == t % m  c == (t + gap) % m
<1>1. t + gap \in Nat
  OBVIOUS
<1>2. /\ q \in Nat /\ p \in Nat /\ r \in 0 .. m - 1 /\ c \in 0 .. m - 1
      /\ t = m * q + r /\ t + gap = m * p + c
  BY <1>1, ModRange, DivNat, DivMod
<1>. HIDE DEF q, p, r, c
<1>3. q <= p
  <2>1. ASSUME p + 1 <= q PROVE FALSE
    <3>1. m * (p + 1) <= m * q /\ m * (p + 1) = m * p + m
      BY <1>2, <2>1
    <3>. QED
      BY <1>2, <3>1
  <2>. QED
    BY <1>2, <2>1
<1>4. m * q <= m * p
  BY <1>2, <1>3
<1>5. c >= r => c - r <= gap
  BY <1>2, <1>4
<1>6. c < r => q # p
  BY <1>2
<1>7. c < r => q + 1 <= p
  BY <1>2, <1>3, <1>6
<1>. QED
  BY <1>2, <1>3, <1>5, <1>7 DEF q, p, r, c

LEMMA ClockTypes ==
    ASSUME IInv
    PROVE  /\ {deltams, calls, now, start, advanced, prevMsec} \subseteq Nat
           /\ Word \in Nat \ {0} /\ Lie \in Nat /\ Rate \in Nat /\ Gaps \subseteq Nat
           /\ now \div Word \in Nat /\ start \div Word \in Nat
<1>1. /\ {deltams, calls, now, start, advanced, prevMsec} \subseteq Nat
      /\ Word \in Nat \ {0} /\ Lie \in Nat /\ Gaps \subseteq Nat
      /\ Units \in Nat /\ Second \in Nat \ {0}
  BY ClockAssumption DEF IInv, TypeOK
<1>2. Rate \in Nat
  BY <1>1, DivNat DEF Rate
<1>3. now \div Word \in Nat /\ start \div Word \in Nat
  BY <1>1, DivNat
<1>. QED
  BY <1>1, <1>2, <1>3

\* What a call of streamFrame at a later time may count and what it counts.
LEMMA CallCounts ==
    ASSUME IInv, ClockInv, ~sending, NEW gap \in Gaps, TimeOfCall(gap)
    PROVE  LET d == Delta((now + gap) % Word)
           IN  d \in Nat /\ advanced <= Allowed' /\ advanced + Rate * d <= Allowed'
<1> DEFINE d == Delta((now + gap) % Word)
           q == now \div Word
           p == (now + gap) \div Word
           z == start \div Word
<1>1. /\ {calls, now, start, advanced, prevMsec} \subseteq Nat /\ gap \in Nat
      /\ Word \in Nat \ {0} /\ Lie \in Nat /\ Rate \in Nat
      /\ q \in Nat /\ z \in Nat
  BY ClockTypes
<1>2. /\ now' = now + gap
      /\ start' = IF calls = 0 THEN now + gap ELSE start
  BY DEF TimeOfCall
<1>3. p \in Nat /\ q <= p /\ (now + gap) % Word \in Nat /\ now % Word \in Nat
  <2>1. now + gap \in Nat
    BY <1>1
  <2>2. \A a \in Nat : a % Word \in Nat
    BY <1>1, ModRange
  <2>3. p \in Nat /\ q <= p
    BY <1>1, RollOver
  <2>. QED
    BY <1>1, <2>1, <2>2, <2>3
<1>4. d \in Nat
  BY <1>1, <1>3, DeltaNat
<1>5. CASE calls = 0
  <2>1. advanced = 0 /\ d = 0
    BY <1>1, <1>3, <1>5 DEF ClockInv, Delta
  <2>2. Allowed' = Rate * (now' - now' + Lie * (now' \div Word - now' \div Word))
    BY <1>2, <1>5 DEF Allowed, Rollovers, Rate
  <2>3. Allowed' = 0
    BY <1>1, <1>2, <1>3, <2>2
  <2>. QED
    BY <1>1, <1>4, <2>1, <2>3
<1>6. CASE calls # 0
  <2>1. prevMsec = now % Word /\ advanced <= Rate * (now - start + Lie * (q - z))
    BY <1>1, <1>6 DEF ClockInv, Allowed, Rollovers
  <2>2. Allowed' = Rate * (now + gap - start + Lie * (p - z))
    <3>1. Rollovers' = p - z /\ Rate' = Rate
      BY <1>2, <1>6 DEF Rollovers, Rate
    <3>2. Allowed' = Rate * (now' - start' + Lie * Rollovers')
      BY <3>1 DEF Allowed
    <3>3. now' = now + gap /\ start' = start
      BY <1>2, <1>6
    <3>4. Rollovers' \in Int
      BY <1>1, <1>3, <3>1
    <3>. QED
      BY <1>1, <1>3, <3>1, <3>2, <3>3, <3>4
  <2>3. Lie * (p - q) \in Nat /\ (q + 1 <= p => Lie <= Lie * (p - q))
    BY <1>1, <1>3
  <2>4. d <= gap + Lie * (p - q)
    <3>1. /\ (now + gap) % Word >= now % Word => ((now + gap) % Word) - (now % Word) <= gap
          /\ (now + gap) % Word < now % Word => q + 1 <= p
      BY <1>1, RollOver
    <3>2. \/ d = 0
          \/ (now + gap) % Word >= now % Word /\ d = ((now + gap) % Word) - (now % Word)
          \/ (now + gap) % Word < now % Word /\ d = Lie
      BY <1>1, <1>3, <2>1 DEF Delta
    <3>. HIDE DEF d, p, q
    <3>. QED
      BY <1>1, <1>3, <2>3, <3>1, <3>2
  <2>. DEFINE A == now - start + Lie * (q - z)
              B == gap + Lie * (p - q)
  <2>5. now + gap - start + Lie * (p - z) = A + B
    <3>. HIDE DEF d, p, q, z
    <3>1. Lie * (p - z) = Lie * (q - z) + Lie * (p - q)
      BY <1>1, <1>3
    <3>2. Lie * (p - z) \in Int /\ Lie * (q - z) \in Int /\ Lie * (p - q) \in Int
      BY <1>1, <1>3
    <3>. QED
      BY <1>1, <3>1, <3>2
  <2>6. A \in Int /\ B \in Nat
    <3>. HIDE DEF d, p, q, z
    <3>1. Lie * (q - z) \in Int
      BY <1>1, <1>3
    <3>. QED
      BY <1>1, <2>3, <3>1
  <2>7. advanced <= Rate * A /\ d <= B /\ Allowed' = Rate * (A + B)
    BY <2>1, <2>2, <2>4, <2>5
  <2>. HIDE DEF A, B, d
  <2>8. Rate * (A + B) = Rate * A + Rate * B /\ Rate * d <= Rate * B
    BY <1>1, <1>4, <2>6, <2>7
  <2>9. Rate * A \in Int /\ Rate * B \in Nat /\ Rate * d \in Nat
    BY <1>1, <1>4, <2>6
  <2>. QED
    BY <1>1, <1>4, <2>7, <2>8, <2>9 DEF d
<1>. QED
  BY <1>5, <1>6

LEMMA InitClockInv == Init => ClockInv
<1> SUFFICES ASSUME Init PROVE ClockInv
  OBVIOUS
<1>1. /\ start = now /\ now \in Nat /\ ~sending /\ advanced = 0 /\ prevMsec = 0 /\ calls = 0
      /\ Lie \in Nat /\ now \div Word \in Nat /\ Rate \in Nat
  BY InitIInv, ClockTypes, ClockAssumption DEF Init
<1>2. Allowed = Rate * (now - now + Lie * (now \div Word - now \div Word))
  BY <1>1 DEF Allowed, Rollovers
<1>3. Allowed = 0
  BY <1>1, <1>2
<1>. QED
  BY <1>1, <1>3 DEF ClockInv

LEMMA NextKeepsClockInv == IInv /\ ClockInv /\ [Next]_vars => ClockInv'
<1> SUFFICES ASSUME IInv, ClockInv, [Next]_vars PROVE ClockInv'
  OBVIOUS
<1>1. ASSUME NEW gap \in Gaps, TimeOfCall(gap), ~sending,
             UNCHANGED advanced,
             sending' => deltams' = Delta((now + gap) % Word)
      PROVE  ClockInv'
  <2>1. /\ {calls, now, start} \subseteq Nat /\ gap \in Nat
        /\ now' = now + gap /\ calls' = calls + 1
        /\ start' = (IF calls = 0 THEN now + gap ELSE start)
        /\ prevMsec' = (now + gap) % Word
    BY <1>1, ClockTypes DEF TimeOfCall
  <2>2. /\ advanced <= Allowed'
        /\ sending' => advanced + Rate * deltams' <= Allowed'
    BY <1>1, CallCounts
  <2>3. advanced \in Nat
    BY ClockTypes
  <2>. QED
    BY <1>1, <2>1, <2>2, <2>3 DEF ClockInv, Rate
<1>2. ASSUME NEW len \in ImageLen, NEW tables \in BOOLEAN, NEW gap \in Gaps,
             StreamFrame(len, tables, gap)
      PROVE  ClockInv'
  BY <1>1, <1>2 DEF StreamFrame, TimeOfCall
<1>3. ASSUME NEW gap \in Gaps, StreamBroken(gap)
      PROVE  ClockInv'
  BY <1>1, <1>3 DEF StreamBroken, TimeOfCall
<1>4. ASSUME NEW returned, Continue(returned), sending
      PROVE  ClockInv'
  <2>1. /\ sending' = (returned # 0)
        /\ UNCHANGED <<prevMsec, deltams, calls, now, start>>
        /\ IF returned # 0 THEN UNCHANGED advanced
           ELSE advanced' = advanced + Increment(deltams)
    BY <1>4 DEF Continue
  <2>2. /\ Increment(deltams) \in Nat /\ Increment(deltams) <= Rate * deltams
        /\ advanced \in Nat /\ Rate * deltams \in Nat
    BY ClockTypes, IncrementBound
  <2>3. Allowed' = Allowed
    BY <2>1 DEF Allowed, Rollovers, Rate
  <2>4. /\ start <= now /\ calls # 0 /\ prevMsec = now % Word
        /\ advanced + Rate * deltams <= Allowed
    BY <1>4 DEF ClockInv
  <2>5. CASE returned # 0
    BY <2>1, <2>3, <2>4, <2>5 DEF ClockInv, Rate
  <2>6. CASE returned = 0
    <3>1. ~sending'
      BY <2>1, <2>6
    <3>2. start' <= now' /\ calls' # 0 /\ prevMsec' = now' % Word
      BY <2>1, <2>4
    <3>3. Allowed \in Int
      <4>1. Lie * Rollovers \in Int
        BY ClockTypes DEF Rollovers
      <4>. QED
        BY <4>1, ClockTypes DEF Allowed
    <3>4. advanced' <= Allowed' /\ advanced' \in Nat
      BY <2>1, <2>2, <2>3, <2>4, <2>6, <3>3
    <3>. QED
      BY <3>1, <3>2, <3>4 DEF ClockInv
  <2>. QED
    BY <2>5, <2>6
<1>5. ASSUME UNCHANGED <<clock, sending>>
      PROVE  ClockInv'
  BY <1>5 DEF clock, ClockInv, Allowed, Rollovers, Rate
<1>6. ASSUME NEW s \in Session, NEW overTcp \in BOOLEAN,
             AddSession(s) \/ Setup(s, overTcp) \/ Play(s) \/ Leave(s)
      PROVE  ClockInv'
  BY <1>5, <1>6 DEF AddSession, Setup, Play, Leave
<1>7. ASSUME NEW got \in SUBSET streaming, SendRtpPacket(got)
      PROVE  ClockInv'
  BY <1>4, <1>7 DEF SendRtpPacket
<1>8. CASE SendToNobody
  BY <1>4, <1>8 DEF SendToNobody
<1>9. CASE UNCHANGED vars
  BY <1>5, <1>9 DEF vars
<1>. QED
  BY <1>2, <1>3, <1>6, <1>7, <1>8, <1>9 DEF Next, Send

\* Whatever the times of the images, the overflow of the product and the images
\* that cannot be decoded: the media clock is never ahead of the time by more
\* than the lies told at roll-overs.
THEOREM ClockNeverAhead == Spec => []NotAhead
<1>1. IInv /\ ClockInv => NotAhead
  <2> SUFFICES ASSUME IInv, ClockInv PROVE NotAhead
    OBVIOUS
  <2>1. advanced <= Allowed
    <3>1. advanced \in Nat /\ Rate * deltams \in Nat
      BY ClockTypes
    <3>2. Allowed \in Int
      <4>1. Lie * Rollovers \in Int
        BY ClockTypes DEF Rollovers
      <4>. QED
        BY <4>1, ClockTypes DEF Allowed
    <3>. QED
      BY <3>1, <3>2 DEF ClockInv
  <2>. QED
    BY <2>1 DEF NotAhead, Allowed, Rollovers
<1>. QED
  BY <1>1, InitIInv, NextKeepsIInv, InitClockInv, NextKeepsClockInv, PTL DEF Spec
=============================================================================
