---------------------------- MODULE DeviceProofs ----------------------------
(***************************************************************************)
(* The ESP32 example, for every period of the clock, interval of the       *)
(* images and duration of a turn.                                          *)
(*                                                                         *)
(* A frame is sent from between two calls of the driver: what the          *)
(* accessors have returned is the frame held, or nothing, and misses says  *)
(* how often the driver had none (Gathered).  The pace rests on the time   *)
(* since the last image being what the clock shows, as long as the end of  *)
(* the interval is not beyond the roll-over (Timely).  That there is a     *)
(* socket to send by rests on m_udpRefCount, as long as each session that  *)
(* ended had counted itself (Sockets).                                     *)
(***************************************************************************)
EXTENDS Device, TLAPS

\* Who uses the camera, and with what, in each place of setup and loop.
Placed ==
    /\ pc \in {"run", "arguments", "send", "done"} => user # "nobody" /\ streamer
    /\ pc = "boot" => fb = NoFrame
    /\ pc = "done" => user = "streamer"
    /\ pc \in {"boot", "network", "create", "web", "serve", "check", "accept"} => user = "nobody"
    /\ pc = "check" => lastimage # NotSet
    /\ pc \in {"check", "accept"} => streamer
    /\ pc \notin {"arguments", "send"} => ptr = NoFrame /\ size = NoFrame
    /\ pc # "arguments" => todo = {}

\* What the accessors have returned so far.
Gathered ==
    pc = "arguments" =>
        /\ todo # {}
        /\ "getfb" \in todo => ptr = NoFrame
        /\ "getSize" \in todo => size = NoFrame
        /\ "getfb" \notin todo => ptr = fb
        /\ "getSize" \notin todo => size = fb
        /\ fb # NoFrame => misses \in {0, 1}
        /\ fb = NoFrame => misses = IF todo = {"getfb", "getSize"} THEN 1 ELSE 2

\* What is passed on in the end.
Sent ==
    pc = "send" =>
        \/ ptr = fb /\ size \in {fb, NoFrame}
        \/ ptr = NoFrame /\ size = fb /\ (fb # NoFrame => misses = 2)

\* From when the time of the last image counts.
Begun == IF user = "streamer" THEN now ELSE lastimage

Timely ==
    Begun # NotSet /\ Begun + MsecPerFrame < Word /\ since <= MsecPerFrame =>
        Begun <= clock /\ clock <= Begun + since

\* As long as every session that ended had a SETUP for UDP and found a port, the
\* count is of the SETUPs not taken back, and there is a socket while it counts.
Sockets ==
    /\ client = "none" => ~playing /\ ~setUp
    /\ client # "none" => refs > -MaxRefs
    /\ ~short => /\ refs >= 0
                 /\ setUp => refs > 0
                 /\ refs > 0 => rtp = "bound"

IInv ==
    /\ TypeOK
    /\ OneBufferHeld
    /\ fb # NoFrame => camOk
    /\ Placed
    /\ Gathered
    /\ Sent
    /\ Sockets
    /\ CrashHasCause
    /\ Timely

-----------------------------------------------------------------------------
(* The camera *)

\* What one step of the camera leaves: at most one buffer handed out.
LEMMA TakesOneBuffer ==
    ASSUME TypeOK, OneBufferHeld, fb # NoFrame => camOk, Run \/ RunIfNeeded
    PROVE  /\ camOk' = camOk
           /\ fb' \in Frame \cup {NoFrame}
           /\ lent' \subseteq Buffers /\ lent' = {fb'.buf} \ {0}
           /\ grabbed' \in 0 .. 1
           /\ fb' # NoFrame => camOk
<1>1. CASE Run
  <2>1. CASE fb' = NoFrame /\ lent' = lent \ {fb.buf} /\ UNCHANGED grabbed
    BY <1>1, <2>1 DEF Run, TypeOK, OneBufferHeld, NoFrame, Buffers
  <2>2. ASSUME NEW b \in Buffers, camOk, grabbed' = (grabbed + 1) % 2,
               fb' = [buf |-> b, nr |-> grabbed'],
               lent' = (lent \ {fb.buf}) \cup {b}
        PROVE  /\ fb' \in Frame /\ lent' = {fb'.buf} \ {0} /\ lent' \subseteq Buffers
               /\ grabbed' \in 0 .. 1
    <3>1. grabbed' \in 0 .. 1
      BY <2>2 DEF TypeOK
    <3>2. lent \ {fb.buf} = {} /\ b # 0
      BY DEF OneBufferHeld, Buffers
    <3>. QED
      BY <2>2, <3>1, <3>2 DEF Frame
  <2>. QED
    BY <1>1, <2>1, <2>2 DEF Run, FbGet
<1>2. CASE UNCHANGED cameraVars
  BY <1>2 DEF cameraVars, TypeOK, OneBufferHeld
<1>. QED
  BY <1>1, <1>2 DEF RunIfNeeded

\* The milliseconds of a turn keep the clock's bounds and its distance.
LEMMA ElapseKeepsTimely ==
    ASSUME TypeOK, Elapse
    PROVE  /\ clock' \in 0 .. Word - 1
           /\ since' \in 0 .. MsecPerFrame + 1
           /\ \A t \in 0 .. Word - 1 :
                 /\ t + MsecPerFrame < Word
                 /\ since <= MsecPerFrame => t <= clock /\ clock <= t + since
                 /\ since' <= MsecPerFrame
                 => t <= clock' /\ clock' <= t + since'
<1>1. PICK d \in Steps :
          /\ clock' = (clock + d) % Word
          /\ since' = IF since + d > MsecPerFrame THEN MsecPerFrame + 1 ELSE since + d
  BY DEF Elapse
<1>2. /\ d \in Nat \ {0} /\ Word \in Nat \ {0} /\ MsecPerFrame \in Nat
      /\ clock \in 0 .. Word - 1 /\ since \in 0 .. MsecPerFrame + 1
  BY DeviceAssumption DEF TypeOK
<1>3. \A a \in Nat : /\ (a % Word) \in 0 .. Word - 1
                     /\ a < Word => (a % Word) = a
  BY <1>2
<1>4. clock + d \in Nat
  BY <1>2
<1>5. clock' \in 0 .. Word - 1 /\ (clock + d < Word => clock' = clock + d)
  BY <1>1, <1>3, <1>4
<1>6. since' \in 0 .. MsecPerFrame + 1
      /\ (since' <= MsecPerFrame => since' = since + d /\ since <= MsecPerFrame)
  BY <1>1, <1>2
<1>7. ASSUME NEW t \in 0 .. Word - 1, t + MsecPerFrame < Word, since' <= MsecPerFrame,
             since <= MsecPerFrame => t <= clock /\ clock <= t + since
      PROVE  t <= clock' /\ clock' <= t + since'
  <2>1. since' = since + d /\ t <= clock /\ clock <= t + since
    BY <1>6, <1>7
  <2>2. clock' = clock + d
    BY <1>2, <1>5, <1>7, <2>1
  <2>. QED
    BY <1>2, <2>1, <2>2
<1>. QED
  BY <1>5, <1>6, <1>7

-----------------------------------------------------------------------------
(* The RTSP session *)

SessionTypes ==
    /\ client \in {"none", "open", "hungUp"}
    /\ {playing, overTcp, setUp, short} \subseteq BOOLEAN
    /\ refs \in -MaxRefs .. MaxRefs
    /\ rtp \in {"null", "bound", "closed"}

LEMMA SearchKeepsSockets ==
    ASSUME SessionTypes, Sockets, InitUdpTransport
    PROVE  /\ refs' \in -MaxRefs .. MaxRefs /\ refs' > -MaxRefs
           /\ rtp' \in {"null", "bound", "closed"} /\ short' \in BOOLEAN
           /\ ~short' => refs' > 0 /\ rtp' = "bound"
<1>1. MaxRefs \in Nat \ {0} /\ refs \in Int /\ -MaxRefs <= refs /\ refs < MaxRefs
      /\ refs' = refs + 1
  BY DeviceAssumption DEF SessionTypes, InitUdpTransport
<1>2. refs' \in -MaxRefs .. MaxRefs /\ refs' > -MaxRefs
  BY <1>1
<1>3. short \in BOOLEAN /\ rtp \in {"null", "bound", "closed"}
  BY DEF SessionTypes
<1>4. CASE refs # 0
  <2>1. UNCHANGED <<rtp, short>>
    BY <1>4 DEF InitUdpTransport
  <2>2. ~short => refs > 0 /\ rtp = "bound"
    BY <1>1, <1>4 DEF Sockets
  <2>3. refs > 0 => refs' > 0
    BY <1>1
  <2>. QED
    BY <1>2, <1>3, <2>1, <2>2, <2>3
<1>5. CASE refs = 0
  <2>1. rtp' \in {"bound", "null", "closed"} /\ short' = (short \/ rtp' # "bound")
    BY <1>5 DEF InitUdpTransport
  <2>2. refs' > 0
    BY <1>1, <1>5
  <2>. QED
    BY <1>2, <2>1, <2>2
<1>. QED
  BY <1>4, <1>5

LEMMA RequestKeepsSockets ==
    ASSUME SessionTypes, Sockets, client # "none", Request
    PROVE  SessionTypes' /\ Sockets' /\ pc' = "check"
<1>. client' = client /\ pc' = "check"
  BY DEF Request
<1>1. CASE UNCHANGED udpVars
  BY <1>1 DEF udpVars, SessionTypes, Sockets
<1>2. CASE playing' = TRUE /\ UNCHANGED <<overTcp, setUp, refs, rtp, short>>
  BY <1>2 DEF SessionTypes, Sockets
<1>3. CASE overTcp' \in BOOLEAN /\ UNCHANGED <<playing, setUp, refs, rtp, short>>
  BY <1>3 DEF SessionTypes, Sockets
<1>4. CASE overTcp' = FALSE /\ setUp' = TRUE /\ InitUdpTransport /\ UNCHANGED playing
  <2>1. SessionTypes'
    BY <1>4, SearchKeepsSockets DEF SessionTypes
  <2>2. MaxRefs \in Nat /\ refs' \in Int
    BY <2>1, DeviceAssumption DEF SessionTypes
  <2>3. refs' > 0 => refs' >= 0
    BY <2>2
  <2>4. Sockets'
    BY <1>4, <2>3, SearchKeepsSockets DEF Sockets
  <2>. QED
    BY <2>1, <2>4
<1>. QED
  BY <1>1, <1>2, <1>3, <1>4 DEF Request

\* A handle closed twice is one of a search that failed.
LEMMA EndSessionKeepsSockets ==
    ASSUME SessionTypes, Sockets, client # "none", EndSession
    PROVE  /\ SessionTypes' /\ Sockets'
           /\ pc' = "check" \/ (pc' = "crashed" /\ short')
<1>1. MaxRefs \in Nat \ {0} /\ refs \in Int /\ -MaxRefs < refs /\ refs <= MaxRefs
      /\ refs' = refs - 1
  BY DeviceAssumption DEF SessionTypes, Sockets, EndSession
<1>2. refs' \in -MaxRefs .. MaxRefs
  BY <1>1
<1>3. rtp' = (IF refs = 1 THEN "null" ELSE rtp) /\ short' = (short \/ ~setUp)
      /\ client' = "none" /\ playing' = FALSE /\ overTcp' = FALSE /\ setUp' = FALSE
  BY DEF EndSession
<1>4. SessionTypes'
  BY <1>2, <1>3 DEF SessionTypes
<1>5. ASSUME ~short'
      PROVE  refs' >= 0 /\ (refs' > 0 => rtp' = "bound")
  <2>1. refs > 0 /\ rtp = "bound"
    BY <1>3, <1>5 DEF Sockets
  <2>2. refs' >= 0 /\ (refs' > 0 => refs # 1)
    BY <1>1, <2>1
  <2>. QED
    BY <1>3, <2>1, <2>2
<1>6. Sockets'
  BY <1>3, <1>5 DEF Sockets
<1>7. pc' = "check" \/ (pc' = "crashed" /\ refs = 1 /\ rtp = "closed")
  BY DEF EndSession
<1>8. refs = 1 /\ rtp = "closed" => short
  BY DEF Sockets
<1>. QED
  BY <1>3, <1>4, <1>6, <1>7, <1>8

LEMMA HandleRequestsKeepsSockets ==
    ASSUME SessionTypes, Sockets, HandleRequests
    PROVE  /\ SessionTypes' /\ Sockets'
           /\ \/ Elapse /\ streamer /\ (pc' = "check" \/ (pc' = "crashed" /\ short'))
              \/ UNCHANGED <<clock, since>> /\ ~streamer /\ pc' = "crashed"
<1>a. UNCHANGED sessionVars => SessionTypes' /\ Sockets'
  BY DEF sessionVars, udpVars, SessionTypes, Sockets
<1>1. CASE ~streamer /\ pc' = "crashed" /\ UNCHANGED <<sessionVars, clock, since>>
  BY <1>a, <1>1
<1>2. CASE streamer /\ pc' = "check" /\ UNCHANGED sessionVars /\ Elapse
  BY <1>a, <1>2
<1>3. CASE streamer /\ client # "none" /\ Request /\ Elapse
  <2>1. SessionTypes' /\ Sockets' /\ pc' = "check"
    BY <1>3, RequestKeepsSockets
  <2>. QED
    BY <1>3, <2>1
<1>4. CASE streamer /\ client # "none" /\ EndSession /\ Elapse
  BY <1>4, EndSessionKeepsSockets
<1>. QED
  BY <1>1, <1>2, <1>3, <1>4 DEF HandleRequests

-----------------------------------------------------------------------------
(* The steps *)

LEMMA InitCameraKeepsIInv ==
    ASSUME IInv, InitCamera
    PROVE  IInv'
<1>. USE DeviceAssumption DEF sessionVars, udpVars
<1>1. TypeOK'
  BY DEF IInv, TypeOK, InitCamera, CamInit
<1>2. OneBufferHeld'
  BY DEF IInv, OneBufferHeld, InitCamera, CamInit
<1>3. (fb # NoFrame => camOk)'
  BY DEF IInv, Placed, InitCamera, CamInit
<1>4. Placed'
  BY DEF IInv, TypeOK, Placed, NotSet, InitCamera, CamInit
<1>5. Gathered'
  BY DEF IInv, Placed, Gathered, InitCamera, CamInit
<1>6. Sent'
  BY DEF IInv, Placed, Gathered, Sent, InitCamera, CamInit
<1>7. CrashHasCause'
  BY DEF IInv, Placed, CrashHasCause, InitCamera, CamInit
<1>8. Timely'
  BY DEF IInv, TypeOK, Placed, Timely, Begun, NotSet, InitCamera, CamInit
<1>9. Sockets'
  BY DEF IInv, Sockets, InitCamera
<1>. QED
  BY <1>1, <1>2, <1>3, <1>4, <1>5, <1>6, <1>7, <1>8, <1>9 DEF IInv

LEMMA StartNetworkKeepsIInv ==
    ASSUME IInv, StartNetwork
    PROVE  IInv'
<1>. USE DeviceAssumption DEF sessionVars, udpVars
<1>1. TypeOK'
  BY DEF IInv, TypeOK, StartNetwork, cameraVars
<1>2. OneBufferHeld'
  BY DEF IInv, OneBufferHeld, StartNetwork, cameraVars
<1>3. (fb # NoFrame => camOk)'
  BY DEF IInv, Placed, StartNetwork, cameraVars
<1>4. Placed'
  BY DEF IInv, TypeOK, Placed, NotSet, StartNetwork, cameraVars
<1>5. Gathered'
  BY DEF IInv, Placed, Gathered, StartNetwork, cameraVars
<1>6. Sent'
  BY DEF IInv, Placed, Gathered, Sent, StartNetwork, cameraVars
<1>7. CrashHasCause'
  BY DEF IInv, Placed, CrashHasCause, StartNetwork, cameraVars
<1>8. Timely'
  BY DEF IInv, TypeOK, Placed, Timely, Begun, NotSet, StartNetwork, cameraVars
<1>9. Sockets'
  BY DEF IInv, Sockets, StartNetwork
<1>. QED
  BY <1>1, <1>2, <1>3, <1>4, <1>5, <1>6, <1>7, <1>8, <1>9 DEF IInv

LEMMA CreateStreamerKeepsIInv ==
    ASSUME IInv, CreateStreamer
    PROVE  IInv'
<1>. USE DeviceAssumption DEF sessionVars, udpVars
<1>a. /\ camOk' = camOk
      /\ fb' \in Frame \cup {NoFrame}
      /\ lent' \subseteq Buffers /\ lent' = {fb'.buf} \ {0}
      /\ grabbed' \in 0 .. 1
      /\ fb' # NoFrame => camOk
  BY TakesOneBuffer DEF IInv, CreateStreamer, Accessor
<1>1. TypeOK'
  BY <1>a DEF IInv, TypeOK, CreateStreamer
<1>2. OneBufferHeld'
  BY <1>a DEF IInv, OneBufferHeld, CreateStreamer
<1>3. (fb # NoFrame => camOk)'
  BY <1>a DEF IInv, Placed, CreateStreamer
<1>4. Placed'
  BY DEF IInv, TypeOK, Placed, NotSet, CreateStreamer
<1>5. Gathered'
  BY DEF IInv, Placed, Gathered, CreateStreamer
<1>6. Sent'
  BY DEF IInv, Placed, Gathered, Sent, CreateStreamer
<1>7. CrashHasCause'
  BY DEF IInv, Placed, CrashHasCause, CreateStreamer
<1>8. Timely'
  BY DEF IInv, TypeOK, Placed, Timely, Begun, NotSet, CreateStreamer
<1>9. Sockets'
  BY DEF IInv, Sockets, CreateStreamer
<1>. QED
  BY <1>1, <1>2, <1>3, <1>4, <1>5, <1>6, <1>7, <1>8, <1>9 DEF IInv

LEMMA HandleClientKeepsIInv ==
    ASSUME IInv, HandleClient
    PROVE  IInv'
<1>. USE DeviceAssumption DEF sessionVars, udpVars
<1>1. TypeOK'
  BY DEF IInv, TypeOK, HandleClient, cameraVars
<1>2. OneBufferHeld'
  BY DEF IInv, OneBufferHeld, HandleClient, cameraVars
<1>3. (fb # NoFrame => camOk)'
  BY DEF IInv, Placed, HandleClient, cameraVars
<1>4. Placed'
  BY DEF IInv, TypeOK, Placed, NotSet, HandleClient, cameraVars
<1>5. Gathered'
  BY DEF IInv, Placed, Gathered, HandleClient, cameraVars
<1>6. Sent'
  BY DEF IInv, Placed, Gathered, Sent, HandleClient, cameraVars
<1>7. CrashHasCause'
  BY DEF IInv, Placed, CrashHasCause, HandleClient, cameraVars
<1>8. Timely'
  BY DEF IInv, TypeOK, Placed, Timely, Begun, NotSet, HandleClient, cameraVars
<1>9. Sockets'
  BY DEF IInv, Sockets, HandleClient
<1>. QED
  BY <1>1, <1>2, <1>3, <1>4, <1>5, <1>6, <1>7, <1>8, <1>9 DEF IInv

LEMMA CheckTimeKeepsIInv ==
    ASSUME IInv, CheckTime
    PROVE  IInv'
<1>. USE DeviceAssumption DEF sessionVars, udpVars
<1>1. TypeOK'
  BY DEF IInv, TypeOK, CheckTime, cameraVars
<1>2. OneBufferHeld'
  BY DEF IInv, OneBufferHeld, CheckTime, cameraVars
<1>3. (fb # NoFrame => camOk)'
  BY DEF IInv, Placed, CheckTime, cameraVars
<1>4. Placed'
  BY DEF IInv, TypeOK, Placed, NotSet, CheckTime, cameraVars
<1>5. Gathered'
  BY DEF IInv, Placed, Gathered, CheckTime, cameraVars
<1>6. Sent'
  BY DEF IInv, Placed, Gathered, Sent, CheckTime, cameraVars
<1>7. CrashHasCause'
  BY DEF IInv, Placed, CrashHasCause, CheckTime, cameraVars
<1>8. Timely'
  BY DEF IInv, TypeOK, Placed, Timely, Begun, NotSet, CheckTime, cameraVars
<1>9. Sockets'
  BY DEF IInv, Sockets, CheckTime
<1>. QED
  BY <1>1, <1>2, <1>3, <1>4, <1>5, <1>6, <1>7, <1>8, <1>9 DEF IInv

LEMMA TakeFrameKeepsIInv ==
    ASSUME IInv, TakeFrame
    PROVE  IInv'
<1>. USE DeviceAssumption DEF sessionVars, udpVars
<1>a. /\ camOk' = camOk
      /\ fb' \in Frame \cup {NoFrame}
      /\ lent' \subseteq Buffers /\ lent' = {fb'.buf} \ {0}
      /\ grabbed' \in 0 .. 1
      /\ fb' # NoFrame => camOk
  BY TakesOneBuffer DEF IInv, TakeFrame
<1>b. fb' \in Frame \cup {NoFrame} /\ UNCHANGED <<ptr, size>>
  BY <1>a DEF TakeFrame
<1>c. {fb, ptr, size}' \subseteq Frame \cup {NoFrame}
  BY <1>b DEF IInv, TypeOK
<1>d. misses' \in {0, 1, misses} /\ misses \in 0 .. 3
  BY DEF IInv, TypeOK, TakeFrame
<1>e. misses' \in 0 .. 3
  BY <1>d
<1>f. todo' \subseteq {"getfb", "getSize"}
  BY DEF IInv, TypeOK, TakeFrame
<1>1. TypeOK'
  BY <1>a, <1>c, <1>e, <1>f DEF IInv, TypeOK, TakeFrame
<1>2. OneBufferHeld'
  BY <1>a DEF IInv, OneBufferHeld, TakeFrame
<1>3. (fb # NoFrame => camOk)'
  BY <1>a DEF IInv, Placed, TakeFrame
<1>4. Placed'
  BY DEF IInv, TypeOK, Placed, NotSet, TakeFrame
<1>5. Gathered'
  BY DEF IInv, Placed, Gathered, TakeFrame
<1>6. Sent'
  BY DEF IInv, Placed, Gathered, Sent, TakeFrame
<1>7. CrashHasCause'
  BY DEF IInv, Placed, CrashHasCause, TakeFrame
<1>8. Timely'
  BY DEF IInv, TypeOK, Placed, Timely, Begun, NotSet, TakeFrame
<1>9. Sockets'
  BY DEF IInv, Sockets, TakeFrame
<1>. QED
  BY <1>1, <1>2, <1>3, <1>4, <1>5, <1>6, <1>7, <1>8, <1>9 DEF IInv

LEMMA FinishImageKeepsIInv ==
    ASSUME IInv, FinishImage
    PROVE  IInv'
<1>. USE DeviceAssumption DEF sessionVars, udpVars
<1>1. TypeOK'
  BY DEF IInv, TypeOK, FinishImage, Done, NoFrame
<1>2. OneBufferHeld'
  BY DEF IInv, OneBufferHeld, FinishImage, Done, NoFrame
<1>3. (fb # NoFrame => camOk)'
  BY DEF IInv, Placed, FinishImage, Done, NoFrame
<1>4. Placed'
  BY DEF IInv, TypeOK, Placed, NotSet, FinishImage, Done, NoFrame
<1>5. Gathered'
  BY DEF IInv, Placed, Gathered, FinishImage, Done, NoFrame
<1>6. Sent'
  BY DEF IInv, Placed, Gathered, Sent, FinishImage, Done, NoFrame
<1>7. CrashHasCause'
  BY DEF IInv, Placed, CrashHasCause, FinishImage, Done, NoFrame
<1>8. Timely'
  BY DEF IInv, TypeOK, Placed, Timely, Begun, NotSet, FinishImage, Done, NoFrame
<1>9. Sockets'
  BY DEF IInv, Sockets, FinishImage
<1>. QED
  BY <1>1, <1>2, <1>3, <1>4, <1>5, <1>6, <1>7, <1>8, <1>9 DEF IInv

LEMMA AcceptKeepsIInv ==
    ASSUME IInv, Accept
    PROVE  IInv'
<1>. USE DeviceAssumption DEF sessionVars, udpVars
<1>1. TypeOK'
  BY DEF IInv, TypeOK, Accept, cameraVars
<1>2. OneBufferHeld'
  BY DEF IInv, OneBufferHeld, Accept, cameraVars
<1>3. (fb # NoFrame => camOk)'
  BY DEF IInv, Placed, Accept, cameraVars
<1>4. Placed'
  BY DEF IInv, TypeOK, Placed, NotSet, Accept, cameraVars
<1>5. Gathered'
  BY DEF IInv, Placed, Gathered, Accept, cameraVars
<1>6. Sent'
  BY DEF IInv, Placed, Gathered, Sent, Accept, cameraVars
<1>7. CrashHasCause'
  BY DEF IInv, Placed, CrashHasCause, Accept, cameraVars
<1>8. Timely'
  BY DEF IInv, TypeOK, Placed, Timely, Begun, NotSet, Accept, cameraVars
<1>9. Sockets'
  BY DEF IInv, Sockets, Accept
<1>. QED
  BY <1>1, <1>2, <1>3, <1>4, <1>5, <1>6, <1>7, <1>8, <1>9 DEF IInv

LEMMA RebootKeepsIInv ==
    ASSUME IInv, Reboot
    PROVE  IInv'
<1>. USE DeviceAssumption DEF sessionVars, udpVars
<1>a. {fb, ptr, size}' \subseteq Frame \cup {NoFrame}
  BY DEF Reboot
<1>b. {clock, now}' \subseteq 0 .. Word - 1 /\ since' \in 0 .. MsecPerFrame + 1 /\ misses' \in 0 .. 3
  BY DEF Reboot
<1>c. camOk' = FALSE /\ lent' = {} /\ grabbed' = 0 /\ todo' = {} /\ streamer' = FALSE
      /\ lastimage' = NotSet
  BY DEF Reboot
<1>d. pc' = "boot" /\ user' = "nobody" /\ client' = "none"
  BY DEF Reboot
<1>e. camOk' \in BOOLEAN /\ streamer' \in BOOLEAN
  BY <1>c
<1>f. lent' \subseteq Buffers /\ grabbed' \in 0 .. 1 /\ todo' \subseteq {"getfb", "getSize"}
  BY <1>c
<1>g. lastimage' \in 0 .. Word - 1 \cup {NotSet}
  BY <1>c
<1>h. /\ {playing, overTcp, setUp, short}' \subseteq BOOLEAN
      /\ refs' \in -MaxRefs .. MaxRefs /\ rtp' \in {"null", "bound", "closed"}
  <2>1. playing' = FALSE /\ overTcp' = FALSE /\ setUp' = FALSE /\ short' = FALSE
        /\ refs' = 0 /\ rtp' = "null"
    BY DEF Reboot
  <2>2. 0 \in -MaxRefs .. MaxRefs
    OBVIOUS
  <2>. QED
    BY <2>1, <2>2
<1>1. TypeOK'
  BY <1>a, <1>b, <1>d, <1>e, <1>f, <1>g, <1>h DEF TypeOK
<1>2. OneBufferHeld'
  BY DEF OneBufferHeld, Reboot, NoFrame
<1>3. (fb # NoFrame => camOk)'
  BY DEF IInv, Placed, Reboot
<1>4. Placed'
  BY DEF IInv, TypeOK, Placed, NotSet, Reboot
<1>5. Gathered'
  BY DEF IInv, Placed, Gathered, Reboot
<1>6. Sent'
  BY DEF IInv, Placed, Gathered, Sent, Reboot
<1>7. CrashHasCause'
  BY DEF IInv, Placed, CrashHasCause, Reboot
<1>8. Timely'
  BY DEF Timely, Begun, Reboot
<1>9. Sockets'
  BY DEF IInv, Sockets, Reboot
<1>. QED
  BY <1>1, <1>2, <1>3, <1>4, <1>5, <1>6, <1>7, <1>8, <1>9 DEF IInv

LEMMA HangUpKeepsIInv ==
    ASSUME IInv, HangUp
    PROVE  IInv'
<1>. USE DeviceAssumption DEF sessionVars, udpVars
<1>1. TypeOK'
  BY DEF IInv, TypeOK, HangUp, cameraVars
<1>2. OneBufferHeld'
  BY DEF IInv, OneBufferHeld, HangUp, cameraVars
<1>3. (fb # NoFrame => camOk)'
  BY DEF IInv, Placed, HangUp, cameraVars
<1>4. Placed'
  BY DEF IInv, TypeOK, Placed, NotSet, HangUp, cameraVars
<1>5. Gathered'
  BY DEF IInv, Placed, Gathered, HangUp, cameraVars
<1>6. Sent'
  BY DEF IInv, Placed, Gathered, Sent, HangUp, cameraVars
<1>7. CrashHasCause'
  BY DEF IInv, Placed, CrashHasCause, HangUp, cameraVars
<1>8. Timely'
  BY DEF IInv, TypeOK, Placed, Timely, Begun, NotSet, HangUp, cameraVars
<1>9. Sockets'
  BY DEF IInv, Sockets, HangUp
<1>. QED
  BY <1>1, <1>2, <1>3, <1>4, <1>5, <1>6, <1>7, <1>8, <1>9 DEF IInv

LEMMA HandleRequestsKeepsIInv ==
    ASSUME IInv, HandleRequests
    PROVE  IInv'
<1>. USE DeviceAssumption DEF sessionVars, udpVars
<1>a. pc = "serve" /\ user = "nobody" /\ user' = "nobody" /\ UNCHANGED <<cameraVars, ptr, size, now>>
  BY DEF IInv, Placed, HandleRequests
<1>b. clock \in 0 .. Word - 1 /\ since \in 0 .. MsecPerFrame + 1
      /\ lastimage \in 0 .. Word - 1 \cup {NotSet} /\ now \in 0 .. Word - 1
  BY DEF IInv, TypeOK
<1>c. lastimage' = IF lastimage = NotSet THEN clock ELSE lastimage
  BY DEF HandleRequests, StartTimer
<1>d. lastimage' \in 0 .. Word - 1 /\ lastimage' # NotSet
  BY <1>b, <1>c DEF NotSet
<1>e. /\ SessionTypes' /\ Sockets'
      /\ \/ Elapse /\ streamer /\ (pc' = "check" \/ (pc' = "crashed" /\ short'))
         \/ UNCHANGED <<clock, since>> /\ ~streamer /\ pc' = "crashed"
  BY HandleRequestsKeepsSockets DEF IInv, TypeOK, SessionTypes
<1>f. /\ Elapse \/ UNCHANGED <<clock, since>>
      /\ pc' \in {"check", "crashed"} /\ (pc' = "check" => streamer)
  BY <1>e
<1>g. clock' \in 0 .. Word - 1 /\ since' \in 0 .. MsecPerFrame + 1
  BY <1>b, <1>f, ElapseKeepsTimely DEF IInv
<1>h. {clock, now}' \subseteq 0 .. Word - 1
  BY <1>a, <1>b, <1>g
<1>1. TypeOK'
  BY <1>a, <1>d, <1>e, <1>f, <1>g, <1>h DEF IInv, TypeOK, SessionTypes, HandleRequests, cameraVars
<1>2. OneBufferHeld'
  BY <1>a DEF IInv, OneBufferHeld, cameraVars
<1>3. (fb # NoFrame => camOk)'
  BY <1>a DEF IInv, cameraVars
<1>4. Placed'
  BY <1>a, <1>d, <1>f DEF IInv, Placed, HandleRequests
<1>5. Gathered'
  BY <1>f DEF Gathered
<1>6. Sent'
  BY <1>f DEF Sent
<1>7. CrashHasCause'
  BY <1>a, <1>e DEF CrashHasCause, HandleRequests
<1>8. Timely'
  <2>. SUFFICES ASSUME lastimage' + MsecPerFrame < Word, since' <= MsecPerFrame
                PROVE  lastimage' <= clock' /\ clock' <= lastimage' + since'
    BY <1>a DEF Timely, Begun
  <2>1. since <= MsecPerFrame => lastimage' <= clock /\ clock <= lastimage' + since
    BY <1>a, <1>b, <1>c DEF IInv, Timely, Begun
  <2>2. CASE Elapse
    BY <1>d, <2>1, <2>2, ElapseKeepsTimely DEF IInv
  <2>3. CASE UNCHANGED <<clock, since>>
    BY <2>1, <2>3
  <2>. QED
    BY <1>f, <2>2, <2>3
<1>9. Sockets'
  BY <1>e
<1>. QED
  BY <1>1, <1>2, <1>3, <1>4, <1>5, <1>6, <1>7, <1>8, <1>9 DEF IInv

LEMMA AccessKeepsIInv ==
    ASSUME IInv, NEW what \in {"getfb", "getSize"}, Access(what)
    PROVE  IInv'
<1>. USE DeviceAssumption DEF sessionVars, udpVars
<1>a. /\ camOk' = camOk
      /\ fb' \in Frame \cup {NoFrame}
      /\ lent' \subseteq Buffers /\ lent' = {fb'.buf} \ {0}
      /\ grabbed' \in 0 .. 1
      /\ fb' # NoFrame => camOk
  BY TakesOneBuffer DEF IInv, Access, Accessor
<1>b. fb # NoFrame => fb' = fb
  BY DEF Access, Accessor, RunIfNeeded, cameraVars
<1>c. /\ ptr' \in Frame \cup {NoFrame} /\ size' \in Frame \cup {NoFrame}
      /\ todo' = todo \ {what} /\ what \in todo /\ todo \subseteq {"getfb", "getSize"}
  BY <1>a DEF IInv, TypeOK, Access
<1>d. {fb, ptr, size}' \subseteq Frame \cup {NoFrame}
  BY <1>a, <1>c
<1>e. /\ fb # NoFrame => misses \in {0, 1} /\ misses' = misses
      /\ fb = NoFrame => misses = IF todo = {"getfb", "getSize"} THEN 1 ELSE 2
      /\ misses' = IF fb' = NoFrame THEN misses + 1 ELSE misses
  BY <1>b DEF IInv, Gathered, Access
<1>f. misses' \in 0 .. 3
  BY <1>e
<1>g. user # "nobody" /\ streamer /\ UNCHANGED <<user, streamer, sessionVars, clock, lastimage, now, since>>
      /\ pc = "arguments" /\ pc' = IF todo' = {} THEN "send" ELSE "arguments"
  BY DEF IInv, Placed, Access
<1>h. /\ "getfb" \in todo => ptr = NoFrame
      /\ "getSize" \in todo => size = NoFrame
      /\ "getfb" \notin todo => ptr = fb
      /\ "getSize" \notin todo => size = fb
  BY <1>g DEF IInv, Gathered
<1>i. IF what = "getfb" THEN ptr' = fb' /\ size' = size ELSE size' = fb' /\ ptr' = ptr
  BY DEF Access
<1>1. TypeOK'
  BY <1>a, <1>c, <1>d, <1>f, <1>g DEF IInv, TypeOK
<1>2. OneBufferHeld'
  BY <1>a DEF OneBufferHeld
<1>3. (fb # NoFrame => camOk)'
  BY <1>a
<1>4. Placed'
  BY <1>g DEF Placed
<1>5. Gathered'
  <2>. SUFFICES ASSUME todo' # {}
                PROVE  Gathered'
    BY <1>g DEF Gathered
  <2>1. todo = {"getfb", "getSize"} /\ todo' = {"getfb", "getSize"} \ {what}
    BY <1>c
  <2>2. /\ fb' # NoFrame => misses' \in {0, 1}
        /\ fb' = NoFrame => misses' = 2
    BY <1>b, <1>e, <2>1
  <2>. QED
    BY <1>h, <1>i, <2>1, <2>2 DEF Gathered
<1>6. Sent'
  <2>. SUFFICES ASSUME todo' = {}
                PROVE  Sent'
    BY <1>g DEF Sent
  <2>1. todo = {what}
    BY <1>c
  <2>2. fb # NoFrame \/ fb' = NoFrame \/ misses' = 2
    BY <1>e, <2>1
  <2>3. CASE what = "getfb"
    BY <1>b, <1>h, <1>i, <2>1, <2>3 DEF Sent
  <2>4. CASE what = "getSize"
    BY <1>b, <1>h, <1>i, <2>1, <2>2, <2>4 DEF Sent
  <2>. QED
    BY <2>3, <2>4
<1>7. CrashHasCause'
  BY <1>g DEF CrashHasCause
<1>8. Timely'
  BY <1>g DEF IInv, Timely, Begun
<1>9. Sockets'
  BY DEF IInv, Sockets, Access
<1>. QED
  BY <1>1, <1>2, <1>3, <1>4, <1>5, <1>6, <1>7, <1>8, <1>9 DEF IInv

LEMMA SendKeepsIInv ==
    ASSUME IInv, Send
    PROVE  IInv'
<1>. USE DeviceAssumption DEF sessionVars, udpVars
<1>a. /\ pc = "send" /\ user # "nobody" /\ streamer /\ todo = {}
      /\ ptr' = NoFrame /\ size' = NoFrame
      /\ UNCHANGED <<cameraVars, todo, streamer, sessionVars, lastimage, now>>
  BY DEF IInv, Placed, Send
<1>b. /\ clock \in 0 .. Word - 1 /\ since \in 0 .. MsecPerFrame + 1 /\ now \in 0 .. Word - 1
      /\ lastimage \in 0 .. Word - 1 \cup {NotSet} /\ misses \in 0 .. 3
  BY DEF IInv, TypeOK
<1>c. \/ (FollowsNull \/ SendsToNothing) /\ pc' = "crashed" /\ UNCHANGED <<user, clock, since, misses>>
      \/ user = "streamer" /\ pc' = "done" /\ user' = user /\ misses' = 0 /\ Elapse
      \/ user # "streamer" /\ pc' = "run" /\ user' = user /\ misses' = 0 /\ Elapse
      \/ user # "streamer" /\ pc' = "serve" /\ user' = "nobody" /\ misses' = 0 /\ Elapse
  BY DEF Send
<1>d. clock' \in 0 .. Word - 1 /\ since' \in 0 .. MsecPerFrame + 1
  BY <1>b, <1>c, ElapseKeepsTimely DEF IInv
<1>e. {clock, now}' \subseteq 0 .. Word - 1 /\ {fb, ptr, size}' \subseteq Frame \cup {NoFrame}
  BY <1>a, <1>b, <1>d DEF IInv, TypeOK, cameraVars
<1>f. misses' \in 0 .. 3
  BY <1>b, <1>c
<1>1. TypeOK'
  BY <1>a, <1>c, <1>d, <1>e, <1>f DEF IInv, TypeOK, cameraVars
<1>2. OneBufferHeld'
  BY <1>a DEF IInv, OneBufferHeld, cameraVars
<1>3. (fb # NoFrame => camOk)'
  BY <1>a DEF IInv, cameraVars
<1>4. Placed'
  BY <1>a, <1>c DEF Placed
<1>5. Gathered'
  BY <1>c DEF Gathered
<1>6. Sent'
  BY <1>c DEF Sent
<1>7. CrashHasCause'
  <2>. SUFFICES ASSUME FollowsNull \/ SendsToNothing, UNCHANGED <<user, misses>>
                PROVE  \/ camOk /\ misses = 2
                       \/ user = "streamer" /\ playing /\ ~overTcp /\ (short \/ ~setUp)
    BY <1>a, <1>c DEF CrashHasCause, cameraVars
  <2>1. CASE FollowsNull
    BY <1>a, <2>1 DEF IInv, Sent, FollowsNull
  <2>2. CASE SendsToNothing
    BY <2>2 DEF IInv, Sockets, SendsToNothing
  <2>. QED
    BY <2>1, <2>2
<1>8. Timely'
  <2>1. Begun' = Begun
    BY <1>a, <1>c DEF Begun
  <2>2. CASE UNCHANGED <<clock, since>>
    BY <2>1, <2>2 DEF IInv, Timely
  <2>3. CASE Elapse
    <3>1. Begun \in 0 .. Word - 1 \cup {NotSet}
      BY <1>b DEF Begun
    <3>. SUFFICES ASSUME Begun # NotSet, Begun + MsecPerFrame < Word, since' <= MsecPerFrame
                  PROVE  Begun <= clock' /\ clock' <= Begun + since'
      BY <2>1 DEF Timely
    <3>2. since <= MsecPerFrame => Begun <= clock /\ clock <= Begun + since
      BY DEF IInv, Timely
    <3>3. Begun \in 0 .. Word - 1
      BY <3>1
    <3>. QED
      BY <2>3, <3>2, <3>3, ElapseKeepsTimely DEF IInv
  <2>. QED
    BY <1>c, <2>2, <2>3
<1>9. Sockets'
  BY DEF IInv, Sockets, Send
<1>. QED
  BY <1>1, <1>2, <1>3, <1>4, <1>5, <1>6, <1>7, <1>8, <1>9 DEF IInv

LEMMA InitIInv == Init => IInv
<1>. SUFFICES ASSUME Init
              PROVE  IInv
  OBVIOUS
<1>. USE DeviceAssumption DEF sessionVars, udpVars
<1>a. {fb, ptr, size} \subseteq Frame \cup {NoFrame}
      /\ camOk = FALSE /\ lent = {} /\ grabbed = 0
  BY DEF Init, NoCamera
<1>b. /\ {clock, now} \subseteq 0 .. Word - 1 /\ since \in 0 .. MsecPerFrame + 1
      /\ misses \in 0 .. 3 /\ lastimage = NotSet
  BY DEF Init
<1>c. /\ pc = "boot" /\ user = "nobody" /\ client = "none" /\ todo = {}
      /\ streamer = FALSE /\ ptr = NoFrame /\ size = NoFrame
  BY DEF Init
<1>e. camOk \in BOOLEAN /\ streamer \in BOOLEAN
  BY <1>a, <1>c
<1>f. lent \subseteq Buffers /\ grabbed \in 0 .. 1 /\ todo \subseteq {"getfb", "getSize"}
  BY <1>a, <1>c
<1>g. lastimage \in 0 .. Word - 1 \cup {NotSet}
  BY <1>b
<1>h. /\ {playing, overTcp, setUp, short} \subseteq BOOLEAN
      /\ refs \in -MaxRefs .. MaxRefs /\ rtp \in {"null", "bound", "closed"}
  <2>1. playing = FALSE /\ overTcp = FALSE /\ setUp = FALSE /\ short = FALSE
        /\ refs = 0 /\ rtp = "null"
    BY DEF Init
  <2>2. 0 \in -MaxRefs .. MaxRefs
    OBVIOUS
  <2>. QED
    BY <2>1, <2>2
<1>i. Sockets
  BY DEF Init, Sockets
<1>1. TypeOK
  BY <1>a, <1>b, <1>c, <1>e, <1>f, <1>g, <1>h DEF TypeOK
<1>2. OneBufferHeld /\ fb = NoFrame
  BY DEF Init, NoCamera, OneBufferHeld, NoFrame
<1>3. Placed /\ Gathered /\ Sent /\ CrashHasCause
  BY <1>c, <1>2 DEF Placed, Gathered, Sent, CrashHasCause
<1>4. Timely
  BY <1>b, <1>c DEF Timely, Begun
<1>. QED
  BY <1>1, <1>2, <1>3, <1>4, <1>i DEF IInv

LEMMA NextIInv == IInv /\ [Next]_vars => IInv'
<1>. SUFFICES ASSUME IInv, [Next]_vars
              PROVE  IInv'
  OBVIOUS
<1>1. CASE UNCHANGED vars
  BY <1>1 DEF vars, cameraVars, deviceVars, IInv, TypeOK, OneBufferHeld, Placed, Gathered, Sent,
              CrashHasCause, Sockets, Timely, Begun, sessionVars, udpVars
<1>2. CASE Loop
  BY <1>2, HandleClientKeepsIInv, HandleRequestsKeepsIInv, CheckTimeKeepsIInv, TakeFrameKeepsIInv,
     AccessKeepsIInv, SendKeepsIInv, FinishImageKeepsIInv, AcceptKeepsIInv DEF Loop
<1>3. CASE InitCamera \/ StartNetwork \/ CreateStreamer \/ Reboot \/ HangUp
  BY <1>3, InitCameraKeepsIInv, StartNetworkKeepsIInv, CreateStreamerKeepsIInv, RebootKeepsIInv,
     HangUpKeepsIInv
<1>. QED
  BY <1>1, <1>2, <1>3 DEF Next

-----------------------------------------------------------------------------
(* The theorems *)

\* Every state of the device satisfies the inductive invariant.
THEOREM AlwaysIInv == Spec => []IInv
  BY InitIInv, NextIInv, PTL DEF Spec

\* All of the device's state, the camera's included, stays within its types: no
\* clock, count or buffer number leaves its range.
THEOREM TypeCorrect == Spec => []TypeOK
<1>1. IInv => TypeOK
  BY DEF IInv
<1>. QED
  BY <1>1, AlwaysIInv, PTL

\* However streamImage and the pages use the camera, the buffer it holds, and no
\* other, is handed out by the driver: none is lost and none is returned twice.
THEOREM OneBufferStaysHeld == Spec => []OneBufferHeld
<1>1. IInv => OneBufferHeld
  BY DEF IInv
<1>. QED
  BY <1>1, AlwaysIInv, PTL

\* streamFrame and the pages get the pointer and the size of one and the same
\* frame, and its buffer is not with the driver meanwhile.
THEOREM FrameSentIsHeld == Spec => []SendsHeldFrame
<1>1. IInv => SendsHeldFrame
  <2>. SUFFICES ASSUME IInv, pc = "send", ptr # NoFrame
                PROVE  ptr.buf \in lent /\ ptr = fb /\ (size # NoFrame => size = ptr)
    BY DEF SendsHeldFrame
  <2>1. ptr = fb /\ (size # NoFrame => size = ptr)
    BY DEF IInv, Sent
  <2>2. fb \in Frame
    BY <2>1 DEF IInv, TypeOK
  <2>3. fb.buf # 0
    BY <2>2 DEF Frame, Buffers
  <2>. QED
    BY <2>1, <2>3 DEF IInv, OneBufferHeld
<1>. QED
  BY <1>1, AlwaysIInv, PTL

\* A single missing frame does not crash the device: it takes two in a row and
\* then one that arrives, between the two arguments of one call.  Nor does a
\* session that is set up for UDP before it plays, while every session that ended
\* was set up for UDP too and every search found its ports.
THEOREM CrashesHaveCause == Spec => []CrashHasCause
<1>1. IInv => CrashHasCause
  BY DEF IInv
<1>. QED
  BY <1>1, AlwaysIInv, PTL

\* Images of the streamer are more than MsecPerFrame apart, for every interval
\* and every period of millis(), unless the interval's end is beyond the wrap.
THEOREM PacedAcrossTurns == Spec => Paced
<1>1. ASSUME IInv, [Next]_vars
      PROVE  [pc = "check" /\ pc' = "run" =>
                 since > MsecPerFrame \/ lastimage + MsecPerFrame >= Word]_vars
  <2>. SUFFICES ASSUME Next, pc = "check", pc' = "run"
                PROVE  since > MsecPerFrame \/ lastimage + MsecPerFrame >= Word
    BY <1>1
  <2>1. /\ since \in 0 .. MsecPerFrame + 1 /\ clock \in 0 .. Word - 1
        /\ lastimage \in 0 .. Word - 1
        /\ MsecPerFrame \in Nat /\ Word \in Nat \ {0}
    BY <1>1, DeviceAssumption DEF IInv, TypeOK, Placed
  <2>2. CheckTime
    BY DEF Next, Loop, InitCamera, StartNetwork, CreateStreamer, HandleClient, HandleRequests,
           TakeFrame, Access, Send, FinishImage, Accept, Reboot, HangUp
  <2>3. Due(clock)
    BY <2>2 DEF CheckTime
  <2>4. since <= MsecPerFrame /\ lastimage + MsecPerFrame < Word
          => lastimage <= clock /\ clock <= lastimage + since
    BY <1>1 DEF IInv, Placed, Timely, Begun
  <2>5. lastimage + MsecPerFrame < Word => (lastimage + MsecPerFrame) % Word = lastimage + MsecPerFrame
    BY <2>1
  <2>. QED
    BY <2>1, <2>3, <2>4, <2>5 DEF Due
<1>. QED
  BY <1>1, AlwaysIInv, PTL DEF Spec, Paced
=============================================================================
