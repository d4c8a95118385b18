------------------------------- MODULE Device -------------------------------
(***************************************************************************)
(* The ESP32 example: setup, and a loop that serves the web page, then the *)
(* RTSP sessions, then sends an image if one is due, then accepts a client *)
(* of the RTSP server.  OV2640Streamer and the web page share the camera.  *)
(*                                                                         *)
(* What a session does with the requests it reads is in RtspSession, what  *)
(* streamFrame does with an image in JpegDecode and RtpStream.  There is   *)
(* one RTSP client at a time; millis() counts modulo Word.                 *)
(***************************************************************************)
EXTENDS Camera

CONSTANTS
    SoftAp,         \* SOFTAP_MODE: the device is its own access point
    Word,           \* millis() wraps here (2^32)
    MsecPerFrame,   \* msecPerFrame (100)
    Steps,          \* the milliseconds that serving or sending may take
    MaxRefs         \* bound: m_udpRefCount stays within -MaxRefs .. MaxRefs

ASSUME DeviceAssumption ==
    /\ SoftAp \in BOOLEAN
    /\ Word \in Nat \ {0} /\ MsecPerFrame \in Nat
    /\ Steps \subseteq Nat \ {0}
    /\ \A c, d \in Steps : c + d + MsecPerFrame < Word  \* a turn is short
    /\ MaxRefs \in Nat \ {0}

VARIABLES
    pc,          \* where setup or loop is
    user,        \* who uses the camera: streamImage or a page's handler
    todo,        \* the accessors whose results are still to be passed on
    ptr,         \* what getfb returned: the frame pointed to, or NoFrame
    size,        \* what getSize returned: the frame measured, or NoFrame for 0
    streamer,    \* whether there is a streamer
    client,      \* the RTSP connection: "none", "open" or "hungUp"
    playing,     \* the session's m_streaming
    overTcp,     \* the session's m_TcpTransport
    setUp,       \* history: whether the session had a SETUP for UDP
    refs,        \* m_udpRefCount
    rtp,         \* m_RtpSocket: "null", "bound" or a handle already "closed"
    short,       \* history: a session ended without a SETUP for UDP, or no port was found
    clock,       \* millis()
    lastimage,
    now,         \* a local of loop, 0 outside its scope
    since,       \* history: time since now was read for the last image
    misses       \* history: times the driver had no frame, for the present user

udpVars == <<playing, overTcp, setUp, refs, rtp, short>>
sessionVars == <<client, udpVars>>
deviceVars == <<pc, user, todo, ptr, size, streamer, sessionVars, clock, lastimage, now, since,
                misses>>
vars == <<cameraVars, deviceVars>>

NotSet == -1     \* lastimage before the first turn of the loop

Elapse ==
    \E d \in Steps :
        /\ clock' = (clock + d) % Word
        /\ since' = IF since + d > MsecPerFrame THEN MsecPerFrame + 1 ELSE since + d

-----------------------------------------------------------------------------
(* setup *)

Init ==
    /\ NoCamera
    /\ pc = "boot"
    /\ user = "nobody"
    /\ todo = {}
    /\ ptr = NoFrame /\ size = NoFrame
    /\ streamer = FALSE
    /\ client = "none" /\ playing = FALSE /\ overTcp = FALSE /\ setUp = FALSE
    /\ refs = 0 /\ rtp = "null" /\ short = FALSE
    /\ clock = 0 /\ lastimage = NotSet /\ now = 0
    /\ since = 0 /\ misses = 0

\* The result of cam.init is not looked at.
InitCamera ==
    /\ pc = "boot"
    /\ CamInit
    /\ pc' = "network"
    /\ UNCHANGED <<user, todo, ptr, size, streamer, sessionVars, clock, lastimage, now, since,
                   misses>>

\* A station waits until it has joined its network; setup returns early when
\* the access point cannot be started.
StartNetwork ==
    /\ pc = "network"
    /\ pc' \in (IF SoftAp THEN {"create", "web"} ELSE {"create"})
    /\ UNCHANGED <<cameraVars, user, todo, ptr, size, streamer, sessionVars, clock, lastimage, now,
                   since, misses>>

\* The constructor of OV2640Streamer asks for width and height; without a
\* frame these follow a NULL pointer.
CreateStreamer ==
    /\ pc = "create"
    /\ Accessor
    /\ streamer' = (fb' # NoFrame)
    /\ pc' = IF fb' # NoFrame THEN "web" ELSE "crashed"
    /\ UNCHANGED <<user, todo, ptr, size, sessionVars, clock, lastimage, now, since>>
    /\ misses' = IF fb' = NoFrame THEN 1 ELSE 0

-----------------------------------------------------------------------------
(* loop *)

\* server.handleClient: no request, one for something else, or for an image
\* or the stream of images.  setup starts the server if it gets that far.
HandleClient ==
    /\ pc = "web"
    /\ \/ pc' = "serve" /\ UNCHANGED user
       \/ streamer /\ pc' = "run" /\ user' \in {"image", "images"}
    /\ UNCHANGED <<cameraVars, todo, ptr, size, streamer, sessionVars, clock, lastimage, now, since,
                   misses>>

\* Mutant: a closed connection is taken for a timeout.
SocketReadForgets == IF client = "hungUp" THEN {"timeout"} ELSE {"data", "timeout"}

\* socketread with a timeout of 0: data, a closed connection or a timeout.
SocketRead == IF client = "hungUp" THEN {"closed"} ELSE {"data", "timeout"}

\* A search that finds no pair of ports leaves no socket, or the one it closed.
InitUdpTransport ==
    /\ refs < MaxRefs
    /\ refs' = refs + 1
    /\ IF refs # 0
       THEN UNCHANGED <<rtp, short>>
       ELSE /\ rtp' \in {"bound", "null", "closed"}
            /\ short' = (short \/ rtp' # "bound")

\* A request that asks for nothing here, a PLAY, a SETUP for TCP or one that names
\* a transport and is not understood to its end, or a SETUP for UDP.
Request ==
    /\ pc' = "check"
    /\ UNCHANGED client
    /\ \/ UNCHANGED udpVars
       \/ playing' = TRUE /\ UNCHANGED <<overTcp, setUp, refs, rtp, short>>
       \/ overTcp' \in BOOLEAN /\ UNCHANGED <<playing, setUp, refs, rtp, short>>
       \/ overTcp' = FALSE /\ setUp' = TRUE /\ InitUdpTransport /\ UNCHANGED playing

\* ~CRtspSession releases the transport, whether the session used it or not.
\* What it makes of a handle that was closed before is undefined.
EndSession ==
    /\ client' = "none"
    /\ playing' = FALSE /\ overTcp' = FALSE /\ setUp' = FALSE
    /\ short' = (short \/ ~setUp)
    /\ refs' = refs - 1
    /\ rtp' = IF refs = 1 THEN "null" ELSE rtp
    /\ pc' \in {"check"} \cup {p \in {"crashed"} : refs = 1 /\ rtp = "closed"}

\* lastimage is set in the first turn of the loop, before the requests.
StartTimer == lastimage' = IF lastimage = NotSet THEN clock ELSE lastimage

\* streamer->handleRequests(0): a session ends when its connection has been
\* closed or its client asks for it.
HandleRequests ==
    /\ pc = "serve"
    /\ \/ ~streamer /\ pc' = "crashed" /\ UNCHANGED <<sessionVars, clock, since>>
       \/ /\ streamer
          /\ \/ /\ client = "none" \/ "timeout" \in SocketRead
                /\ pc' = "check"
                /\ UNCHANGED sessionVars
             \/ client # "none" /\ "data" \in SocketRead /\ Request
             \/ client # "none" /\ SocketRead \cap {"data", "closed"} # {} /\ EndSession
          /\ Elapse
    /\ StartTimer
    /\ UNCHANGED <<cameraVars, user, todo, ptr, size, streamer, now, misses>>

\* Mutant: no provision for the roll-over of the clock.
DueForward(t) == t > lastimage + MsecPerFrame

Due(t) == t > (lastimage + MsecPerFrame) % Word \/ t < lastimage

CheckTime ==
    /\ pc = "check"
    /\ now' = clock
    /\ IF client # "none" /\ Due(clock)
       THEN pc' = "run" /\ user' = "streamer" /\ since' = 0
       ELSE pc' = "accept" /\ UNCHANGED <<user, since>>
    /\ UNCHANGED <<cameraVars, todo, ptr, size, streamer, sessionVars, clock, lastimage, misses>>

\* cam.run(); a handler looks whether its client is still there.
TakeFrame ==
    /\ pc = "run"
    /\ Run
    /\ \/ /\ pc' = "arguments" /\ todo' = {"getfb", "getSize"}
          /\ misses' = IF fb' = NoFrame THEN 1 ELSE 0
          /\ UNCHANGED user
       \/ /\ user # "streamer"
          /\ pc' = "serve" /\ user' = "nobody"
          /\ UNCHANGED <<todo, misses>>
    /\ UNCHANGED <<ptr, size, streamer, sessionVars, clock, lastimage, now, since>>

\* getfb or getSize: streamImage calls them in this order, the handlers in one
\* that is the compiler's choice.
Access(what) ==
    /\ pc = "arguments"
    /\ what \in todo
    /\ user = "streamer" /\ what = "getSize" => "getfb" \notin todo
    /\ Accessor
    /\ misses' = IF fb' = NoFrame THEN misses + 1 ELSE misses
    /\ IF what = "getfb" THEN ptr' = fb' /\ UNCHANGED size ELSE size' = fb' /\ UNCHANGED ptr
    /\ todo' = todo \ {what}
    /\ pc' = IF todo' = {} THEN "send" ELSE pc
    /\ UNCHANGED <<user, streamer, sessionVars, clock, lastimage, now, since>>

\* Mutant: the pointer is followed whatever the size.
FollowsNullAlways == ptr = NoFrame

\* streamFrame follows the pointer unless the size is 0.
FollowsNull == ptr = NoFrame /\ size # NoFrame

\* A session that plays over UDP is sent the packets of an image by m_RtpSocket,
\* whether there is one or not.
SendsToNothing ==
    user = "streamer" /\ size # NoFrame /\ playing /\ ~overTcp /\ rtp # "bound"

\* An image without a scan is not sent to anybody.  What a handler's write does
\* with a NULL pointer is up to the network stack.
Send ==
    /\ pc = "send"
    /\ \/ /\ FollowsNull \/ SendsToNothing
          /\ pc' = "crashed"
          /\ UNCHANGED <<user, clock, since, misses>>
       \/ /\ user = "streamer"
          /\ ~FollowsNull
          /\ pc' = "done"
          /\ UNCHANGED user
          /\ misses' = 0
          /\ Elapse
       \/ /\ user = "image"
          /\ pc' = "serve" /\ user' = "nobody"
          /\ misses' = 0
          /\ Elapse
       \/ /\ user = "images"
          /\ \/ pc' = "run" /\ UNCHANGED user
             \/ pc' = "serve" /\ user' = "nobody"
          /\ misses' = 0
          /\ Elapse
    /\ ptr' = NoFrame /\ size' = NoFrame
    /\ UNCHANGED <<cameraVars, todo, streamer, sessionVars, lastimage, now>>

\* Mutant: the time of the next image is kept, in a wider type.
FinishImageNextTime ==
    /\ pc = "done"
    /\ Done
    /\ lastimage' = now + MsecPerFrame
    /\ pc' = "accept"
    /\ user' = "nobody"
    /\ UNCHANGED <<todo, ptr, size, streamer, sessionVars, clock, now, since, misses>>

\* Mutant: the time of the image is not kept.
FinishImageForgets ==
    /\ pc = "done"
    /\ Done
    /\ pc' = "accept"
    /\ user' = "nobody"
    /\ UNCHANGED <<todo, ptr, size, streamer, sessionVars, clock, lastimage, now, since, misses>>

\* The end of streamImage, and lastimage = now.
FinishImage ==
    /\ pc = "done"
    /\ Done
    /\ lastimage' = now
    /\ pc' = "accept"
    /\ user' = "nobody"
    /\ UNCHANGED <<todo, ptr, size, streamer, sessionVars, clock, now, since, misses>>

\* rtspServer.accept.
Accept ==
    /\ pc = "accept"
    /\ \/ UNCHANGED client
       \/ client = "none" /\ client' = "open" /\ refs > -MaxRefs
    /\ UNCHANGED udpVars
    /\ pc' = "web"
    /\ now' = 0
    /\ UNCHANGED <<cameraVars, user, todo, ptr, size, streamer, clock, lastimage, since, misses>>

\* A crash restarts the processor; connections are lost.
Reboot ==
    /\ pc = "crashed"
    /\ camOk' = FALSE /\ fb' = NoFrame /\ lent' = {} /\ grabbed' = 0
    /\ pc' = "boot" /\ user' = "nobody" /\ todo' = {}
    /\ ptr' = NoFrame /\ size' = NoFrame
    /\ streamer' = FALSE /\ client' = "none" /\ playing' = FALSE /\ overTcp' = FALSE
    /\ setUp' = FALSE /\ refs' = 0 /\ rtp' = "null" /\ short' = FALSE
    /\ clock' = 0 /\ lastimage' = NotSet /\ now' = 0
    /\ since' = 0 /\ misses' = 0

HangUp ==
    /\ client = "open"
    /\ client' = "hungUp"
    /\ UNCHANGED <<cameraVars, udpVars, pc, user, todo, ptr, size, streamer, clock, lastimage, now,
                   since, misses>>

Loop ==
    \/ HandleClient \/ HandleRequests \/ CheckTime \/ TakeFrame
    \/ \E what \in {"getfb", "getSize"} : Access(what)
    \/ Send \/ FinishImage \/ Accept

Next == InitCamera \/ StartNetwork \/ CreateStreamer \/ Loop \/ Reboot \/ HangUp

Spec == Init /\ [][Next]_vars

\* Nothing in the loop waits for long, and a crash resets the processor; the
\* network may never be joined.
LiveSpec == Spec /\ WF_vars(Loop) /\ WF_vars(Reboot)

-----------------------------------------------------------------------------
(* Properties *)

TypeOK ==
    /\ camOk \in BOOLEAN
    /\ {fb, ptr, size} \subseteq Frame \cup {NoFrame}
    /\ lent \subseteq Buffers
    /\ grabbed \in 0 .. 1
    /\ pc \in {"boot", "network", "create", "web", "serve", "check", "run", "arguments",
               "send", "done", "accept", "crashed"}
    /\ user \in {"nobody", "streamer", "image", "images"}
    /\ todo \subseteq {"getfb", "getSize"}
    /\ streamer \in BOOLEAN
    /\ client \in {"none", "open", "hungUp"}
    /\ {playing, overTcp, setUp, short} \subseteq BOOLEAN
    /\ refs \in -MaxRefs .. MaxRefs
    /\ rtp \in {"null", "bound", "closed"}
    /\ {clock, now} \subseteq 0 .. Word - 1
    /\ lastimage \in 0 .. Word - 1 \cup {NotSet}
    /\ since \in 0 .. MsecPerFrame + 1
    /\ misses \in 0 .. 3

\* What is sent is one frame: pointer and size belong to it, and its buffer is
\* not with the driver, which would fill it with the next image.
SendsHeldFrame ==
    pc = "send" /\ ptr # NoFrame =>
        /\ ptr.buf \in lent
        /\ ptr = fb
        /\ size # NoFrame => size = ptr

\* The device crashes in no way but these: there is no streamer (no access point,
\* or no frame for its constructor); the driver of a working camera had no frame
\* twice in a row and then had one; an image goes to a client that plays over UDP
\* and had no SETUP for it, or had one after a session without it took the port's
\* count down, or after no port was found; the port closed by that search is
\* closed again.  So a client that does SETUP before PLAY, as all before it did,
\* and is given a port is sent images from an open socket, and one missing frame
\* is survived by streamImage and the pages alike.
CrashHasCause ==
    pc = "crashed" =>
        \/ user = "nobody" /\ (~streamer \/ short)
        \/ user # "nobody" /\ camOk /\ misses = 2
        \/ user = "streamer" /\ playing /\ ~overTcp /\ (short \/ ~setUp)

\* Images are more than MsecPerFrame apart, unless the end of the interval lies
\* beyond the roll-over of the clock ("handle clock rollover").
Paced ==
    [][pc = "check" /\ pc' = "run" =>
           since > MsecPerFrame \/ lastimage + MsecPerFrame >= Word]_vars

\* A client that stays gets images again and again, across the roll-over of the
\* clock, unless somebody watches the stream of the web page.
ImagesFlow ==
    (client # "none" /\ pc = "web")
        ~> (user \in {"streamer", "images"} \/ client # "open" \/ pc = "crashed")

\* A client that hung up is noticed, though nothing is read without a wait, and
\* another one can connect.
HangUpNoticed ==
    (client = "hungUp") ~> (client # "hungUp" \/ user = "images")
=============================================================================
