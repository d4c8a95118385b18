------------------------------- MODULE Camera -------------------------------
(***************************************************************************)
(* The class OV2640: it holds one frame of the camera driver at a time, in *)
(* a buffer it has to give back.  The driver (esp_camera_fb_get) hands out *)
(* a filled buffer nobody holds, or NULL; it fills the other buffers with  *)
(* the next images meanwhile.                                              *)
(***************************************************************************)
EXTENDS Integers, FiniteSets

VARIABLES
    camOk,       \* whether esp_camera_init succeeded
    fb,          \* the frame held, NoFrame for NULL
    lent,        \* the driver's view: buffers handed out
    grabbed      \* the driver's number of the last frame, modulo 2

cameraVars == <<camOk, fb, lent, grabbed>>

FbCount == 2     \* fb_count, the same in all three configurations

Buffers == 1 .. FbCount

\* A frame is the buffer it is in and which one it is.
Frame == [buf : Buffers, nr : 0 .. 1]
NoFrame == [buf |-> 0, nr |-> 0]

NoCamera ==
    /\ camOk = FALSE
    /\ fb = NoFrame
    /\ lent = {}
    /\ grabbed = 0

\* init; no buffers are handed out yet.
CamInit ==
    /\ camOk' \in BOOLEAN
    /\ UNCHANGED <<fb, lent, grabbed>>

\* esp_camera_fb_get, when the buffers "out" are handed out.  It fails on a
\* timeout, without a free buffer, and always if the camera was not found.
FbGet(out) ==
    \/ \E b \in Buffers \ out :
          /\ camOk
          /\ grabbed' = (grabbed + 1) % 2
          /\ fb' = [buf |-> b, nr |-> grabbed']
          /\ lent' = out \cup {b}
    \/ /\ fb' = NoFrame
       /\ lent' = out
       /\ UNCHANGED grabbed

\* Mutant: the buffer held is not returned.
RunLeaks == FbGet(lent) /\ UNCHANGED camOk

\* The buffer held is returned and the next one taken.
Run == FbGet(lent \ {fb.buf}) /\ UNCHANGED camOk

\* Mutant: every access takes a new frame.
RunIfNeededAlways == Run

RunIfNeeded == IF fb = NoFrame THEN Run ELSE UNCHANGED cameraVars

\* getWidth, getHeight, getSize and getfb all begin with it.
Accessor == RunIfNeeded

Done ==
    /\ fb' = NoFrame
    /\ lent' = lent \ {fb.buf}
    /\ UNCHANGED <<camOk, grabbed>>

\* The buffer held, and no other, is handed out: none is lost to the driver and
\* none is given back twice.
OneBufferHeld == lent = {fb.buf} \ {0}
=============================================================================
