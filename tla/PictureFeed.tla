----------------------------- MODULE PictureFeed -----------------------------
(***************************************************************************)
(* What the clients of a streamer are promised: numbered images, each of   *)
(* which is shown whole, at one moment, by all who play over a reliable    *)
(* connection and by some of the others.  Who plays is settled when the    *)
(* image is taken.                                                         *)
(***************************************************************************)
EXTENDS Naturals

CONSTANTS
    Session,   \* possible clients
    NoPicture  \* what a client shows before its first picture

VARIABLES
    playing,   \* the clients that play
    reliable,  \* the clients with a reliable connection
    image,     \* the last image taken
    pending,   \* it has not been shown yet
    shown      \* the picture each client shows

vars == <<playing, reliable, image, pending, shown>>

\* The bytes of the image and no others.
Whole(img) == [parts |-> {img}, len |-> img.len]

Init ==
    /\ playing = {} /\ reliable = {}
    /\ image.nr = 0
    /\ ~pending
    /\ shown = [s \in Session |-> NoPicture]

Play(s) ==
    /\ ~pending
    /\ playing' = playing \cup {s}
    /\ UNCHANGED <<reliable, image, pending, shown>>

Connection(s) ==
    /\ ~pending
    /\ reliable' \in {reliable \cup {s}, reliable \ {s}}
    /\ UNCHANGED <<playing, image, pending, shown>>

Leave(s) ==
    /\ ~pending
    /\ playing' = playing \ {s}
    /\ reliable' = reliable \ {s}
    /\ shown' = [shown EXCEPT ![s] = NoPicture]
    /\ UNCHANGED <<image, pending>>

Take ==
    /\ ~pending
    /\ pending' = TRUE
    /\ image'.nr > image.nr
    /\ UNCHANGED <<playing, reliable, shown>>

Show(got) ==
    /\ pending
    /\ pending' = FALSE
    /\ playing \cap reliable \subseteq got
    /\ shown' = [s \in Session |-> IF s \in got THEN Whole(image) ELSE shown[s]]
    /\ UNCHANGED <<playing, reliable, image>>

Next ==
    \/ \E s \in Session : Play(s) \/ Connection(s) \/ Leave(s)
    \/ Take
    \/ \E got \in SUBSET playing : Show(got)

Spec == Init /\ [][Next]_vars
=============================================================================
