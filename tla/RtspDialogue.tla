---------------------------- MODULE RtspDialogue ----------------------------
(***************************************************************************)
(* What a client may count on: its requests are served one by one in the   *)
(* order it sent them, each is answered for what it asks and with its own  *)
(* sequence number, and nobody else's requests matter.                     *)
(***************************************************************************)
EXTENDS Integers, Sequences

CONSTANTS Session, Requests

VARIABLES
    asked,      \* the requests of each client
    served,     \* how many of them have been served
    answers,    \* the answers each client got
    overTcp,    \* whether the client chose RTP over the RTSP connection
    playing,    \* whether frames are sent to the client
    state,      \* "new", "live" or "gone"
    refs        \* references to the shared UDP sockets

dialogueVars == <<asked, served, answers, overTcp, playing, state, refs>>

Init ==
    /\ asked = [s \in Session |-> <<>>]
    /\ served = [s \in Session |-> 0]
    /\ answers = [s \in Session |-> <<>>]
    /\ overTcp = [s \in Session |-> FALSE]
    /\ playing = [s \in Session |-> FALSE]
    /\ state = [s \in Session |-> "new"]
    /\ refs = 0

Arrive(s) ==
    /\ state[s] = "new"
    /\ state' = [state EXCEPT ![s] = "live"]
    /\ UNCHANGED <<asked, served, answers, overTcp, playing, refs>>

Ask(s) ==
    /\ state[s] = "live"
    /\ \E r \in Requests : asked' = [asked EXCEPT ![s] = Append(@, r)]
    /\ UNCHANGED <<served, answers, overTcp, playing, state, refs>>

\* A request that does not parse gets no answer.
Understood(r) == r.method = "other" \/ (r.uri # "malformed" /\ r.transport # "other")

AnswerTo(r) ==
    [code |-> CASE r.method = "other" -> 400
                [] r.method = "DESCRIBE" /\ r.uri # "stream" -> 404
                [] OTHER -> 200,
     method |-> IF r.method = "other" THEN "UNKNOWN" ELSE r.method]

\* The number in an error for an unknown method is that of the last request
\* that was understood.
NumberOf(s, r) ==
    IF r.method # "other" THEN {served[s] + 1} ELSE 0 .. served[s]

Serve(s) ==
    /\ state[s] = "live"
    /\ served[s] < Len(asked[s])
    /\ LET r == asked[s][served[s] + 1]
           udp == /\ r.method = "SETUP" /\ Understood(r)
                  /\ r.transport = "udp" \/ (r.transport = "none" /\ ~overTcp[s])
       IN  /\ \/ /\ Understood(r) /\ r.method # "TEARDOWN"
                 /\ \E n \in NumberOf(s, r) :
                       answers' = [answers EXCEPT ![s] = Append(@,
                           [code |-> AnswerTo(r).code, method |-> AnswerTo(r).method, cseq |-> n])]
              \/ /\ ~Understood(r) \/ r.method = "TEARDOWN"
                 /\ UNCHANGED answers
           /\ playing' = [playing EXCEPT ![s] = @ \/ r.method = "PLAY"]
           /\ overTcp' = IF r.method = "SETUP" /\ Understood(r) /\ r.transport # "none"
                         THEN [overTcp EXCEPT ![s] = r.transport = "tcp"] ELSE overTcp
           /\ state' = IF r.method = "TEARDOWN" THEN [state EXCEPT ![s] = "gone"] ELSE state
           /\ refs' = refs + (IF udp THEN 1 ELSE 0) - (IF r.method = "TEARDOWN" THEN 1 ELSE 0)
    /\ served' = [served EXCEPT ![s] = @ + 1]
    /\ UNCHANGED asked

Leave(s) ==
    /\ state[s] = "live"
    /\ state' = [state EXCEPT ![s] = "gone"]
    /\ refs' = refs - 1
    /\ UNCHANGED <<asked, served, answers, overTcp, playing>>

Next == \E s \in Session : Arrive(s) \/ Ask(s) \/ Serve(s) \/ Leave(s)

Spec == Init /\ [][Next]_dialogueVars
=============================================================================
