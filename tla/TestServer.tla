----------------------------- MODULE TestServer -----------------------------
(***************************************************************************)
(* The test server on POSIX: main accepts connections and forks a process  *)
(* for each, which serves one session in workerThread.  A process that is  *)
(* done returns into the loop of main and accepts connections as well.     *)
(*                                                                         *)
(* Every process has its table of file numbers, of which a new process     *)
(* gets a copy; sockets are known by their numbers, and 0 is NULLSOCKET.   *)
(* What a session answers is in RtspSession; a search for UDP ports takes  *)
(* a step for each socket, as the other processes search too.              *)
(***************************************************************************)
EXTENDS Integers, FiniteSets

CONSTANTS
    Process,       \* as many processes as the system allows
    Main,          \* the first of them
    Client,        \* connections clients may make
    NoClient,
    Free, Std, Listen,   \* in a table: no file, a standard stream, the master socket
    FdLimits,      \* how many files a process may have open, one of these
    FirstPort, EndPort,  \* the range of the search (6970, 0xFFFE)
    Foreign,       \* ports in use by other programs, one of these sets
    MaxFd,         \* the highest number there can be
    MaxSetups      \* bound: UDP SETUPs of one session

ASSUME TestServerAssumption ==
    /\ Main \in Process
    /\ NoClient \notin Client
    /\ MaxFd \in Nat /\ FdLimits \subseteq 5 .. MaxFd + 1
    /\ FirstPort \in Nat \ {0} /\ EndPort \in Nat /\ FirstPort < EndPort
    /\ FirstPort % 2 = 0 /\ EndPort % 2 = 0
    /\ Client \cap (FirstPort .. EndPort - 1) = {}
    /\ {Free, Std, Listen} \cap (Client \cup (FirstPort .. EndPort - 1)) = {}
    /\ MaxSetups \in Nat \ {0}

VARIABLES
    pc,          \* where a process is
    fds,         \* its table of files
    sock,        \* ClientSocket
    conn,        \* history: the client it has been forked for
    refs,        \* m_udpRefCount of its streamer
    rtp, rtcp,   \* m_RtpSocket, m_RtcpSocket
    port,        \* m_RtpServerPort; m_RtcpServerPort is the next one
    base,        \* P, in the search
    image,       \* the images streamed, modulo 2
    state,       \* a client: "away", "queued", "accepted" or "gone"
    said,        \* whether there is something to read from it
    limit,       \* the number of files a process may have open
    taken,       \* ports in use by other programs
    unserved,    \* history: accepted clients for which no process could be made
    ended,       \* history: clients whose session has ended
    half,        \* history: a process, or one it stems from, found half a pair
    twice        \* history: it, or one it stems from, had two UDP SETUPs in a session

workers == <<pc, fds, sock, conn, refs, rtp, rtcp, port, base, image, half, twice>>
clients == <<state, said, unserved, ended>>
system == <<limit, taken>>
vars == <<workers, clients, system>>

Fd == 0 .. MaxFd
Port == FirstPort .. EndPort - 1
NullSocket == 0

Serving(p) == pc[p] \in {"serve", "rtp", "rtcp"}

-----------------------------------------------------------------------------
(* Files and sockets *)

\* A new file gets the lowest number; -1 if there is none.
NewFd(table) ==
    IF \A n \in 0 .. limit - 1 : table[n] # Free THEN -1
    ELSE CHOOSE n \in Fd : table[n] = Free /\ \A k \in 0 .. n - 1 : table[k] # Free

Full(p) == NewFd(fds[p]) = -1

WithFile(table, n, file) == IF n \in Fd THEN [table EXCEPT ![n] = file] ELSE table

\* close, closesocket, udpsocketclose.
Closed(table, n) == WithFile(table, n, Free)

\* A port is in use as long as any process has a socket bound to it.
InUse(p) == p \in taken \/ \E q \in Process, n \in Fd : fds[q][n] = p

Bound(table, p) == NewFd(table) # -1 /\ ~InUse(p)

\* Mutant: the number of the socket that could not be bound is returned.
CreateUdpStale(table, p) ==
    IF Bound(table, p)
    THEN [fd |-> NewFd(table), table |-> WithFile(table, NewFd(table), p)]
    ELSE [fd |-> IF NewFd(table) = -1 THEN NullSocket ELSE NewFd(table), table |-> table]

\* Mutant: the variable is set to 0 before the socket is closed.
CreateUdpSwapped(table, p) ==
    IF Bound(table, p)
    THEN [fd |-> NewFd(table), table |-> WithFile(table, NewFd(table), p)]
    ELSE [fd |-> NullSocket, table |-> Closed(WithFile(table, NewFd(table), p), NullSocket)]

\* udpsocketcreate: the number of a socket bound to port p, and the new table.
CreateUdp(table, p) ==
    IF Bound(table, p)
    THEN [fd |-> NewFd(table), table |-> WithFile(table, NewFd(table), p)]
    ELSE [fd |-> NullSocket, table |-> table]

-----------------------------------------------------------------------------
(* main *)

Init ==
    /\ pc = [p \in Process |-> IF p = Main THEN "accept" ELSE "none"]
    /\ fds = [p \in Process |-> [n \in Fd |->
                IF p # Main \/ n > 3 THEN Free ELSE IF n = 3 THEN Listen ELSE Std]]
    /\ sock = [p \in Process |-> -1]
    /\ conn = [p \in Process |-> NoClient]
    /\ refs = [p \in Process |-> 0]
    /\ rtp = [p \in Process |-> NullSocket] /\ rtcp = [p \in Process |-> NullSocket]
    /\ port = [p \in Process |-> 0] /\ base = [p \in Process |-> 0]
    /\ image = [p \in Process |-> 0]
    /\ state = [c \in Client |-> "away"]
    /\ said = [c \in Client |-> FALSE]
    /\ limit \in FdLimits /\ taken \in Foreign
    /\ unserved = {} /\ ended = {}
    /\ half = [p \in Process |-> FALSE] /\ twice = [p \in Process |-> FALSE]

\* workerThread begins in process q, with the files and the history of p.
Begins(p, q, table, n, c) ==
    /\ pc' = [pc EXCEPT ![q] = "serve"]
    /\ fds' = [fds EXCEPT ![p] = table, ![q] = table]
    /\ sock' = [sock EXCEPT ![q] = n]
    /\ conn' = [conn EXCEPT ![q] = c]
    /\ half' = [half EXCEPT ![q] = half[p]]
    /\ twice' = [twice EXCEPT ![q] = twice[p]]

\* Mutant: the first process serves the connection itself.
ForkedNot(p, table, n, c) ==
    /\ Begins(p, p, table, n, c)
    /\ UNCHANGED unserved

\* Mutant: the parent serves the connection too.
ForkedBoth(p, table, n, c) ==
    /\ \E q \in Process : pc[q] = "none"
    /\ LET q == CHOOSE r \in Process : pc[r] = "none" IN
        /\ pc' = [pc EXCEPT ![p] = "serve", ![q] = "serve"]
        /\ fds' = [fds EXCEPT ![p] = table, ![q] = table]
        /\ sock' = [sock EXCEPT ![p] = n, ![q] = n]
        /\ conn' = [conn EXCEPT ![p] = c, ![q] = c]
        /\ half' = [half EXCEPT ![q] = half[p]]
        /\ twice' = [twice EXCEPT ![q] = twice[p]]
        /\ UNCHANGED unserved

\* fork: without a process left it fails, and main goes on.
Forked(p, table, n, c) ==
    IF \E q \in Process : pc[q] = "none"
    THEN /\ Begins(p, CHOOSE q \in Process : pc[q] = "none", table, n, c)
         /\ UNCHANGED unserved
    ELSE /\ fds' = [fds EXCEPT ![p] = table]
         /\ unserved' = unserved \cup ({c} \ {NoClient})
         /\ UNCHANGED <<pc, sock, conn, half, twice>>

\* A turn of the loop of main.  When all numbers are used, accept fails at once
\* with -1, for which a process is made all the same; the number of the
\* connection is never given back by the process that accepted it.
Accept(p) ==
    /\ pc[p] = "accept"
    /\ IF Full(p)
       THEN Forked(p, fds[p], -1, NoClient) /\ UNCHANGED state
       ELSE \E c \in Client :
               /\ state[c] = "queued"
               /\ state' = [state EXCEPT ![c] = "accepted"]
               /\ Forked(p, WithFile(fds[p], NewFd(fds[p]), c), NewFd(fds[p]), c)
    /\ UNCHANGED <<refs, rtp, rtcp, port, base, image, said, ended, system>>

-----------------------------------------------------------------------------
(* workerThread *)

\* recv with a timeout, on a connection or whatever else has its number.
Received(p) ==
    LET file == IF sock[p] \in Fd THEN fds[p][sock[p]] ELSE Free
    IN  CASE file \in Client /\ said[file] -> "data"
          [] file \in Client /\ (~said[file]) /\ state[file] = "gone" -> "closed"
          [] file \in Client /\ (~said[file]) /\ state[file] # "gone" -> "timeout"
          [] file \in Port -> "timeout"
          [] OTHER -> "closed"

\* The streamer and the session of a process are gone.
Discard(p) ==
    /\ sock' = [sock EXCEPT ![p] = -1]
    /\ conn' = [conn EXCEPT ![p] = NoClient]
    /\ ended' = ended \cup ({conn[p]} \ {NoClient})
    /\ refs' = [refs EXCEPT ![p] = 0]
    /\ rtp' = [rtp EXCEPT ![p] = NullSocket] /\ rtcp' = [rtcp EXCEPT ![p] = NullSocket]
    /\ port' = [port EXCEPT ![p] = 0]
    /\ image' = [image EXCEPT ![p] = 0]
    /\ UNCHANGED <<base, half, twice>>

\* The destructor of the session releases the UDP transport and closes the
\* connection; workerThread returns into the loop of main.
EndSession(p) ==
    LET table == IF refs[p] = 1 THEN Closed(Closed(fds[p], rtp[p]), rtcp[p]) ELSE fds[p]
    IN  /\ fds' = [fds EXCEPT ![p] = Closed(table, sock[p])]
        /\ pc' = [pc EXCEPT ![p] = "accept"]
        /\ Discard(p)

\* streamImage.
StreamImage(p) ==
    /\ image' = [image EXCEPT ![p] = 1 - image[p]]
    /\ UNCHANGED <<pc, fds, sock, conn, refs, rtp, rtcp, port, base, ended, half, twice>>

\* A SETUP over UDP: InitUdpTransport begins its search, or counts the session.
Setup(p) ==
    /\ refs[p] < MaxSetups
    /\ IF refs[p] = 0
       THEN /\ pc' = [pc EXCEPT ![p] = "rtp"]
            /\ base' = [base EXCEPT ![p] = FirstPort]
            /\ UNCHANGED <<refs, twice>>
       ELSE /\ refs' = [refs EXCEPT ![p] = @ + 1]
            /\ twice' = [twice EXCEPT ![p] = TRUE]
            /\ UNCHANGED <<pc, base>>
    /\ UNCHANGED <<fds, sock, conn, rtp, rtcp, port, image, ended, half>>

\* Mutant: an image is streamed when requests were handled.
ServeInverted(p) ==
    /\ pc[p] = "serve"
    /\ CASE Received(p) = "closed" -> EndSession(p) /\ UNCHANGED said
         [] Received(p) = "timeout" -> UNCHANGED <<workers, said, ended>>
         [] Received(p) = "data" ->
              /\ said' = [said EXCEPT ![fds[p][sock[p]]] = FALSE]
              /\ \/ EndSession(p) \/ StreamImage(p) \/ Setup(p)
    /\ UNCHANGED <<state, unserved, system>>

\* A turn of the loop: handleRequests returns true for a request it handled or
\* a closed connection, and false, upon which an image is streamed, for a
\* timeout or a request it rejected with 400.
Serve(p) ==
    /\ pc[p] = "serve"
    /\ CASE Received(p) = "closed" -> EndSession(p) /\ UNCHANGED said
         [] Received(p) = "timeout" -> StreamImage(p) /\ UNCHANGED said
         [] Received(p) = "data" ->
              /\ said' = [said EXCEPT ![fds[p][sock[p]]] = FALSE]
              /\ \/ EndSession(p)                        \* TEARDOWN
                 \/ StreamImage(p)                       \* rejected
                 \/ Setup(p)
                 \/ UNCHANGED <<workers, ended>>         \* any other request
    /\ UNCHANGED <<state, unserved, system>>

\* Mutant: the end of the range is tried too.
NextBaseInclusive(p) ==
    /\ base' = [base EXCEPT ![p] = IF @ + 2 <= EndPort THEN @ + 2 ELSE 0]
    /\ pc' = [pc EXCEPT ![p] = IF base[p] + 2 <= EndPort THEN "rtp" ELSE "serve"]
    /\ refs' = [refs EXCEPT ![p] = IF base[p] + 2 <= EndPort THEN 0 ELSE 1]

\* The search goes on with the next pair or has come to its end.
NextBase(p) ==
    /\ base' = [base EXCEPT ![p] = IF @ + 2 < EndPort THEN @ + 2 ELSE 0]
    /\ pc' = [pc EXCEPT ![p] = IF base[p] + 2 < EndPort THEN "rtp" ELSE "serve"]
    /\ refs' = [refs EXCEPT ![p] = IF base[p] + 2 < EndPort THEN 0 ELSE 1]

\* The even port of a pair.
SearchRtp(p) ==
    LET new == CreateUdp(fds[p], base[p]) IN
    /\ pc[p] = "rtp"
    /\ fds' = [fds EXCEPT ![p] = new.table]
    /\ rtp' = [rtp EXCEPT ![p] = new.fd]
    /\ IF new.fd # NullSocket
       THEN pc' = [pc EXCEPT ![p] = "rtcp"] /\ UNCHANGED <<base, refs>>
       ELSE NextBase(p)
    /\ UNCHANGED <<sock, conn, rtcp, port, image, half, twice, clients, system>>

\* The odd port.  Of half a pair both handles are closed, the second being 0.
SearchRtcp(p) ==
    LET new == CreateUdp(fds[p], base[p] + 1) IN
    /\ pc[p] = "rtcp"
    /\ rtcp' = [rtcp EXCEPT ![p] = new.fd]
    /\ IF new.fd # NullSocket
       THEN /\ fds' = [fds EXCEPT ![p] = new.table]
            /\ port' = [port EXCEPT ![p] = base[p]]
            /\ refs' = [refs EXCEPT ![p] = 1]
            /\ pc' = [pc EXCEPT ![p] = "serve"]
            /\ base' = [base EXCEPT ![p] = 0]
            /\ UNCHANGED half
       ELSE /\ fds' = [fds EXCEPT ![p] = Closed(Closed(new.table, rtp[p]), new.fd)]
            /\ half' = [half EXCEPT ![p] = TRUE]
            /\ NextBase(p)
            /\ UNCHANGED port
    /\ UNCHANGED <<sock, conn, rtp, image, twice, clients, system>>

-----------------------------------------------------------------------------
(* Clients *)

Connect(c) ==
    /\ state[c] = "away"
    /\ state' = [state EXCEPT ![c] = "queued"]
    /\ UNCHANGED <<workers, said, unserved, ended, system>>

\* A request; requests that are not read yet go for one.
Talk(c) ==
    /\ state[c] = "accepted"
    /\ said' = [said EXCEPT ![c] = TRUE]
    /\ UNCHANGED <<workers, state, unserved, ended, system>>

HangUp(c) ==
    /\ state[c] = "accepted"
    /\ state' = [state EXCEPT ![c] = "gone"]
    /\ UNCHANGED <<workers, said, unserved, ended, system>>

\* The client hangs up while something is sent to it: send raises SIGPIPE, which
\* ends the process.  Nobody waits for it, so no other can take its place.
Killed(p) ==
    /\ pc[p] = "serve"
    /\ conn[p] # NoClient
    /\ fds[p][sock[p]] = conn[p]
    /\ state' = [state EXCEPT ![conn[p]] = "gone"]
    /\ pc' = [pc EXCEPT ![p] = "dead"]
    /\ fds' = [fds EXCEPT ![p] = [n \in Fd |-> Free]]
    /\ Discard(p)
    /\ UNCHANGED <<said, unserved, system>>

Step(p) == Accept(p) \/ Serve(p) \/ SearchRtp(p) \/ SearchRtcp(p)

Next ==
    \/ \E p \in Process : Step(p) \/ Killed(p)
    \/ \E c \in Client : Connect(c) \/ Talk(c) \/ HangUp(c)

\* The system runs every process that can go on; a read waits for 400 ms at most.
Spec == Init /\ [][Next]_vars /\ \A p \in Process : WF_vars(Step(p))

-----------------------------------------------------------------------------
(* Properties *)

TypeOK ==
    /\ pc \in [Process -> {"none", "accept", "serve", "rtp", "rtcp", "dead"}]
    /\ fds \in [Process -> [Fd -> {Free, Std, Listen} \cup Client \cup Port]]
    /\ sock \in [Process -> Fd \cup {-1}]
    /\ conn \in [Process -> Client \cup {NoClient}]
    /\ refs \in [Process -> 0 .. MaxSetups]
    /\ {rtp, rtcp} \subseteq [Process -> Fd]
    /\ {port, base} \subseteq [Process -> Port \cup {0}]
    /\ image \in [Process -> 0 .. 1]
    /\ state \in [Client -> {"away", "queued", "accepted", "gone"}]
    /\ said \in [Client -> BOOLEAN]
    /\ unserved \cup ended \subseteq Client
    /\ {half, twice} \subseteq [Process -> BOOLEAN]

\* From when a client has been accepted until its session ends, exactly one
\* process serves it, whoever accepts, forks and returns meanwhile; unless no
\* process could be made.
ServedByOne ==
    \A c \in Client :
        LET servers == {p \in Process : Serving(p) /\ conn[p] = c}
            alive == state[c] \in {"accepted", "gone"} /\ c \notin unserved \cup ended
        IN  Cardinality(servers) = IF alive THEN 1 ELSE 0

\* Whatever the session and the search open and close, a process goes on reading
\* from its own client: 0 closed as if it were a socket ("udpsocketclose" of
\* NULLSOCKET) costs only a connection that got that number, for a process that
\* has, or stems from one that has, found half a pair before.
KeepsConnection ==
    \A p \in Process : Serving(p) /\ conn[p] # NoClient =>
        \/ fds[p][sock[p]] = conn[p]
        \/ sock[p] = NullSocket /\ half[p]

\* A port pair that is announced is bound, by this process, to the numbers it
\* sends from, though other processes search in the same range at the same time.
AnnouncedIsBound ==
    \A p \in Process : port[p] # 0 =>
        fds[p][rtp[p]] = port[p] /\ fds[p][rtcp[p]] = port[p] + 1

\* A session leaves no UDP port bound for the next one, but one whose socket
\* got the number 0, which the search takes for a failure; or after two SETUPs.
NoPortLeft ==
    \A p \in Process : pc[p] = "accept" /\ (~twice[p]) =>
        \A n \in Fd \ {0} : fds[p][n] \notin Port

\* A client that connects is accepted in the end, as the first process never
\* leaves its loop; unless those in the loop have no number left for it.
QueuedIsAccepted ==
    \A c \in Client :
        state[c] = "queued" ~>
            \/ state[c] # "queued"
            \/ /\ \E p \in Process : pc[p] = "accept"
               /\ \A p \in Process : pc[p] = "accept" => Full(p)

\* A session that is no longer talked to has images streamed for ever; one that
\* talks without a pause may have none.
SilenceGetsImages ==
    \A p \in Process, c \in Client :
        <>[](Serving(p) /\ conn[p] = c /\ ~said[c]) => ([]<>(image[p] = 0) /\ []<>(image[p] = 1))
=============================================================================
