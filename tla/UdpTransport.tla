---------------------------- MODULE UdpTransport ----------------------------
(***************************************************************************)
(* The pair of UDP sockets that a CStreamer shares between its sessions,   *)
(* counted in m_udpRefCount: InitUdpTransport is called for every SETUP of *)
(* a UDP client, ReleaseUdpTransport by the destructor of every session.   *)
(*                                                                         *)
(* A socket handle is the port the socket was bound to, NullSocket is the  *)
(* NULL pointer of the embedded platforms, on which closing NULL does      *)
(* nothing (platglue-esp32.h).  The set "open" is the operating system's   *)
(* view: a handle outside it is dangling.  Which ports can be bound        *)
(* changes with what else runs, so every search draws the set of them.     *)
(***************************************************************************)
EXTENDS Integers, FiniteSets

CONSTANTS
    Session,         \* addresses at which a CRtspSession may be allocated
    FirstPort,       \* the first port tried (6970)
    EndPort,         \* where the search ends (0xFFFE)
    Bindable,        \* what may be the set of ports one search can bind
    MaxConnects,     \* bound: sessions created in one behaviour
    MaxExtraSetups   \* bound: repeated UDP SETUPs of one session, in all

ASSUME PortAssumption ==
    /\ FirstPort \in Nat \ {0}
    /\ EndPort \in Nat
    /\ FirstPort < EndPort
    /\ FirstPort % 2 = 0
    /\ EndPort % 2 = 0

ASSUME UdpBoundAssumption == MaxConnects \in Nat /\ MaxExtraSetups \in Nat

VARIABLES
    refCount,    \* m_udpRefCount
    rtpSock,     \* m_RtpSocket
    rtcpSock,    \* m_RtcpSocket
    rtpPort,     \* m_RtpServerPort
    rtcpPort,    \* m_RtcpServerPort
    open,        \* ports our UDP sockets are bound to
    live,        \* the sessions that exist
    tcp,         \* m_TcpTransport of every session
    told,        \* RTP server port in the last answer to a UDP SETUP
    holders,     \* history: existing sessions that did a UDP SETUP
    overs,       \* history: UDP SETUPs of sessions that were holders already
    unders,      \* history: sessions destroyed that were no holders
    connects     \* history: sessions created

socketVars == <<refCount, rtpSock, rtcpSock, rtpPort, rtcpPort, open>>
vars == <<refCount, rtpSock, rtcpSock, rtpPort, rtcpPort, open,
          live, tcp, told, holders, overs, unders, connects>>

NullSocket == 0

\* The RTP ports the search goes through.
Bases == {p \in FirstPort .. EndPort - 1 : p % 2 = 0}

Port == FirstPort .. EndPort

-----------------------------------------------------------------------------
(* The platform *)

\* udpsocketcreate: a socket bound to port p, or NULL.
Created(p, bindable) == IF p \in bindable THEN p ELSE NullSocket

\* udpsocketclose: the ports still open; NULL is not closed.
ClosedSockets(handles) == open \ (handles \ {NullSocket})

-----------------------------------------------------------------------------
(* CStreamer *)

GetRtpServerPort == rtpPort

\* Both sockets of the pair could be bound.
BindPair(p) ==
    /\ rtpSock' = p
    /\ rtcpSock' = p + 1
    /\ rtpPort' = p
    /\ rtcpPort' = p + 1
    /\ open' = open \cup {p, p + 1}

\* The search came to its end.  An RTP socket without its RTCP socket is
\* closed, but m_RtpSocket keeps the handle of the last one tried.
BindNone(bindable) ==
    /\ rtpSock' = Created(EndPort - 2, bindable)
    /\ rtcpSock' = NullSocket
    /\ UNCHANGED <<rtpPort, rtcpPort, open>>

\* The search of InitUdpTransport for the first pair that can be bound.
BindFirstPair(bindable) ==
    LET pairs == {p \in Bases : {p, p + 1} \subseteq bindable}
    IN  \/ \E p \in pairs : (\A q \in pairs : p <= q) /\ BindPair(p)
        \/ pairs = {} /\ BindNone(bindable)

\* Mutant: a SETUP that finds the sockets in place is not counted.
InitUdpTransportOnce ==
    IF refCount # 0
    THEN UNCHANGED <<refCount, rtpSock, rtcpSock, rtpPort, rtcpPort, open>>
    ELSE /\ refCount' = refCount + 1
         /\ \E bindable \in Bindable : BindFirstPair(bindable)

\* Mutant: every SETUP searches for a pair.
InitUdpTransportAlways ==
    /\ refCount' = refCount + 1
    /\ \E bindable \in Bindable : BindFirstPair(bindable)

InitUdpTransport ==
    /\ refCount' = refCount + 1
    /\ IF refCount # 0
       THEN UNCHANGED <<rtpSock, rtcpSock, rtpPort, rtcpPort, open>>
       ELSE \E bindable \in Bindable : BindFirstPair(bindable)

\* Mutant: the ports stay announced after the sockets are closed.
ReleaseKeepsPorts ==
    /\ refCount' = refCount - 1
    /\ UNCHANGED <<rtpPort, rtcpPort>>
    /\ IF refCount' = 0
       THEN /\ open' = open \ {rtpSock, rtcpSock}
            /\ rtpSock' = NullSocket
            /\ rtcpSock' = NullSocket
       ELSE UNCHANGED <<rtpSock, rtcpSock, open>>

\* Mutant: the counter is compared before it is decremented.
ReleaseTooLate ==
    /\ refCount' = refCount - 1
    /\ IF refCount = 0
       THEN /\ rtpPort' = 0
            /\ rtcpPort' = 0
            /\ open' = open \ {rtpSock, rtcpSock}
            /\ rtpSock' = NullSocket
            /\ rtcpSock' = NullSocket
       ELSE UNCHANGED <<rtpSock, rtcpSock, rtpPort, rtcpPort, open>>

\* Mutant: the first session to go closes the sockets.
ReleaseAtOnce ==
    /\ refCount' = refCount - 1
    /\ rtpPort' = 0
    /\ rtcpPort' = 0
    /\ open' = open \ {rtpSock, rtcpSock}
    /\ rtpSock' = NullSocket
    /\ rtcpSock' = NullSocket

ReleaseUdpTransport ==
    /\ refCount' = refCount - 1
    /\ IF refCount' = 0
       THEN /\ rtpPort' = 0
            /\ rtcpPort' = 0
            /\ open' = ClosedSockets({rtpSock, rtcpSock})
            /\ rtpSock' = NullSocket
            /\ rtcpSock' = NullSocket
       ELSE UNCHANGED <<rtpSock, rtcpSock, rtpPort, rtcpPort, open>>

-----------------------------------------------------------------------------
(* CRtspSession *)

Init ==
    /\ refCount = 0
    /\ rtpSock = NullSocket /\ rtcpSock = NullSocket
    /\ rtpPort = 0 /\ rtcpPort = 0
    /\ open = {}
    /\ live = {}
    /\ tcp = [s \in Session |-> FALSE]
    /\ told = [s \in Session |-> 0]
    /\ holders = {}
    /\ overs = 0 /\ unders = 0 /\ connects = 0

Connect(s) ==
    /\ s \notin live
    /\ connects < MaxConnects
    /\ live' = live \cup {s}
    /\ tcp' = [tcp EXCEPT ![s] = FALSE]
    /\ told' = [told EXCEPT ![s] = 0]
    /\ connects' = connects + 1
    /\ UNCHANGED <<socketVars, holders, overs, unders>>

\* A SETUP that asks for UDP.
SetupUdp(s) ==
    /\ s \in live
    /\ s \in holders => overs < MaxExtraSetups
    /\ InitUdpTransport
    /\ tcp' = [tcp EXCEPT ![s] = FALSE]
    /\ told' = [told EXCEPT ![s] = GetRtpServerPort']
    /\ holders' = holders \cup {s}
    /\ overs' = IF s \in holders THEN overs + 1 ELSE overs
    /\ UNCHANGED <<live, unders, connects>>

\* A SETUP that asks for RTP interleaved with RTSP: InitTransport leaves the
\* UDP sockets alone, also those of an earlier UDP SETUP.
SetupTcp(s) ==
    /\ s \in live
    /\ tcp' = [tcp EXCEPT ![s] = TRUE]
    /\ UNCHANGED <<socketVars, live, told, holders, overs, unders, connects>>

\* The destructor, which releases the transport whatever the session used.
Disconnect(s) ==
    /\ s \in live
    /\ ReleaseUdpTransport
    /\ live' = live \ {s}
    /\ holders' = holders \ {s}
    /\ unders' = IF s \in holders THEN unders ELSE unders + 1
    /\ UNCHANGED <<tcp, told, overs, connects>>

Next == \E s \in Session :
    Connect(s) \/ SetupUdp(s) \/ SetupTcp(s) \/ Disconnect(s)

Spec == Init /\ [][Next]_vars

\* Sessions that set up UDP exactly once before they end: for them the
\* calls of InitUdpTransport and ReleaseUdpTransport come in pairs.
UdpOnce(s) ==
    \/ Connect(s)
    \/ s \notin holders /\ SetupUdp(s)
    \/ s \in holders /\ Disconnect(s)

UdpOnceSpec == Init /\ [][\E s \in Session : UdpOnce(s)]_vars

-----------------------------------------------------------------------------
(* Properties *)

TypeOK ==
    /\ refCount \in Int
    /\ {rtpSock, rtcpSock, rtpPort, rtcpPort} \subseteq Port \cup {0}
    /\ open \subseteq Port
    /\ live \subseteq Session
    /\ tcp \in [Session -> BOOLEAN]
    /\ told \in [Session -> Port \cup {0}]
    /\ holders \subseteq live
    /\ {overs, unders, connects} \subseteq Nat

\* The counter counts SETUPs less sessions destroyed, not the users: every
\* repeated SETUP keeps the sockets for good and every session that goes
\* without a UDP SETUP takes one reference of somebody else.
RefCountLedger == refCount = Cardinality(holders) + overs - unders

\* The announced ports are an RTP/RTCP pair (even, and the next odd one) and
\* exactly the bound ones; the handles point at these sockets.  No port is
\* announced after a search that failed or a release.
AnnouncedPairIsOpen ==
    IF rtpPort = 0
    THEN rtcpPort = 0 /\ rtcpSock = NullSocket /\ open = {}
    ELSE /\ rtpPort % 2 = 0
         /\ rtcpPort = rtpPort + 1
         /\ rtpSock = rtpPort
         /\ rtcpSock = rtcpPort
         /\ open = {rtpPort, rtcpPort}

\* No UDP socket stays bound when nobody ever took a reference too many and
\* the users are gone: ports are given back (ReleaseUdpTransport).
NothingLeaks == holders = {} /\ overs = 0 => open = {} /\ rtpSock = NullSocket

\* As long as only users have been destroyed, the port each user was told at
\* its SETUP is the one the streamer sends from, whoever else came and went.
ToldPortStays == unders = 0 => \A s \in holders : told[s] = rtpPort

\* Users share the port pair like a pool.
Pool == INSTANCE UdpPool WITH
    users <- holders, port <- rtpPort, Port <- Bases

ImplementsPool == Pool!Spec

\* As long as InitUdpTransport and ReleaseUdpTransport have been called in pairs,
\* every call is a step of the pool, or concerns nobody in it: the pair is bound
\* for the first user only, kept for the others and given back with the last.
PoolWhilePaired ==
    [][overs' = 0 /\ unders' = 0 => [Pool!Next]_Pool!poolVars]_vars

\* A session that set up UDP has a port pair to be served from, the one it
\* was told ("allocate port pairs for RTP/RTCP ports in UDP transport mode").
UdpSessionHasPorts ==
    \A s \in holders : ~tcp[s] => told[s] # 0 /\ {told[s], told[s] + 1} \subseteq open
=============================================================================
