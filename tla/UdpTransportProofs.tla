------------------------- MODULE UdpTransportProofs -------------------------
(***************************************************************************)
(* The UDP port pair of the streamer, for every set of sessions, range of  *)
(* ports and behaviour of the operating system.                            *)
(*                                                                         *)
(* The announced ports and the sockets change only when the counter goes   *)
(* from or to 0, so everything rests on what a value of the counter says:  *)
(* with RefCountLedger it is the number of users up to repeated SETUPs and *)
(* to sessions that ended without one, and at 0 or below the streamer      *)
(* holds nothing (IdleHoldsNothing).                                       *)
(***************************************************************************)
EXTENDS UdpTransport, FiniteSetTheorems, TLAPS

\* A counter that is 0 or negative goes with empty hands.
IdleHoldsNothing == refCount <= 0 => rtpPort = 0 /\ rtpSock = NullSocket

IInv ==
    /\ TypeOK
    /\ IsFiniteSet(holders)
    /\ RefCountLedger
    /\ AnnouncedPairIsOpen
    /\ IdleHoldsNothing
    /\ ToldPortStays

sockets == <<rtpSock, rtcpSock, rtpPort, rtcpPort, open>>

-----------------------------------------------------------------------------

LEMMA BasesArePorts ==
    /\ \A p \in Bases : p \in Port /\ p + 1 \in Port /\ p % 2 = 0 /\ p # 0
    /\ EndPort - 2 \in Port
    /\ 0 \notin Port
BY PortAssumption DEF Bases, Port

\* When repeated SETUPs and early ends are out of the picture, a counter at 0
\* means that there are no users.
LEMMA NoUsersAtZero ==
    ASSUME IInv, unders = 0, refCount = 0
    PROVE  holders = {}
<1>1. /\ Cardinality(holders) \in Nat
      /\ Cardinality(holders) = 0 <=> holders = {}
  BY FS_CardinalityType, FS_EmptySet DEF IInv
<1>. QED
  BY <1>1 DEF IInv, TypeOK, RefCountLedger

LEMMA InitIInv == Init => IInv
<1> SUFFICES ASSUME Init PROVE IInv
  OBVIOUS
<1>1. IsFiniteSet(holders) /\ Cardinality(holders) = 0
  BY FS_EmptySet DEF Init
<1>. QED
  BY <1>1 DEF Init, IInv, TypeOK, RefCountLedger, AnnouncedPairIsOpen,
              IdleHoldsNothing, ToldPortStays, NullSocket

\* What the search leaves behind, when nothing was open before.
LEMMA SearchFindsPair ==
    ASSUME IInv, NEW bindable, rtpPort = 0, BindFirstPair(bindable)
    PROVE  /\ {rtpSock, rtcpSock, rtpPort, rtcpPort}' \subseteq Port \cup {0}
           /\ open' \subseteq Port
           /\ AnnouncedPairIsOpen'
           /\ rtpPort' \in Bases \cup {0}
<1> USE BasesArePorts
<1>1. rtcpPort = 0 /\ open = {}
  BY DEF IInv, AnnouncedPairIsOpen
<1>2. ASSUME NEW p \in Bases, BindPair(p)
      PROVE  /\ {rtpSock, rtcpSock, rtpPort, rtcpPort}' \subseteq Port \cup {0}
             /\ open' \subseteq Port
             /\ AnnouncedPairIsOpen'
             /\ rtpPort' \in Bases \cup {0}
  BY <1>1, <1>2 DEF BindPair, AnnouncedPairIsOpen
<1>3. ASSUME BindNone(bindable)
      PROVE  /\ {rtpSock, rtcpSock, rtpPort, rtcpPort}' \subseteq Port \cup {0}
             /\ open' \subseteq Port
             /\ AnnouncedPairIsOpen'
             /\ rtpPort' \in Bases \cup {0}
  BY <1>1, <1>3 DEF BindNone, Created, AnnouncedPairIsOpen, NullSocket
<1>. QED
  BY <1>2, <1>3 DEF BindFirstPair

LEMMA SetupKeepsIInv ==
    ASSUME IInv, NEW s \in Session, SetupUdp(s)
    PROVE  IInv'
<1>1. /\ s \in live /\ holders' = holders \cup {s}
      /\ UNCHANGED <<live, unders, connects>>
      /\ refCount' = refCount + 1
      /\ overs' = IF s \in holders THEN overs + 1 ELSE overs
      /\ tcp' = [tcp EXCEPT ![s] = FALSE]
      /\ told' = [told EXCEPT ![s] = rtpPort']
      /\ refCount # 0 => UNCHANGED sockets
      /\ refCount = 0 => \E bindable \in Bindable : BindFirstPair(bindable)
  BY DEF SetupUdp, InitUdpTransport, GetRtpServerPort, sockets
<1>2. /\ refCount \in Int /\ overs \in Nat /\ unders \in Nat /\ connects \in Nat
      /\ live \subseteq Session /\ holders \subseteq live
      /\ tcp \in [Session -> BOOLEAN]
      /\ told \in [Session -> Port \cup {0}]
  BY DEF IInv, TypeOK
<1>3. /\ {rtpSock, rtcpSock, rtpPort, rtcpPort}' \subseteq Port \cup {0}
      /\ open' \subseteq Port
      /\ AnnouncedPairIsOpen'
  <2>1. CASE refCount # 0
    BY <1>1, <2>1 DEF IInv, TypeOK, AnnouncedPairIsOpen, sockets
  <2>2. CASE refCount = 0
    BY <1>1, <1>2, <2>2, SearchFindsPair DEF IInv, IdleHoldsNothing
  <2>. QED
    BY <2>1, <2>2
<1>4. TypeOK'
  <2>1. told' \in [Session -> Port \cup {0}] /\ tcp' \in [Session -> BOOLEAN]
    BY <1>1, <1>2, <1>3
  <2>. QED
    BY <1>1, <1>2, <1>3, <2>1 DEF TypeOK
<1>5. IsFiniteSet(holders)' /\ RefCountLedger'
  <2>1. /\ IsFiniteSet(holders')
        /\ Cardinality(holders') = IF s \in holders THEN Cardinality(holders)
                                   ELSE Cardinality(holders) + 1
        /\ Cardinality(holders) \in Nat
    BY <1>1, FS_AddElement, FS_CardinalityType DEF IInv
  <2>. QED
    BY <1>1, <1>2, <2>1 DEF IInv, RefCountLedger
<1>6. IdleHoldsNothing'
  BY <1>1, <1>2 DEF IInv, IdleHoldsNothing, sockets
<1>7. ToldPortStays'
  <2>1. CASE refCount # 0
    BY <1>1, <1>2, <2>1 DEF IInv, ToldPortStays, sockets
  <2>2. CASE refCount = 0
    BY <1>1, <1>2, <2>2, NoUsersAtZero DEF ToldPortStays
  <2>. QED
    BY <2>1, <2>2
<1>. QED
  BY <1>3, <1>4, <1>5, <1>6, <1>7 DEF IInv

LEMMA DisconnectKeepsIInv ==
    ASSUME IInv, NEW s \in Session, Disconnect(s)
    PROVE  IInv'
<1>a. \A handles : ClosedSockets(handles) = open \ handles
  BY BasesArePorts DEF IInv, TypeOK, ClosedSockets, NullSocket
<1>1. /\ s \in live /\ live' = live \ {s} /\ holders' = holders \ {s}
      /\ unders' = IF s \in holders THEN unders ELSE unders + 1
      /\ UNCHANGED <<tcp, told, overs, connects>>
      /\ refCount' = refCount - 1
      /\ refCount' # 0 => UNCHANGED sockets
      /\ refCount' = 0 => /\ rtpPort' = 0 /\ rtcpPort' = 0
                          /\ rtpSock' = NullSocket /\ rtcpSock' = NullSocket
                          /\ open' = open \ {rtpSock, rtcpSock}
  BY <1>a DEF Disconnect, ReleaseUdpTransport, sockets
<1>2. /\ refCount \in Int /\ overs \in Nat /\ unders \in Nat /\ connects \in Nat
      /\ live \subseteq Session /\ holders \subseteq live
      /\ tcp \in [Session -> BOOLEAN]
      /\ told \in [Session -> Port \cup {0}]
  BY DEF IInv, TypeOK
<1>3. /\ {rtpSock, rtcpSock, rtpPort, rtcpPort}' \subseteq Port \cup {0}
      /\ open' \subseteq Port
      /\ AnnouncedPairIsOpen'
  <2>1. CASE refCount' # 0
    BY <1>1, <2>1 DEF IInv, TypeOK, AnnouncedPairIsOpen, sockets
  <2>2. CASE refCount' = 0
    BY <1>1, <2>2 DEF IInv, TypeOK, AnnouncedPairIsOpen, NullSocket
  <2>. QED
    BY <2>1, <2>2
<1>4. TypeOK'
  BY <1>1, <1>2, <1>3 DEF TypeOK
<1>5. IsFiniteSet(holders)' /\ RefCountLedger'
  <2>1. /\ IsFiniteSet(holders')
        /\ Cardinality(holders') = IF s \in holders THEN Cardinality(holders) - 1
                                   ELSE Cardinality(holders)
        /\ Cardinality(holders) \in Nat
    BY <1>1, FS_RemoveElement, FS_CardinalityType DEF IInv
  <2>. QED
    BY <1>1, <1>2, <2>1 DEF IInv, RefCountLedger
<1>6. IdleHoldsNothing'
  BY <1>1, <1>2 DEF IInv, IdleHoldsNothing, sockets
<1>7. ToldPortStays'
  <2>1. CASE refCount' # 0
    BY <1>1, <1>2, <2>1 DEF IInv, ToldPortStays, sockets
  <2>2. CASE refCount' = 0 /\ unders' = 0
    <3>1. Cardinality(holders') = 0
      <4>1. Cardinality(holders') \in Nat /\ overs' \in Nat
        BY <1>1, <1>2, <1>5, FS_CardinalityType
      <4>. QED
        BY <1>5, <2>2, <4>1 DEF RefCountLedger
    <3>. QED
      BY <1>5, <3>1, FS_EmptySet DEF ToldPortStays
  <2>. QED
    BY <2>1, <2>2 DEF ToldPortStays
<1>. QED
  BY <1>3, <1>4, <1>5, <1>6, <1>7 DEF IInv

LEMMA NextIInv == IInv /\ [Next]_vars => IInv'
<1> SUFFICES ASSUME IInv, [Next]_vars
             PROVE  IInv'
  OBVIOUS
<1>1. ASSUME NEW s \in Session, Connect(s)
      PROVE  IInv'
  <2>1. /\ tcp' \in [Session -> BOOLEAN]
        /\ told' \in [Session -> Port \cup {0}]
        /\ live' \subseteq Session /\ connects' \in Nat
    BY <1>1 DEF IInv, TypeOK, Connect
  <2>2. /\ UNCHANGED socketVars /\ UNCHANGED <<holders, overs, unders>>
        /\ live \subseteq live'
    BY <1>1 DEF Connect
  <2>3. \A r \in holders : told'[r] = told[r]
    BY <1>1 DEF IInv, TypeOK, Connect
  <2>. QED
    BY <2>1, <2>2, <2>3 DEF IInv, TypeOK, socketVars, RefCountLedger, AnnouncedPairIsOpen,
                            IdleHoldsNothing, ToldPortStays
<1>2. ASSUME NEW s \in Session, SetupTcp(s)
      PROVE  IInv'
  <2>1. tcp' \in [Session -> BOOLEAN]
    BY <1>2 DEF IInv, TypeOK, SetupTcp
  <2>2. UNCHANGED socketVars /\ UNCHANGED <<live, told, holders, overs, unders, connects>>
    BY <1>2 DEF SetupTcp
  <2>. QED
    BY <2>1, <2>2 DEF IInv, TypeOK, socketVars, RefCountLedger, AnnouncedPairIsOpen,
                      IdleHoldsNothing, ToldPortStays
<1>3. CASE UNCHANGED vars
  BY <1>3 DEF vars, IInv, TypeOK, RefCountLedger, AnnouncedPairIsOpen,
              IdleHoldsNothing, ToldPortStays
<1>. QED
  BY <1>1, <1>2, <1>3, SetupKeepsIInv, DisconnectKeepsIInv DEF Next

-----------------------------------------------------------------------------

\* IInv holds throughout.
THEOREM Invariance == Spec => []IInv
BY InitIInv, NextIInv, PTL DEF Spec

\* The variables keep their types.
THEOREM TypeCorrect == Spec => []TypeOK
<1>1. IInv => TypeOK
  BY DEF IInv
<1>. QED
  BY <1>1, Invariance, PTL

\* m_udpRefCount is the number of users, plus the repeated SETUPs, less the
\* sessions that were destroyed without a UDP SETUP.
THEOREM CounterIsLedger == Spec => []RefCountLedger
<1>1. IInv => RefCountLedger
  BY DEF IInv
<1>. QED
  BY <1>1, Invariance, PTL

\* The announced ports are the bound ones.
THEOREM AnnouncedPortsAreOpen == Spec => []AnnouncedPairIsOpen
<1>1. IInv => AnnouncedPairIsOpen
  BY DEF IInv
<1>. QED
  BY <1>1, Invariance, PTL

\* Without repeated SETUPs no socket outlives its users.
THEOREM NoSocketLeaks == Spec => []NothingLeaks
<1>1. IInv => NothingLeaks
  <2> SUFFICES ASSUME IInv, holders = {}, overs = 0
               PROVE  open = {} /\ rtpSock = NullSocket
    BY DEF NothingLeaks
  <2>1. refCount <= 0
    BY FS_EmptySet DEF IInv, TypeOK, RefCountLedger
  <2>. QED
    BY <2>1 DEF IInv, IdleHoldsNothing, AnnouncedPairIsOpen
<1>. QED
  BY <1>1, Invariance, PTL

\* A user's ports stay the ones it was told while only users have left.
THEOREM PortsStay == Spec => []ToldPortStays
<1>1. IInv => ToldPortStays
  BY DEF IInv
<1>. QED
  BY <1>1, Invariance, PTL

-----------------------------------------------------------------------------
(* Sessions that set up UDP once see the pool of UdpPool. *)

\* Each use of the counter is paired, so it is the number of users.
Paired == IInv /\ overs = 0 /\ unders = 0

LEMMA PairedStep ==
    ASSUME Paired, [\E s \in Session : UdpOnce(s)]_vars
    PROVE  Paired'
<1>1. [Next]_vars
  BY DEF UdpOnce, Next
<1>2. IInv'
  BY <1>1, NextIInv DEF Paired
<1>3. UNCHANGED <<overs, unders>>
  BY DEF Paired, UdpOnce, Connect, SetupUdp, Disconnect, vars
<1>. QED
  BY <1>2, <1>3 DEF Paired

\* The first user's SETUP draws a port, later ones share it.
LEMMA SetupIsAcquire ==
    ASSUME Paired, NEW s \in Session, s \notin holders, SetupUdp(s)
    PROVE  Pool!Acquire(s)
<1>1. holders' = holders \cup {s}
  BY DEF SetupUdp
<1>2. refCount = 0 <=> holders = {}
  <2>1. Cardinality(holders) \in Nat /\ (Cardinality(holders) = 0 <=> holders = {})
    BY FS_CardinalityType, FS_EmptySet DEF Paired, IInv
  <2>. QED
    BY <2>1 DEF Paired, IInv, TypeOK, RefCountLedger
<1>3. CASE refCount = 0
  <2>1. PICK bindable \in Bindable : BindFirstPair(bindable)
    BY <1>3 DEF SetupUdp, InitUdpTransport
  <2>2. rtpPort' \in Bases \cup {0}
    BY <1>3, <2>1, SearchFindsPair DEF Paired, IInv, IdleHoldsNothing, TypeOK
  <2>. QED
    BY <1>1, <1>2, <1>3, <2>2 DEF Pool!Acquire
<1>4. CASE refCount # 0
  BY <1>1, <1>2, <1>4 DEF SetupUdp, InitUdpTransport, Pool!Acquire
<1>. QED
  BY <1>3, <1>4

\* Only the last user's end gives the ports back.
LEMMA DisconnectIsLeave ==
    ASSUME Paired, NEW s \in Session, s \in holders, Disconnect(s)
    PROVE  Pool!Leave(s)
<1>1. /\ holders' = holders \ {s}
      /\ refCount' = refCount - 1
      /\ rtpPort' = IF refCount' = 0 THEN 0 ELSE rtpPort
  BY DEF Disconnect, ReleaseUdpTransport
<1>2. refCount' = 0 <=> holders' = {}
  <2>1. IInv' /\ overs' = 0 /\ unders' = 0
    BY DisconnectKeepsIInv DEF Paired, Disconnect
  <2>2. Cardinality(holders') \in Nat /\ (Cardinality(holders') = 0 <=> holders' = {})
    BY <2>1, FS_CardinalityType, FS_EmptySet DEF IInv
  <2>. QED
    BY <2>1, <2>2 DEF IInv, TypeOK, RefCountLedger
<1>. QED
  BY <1>1, <1>2 DEF Pool!Leave

\* While nothing has been called out of turn, every step is one of the pool.
THEOREM PoolStepsWhilePaired == Spec => PoolWhilePaired
<1>1. IInv /\ [Next]_vars => (overs' = 0 /\ unders' = 0 => [Pool!Next]_Pool!poolVars)
  <2> SUFFICES ASSUME IInv, [Next]_vars, overs' = 0, unders' = 0
               PROVE  [Pool!Next]_Pool!poolVars
    OBVIOUS
  <2>1. CASE UNCHANGED vars
    BY <2>1 DEF vars, Pool!poolVars
  <2>2. ASSUME NEW s \in Session, Connect(s) \/ SetupTcp(s)
        PROVE  UNCHANGED Pool!poolVars
    BY <2>2 DEF Connect, SetupTcp, socketVars, Pool!poolVars
  <2>3. ASSUME NEW s \in Session, SetupUdp(s)
        PROVE  Pool!Acquire(s)
    <3>1. s \notin holders /\ Paired
      BY <2>3 DEF SetupUdp, Paired, IInv, TypeOK
    <3>. QED
      BY <2>3, <3>1, SetupIsAcquire
  <2>4. ASSUME NEW s \in Session, Disconnect(s)
        PROVE  Pool!Leave(s)
    <3>1. s \in holders /\ Paired
      BY <2>4 DEF Disconnect, Paired, IInv, TypeOK
    <3>. QED
      BY <2>4, <3>1, DisconnectIsLeave
  <2>. QED
    BY <2>1, <2>2, <2>3, <2>4 DEF Next, Pool!Next
<1>. QED
  BY <1>1, Invariance, PTL DEF Spec, PoolWhilePaired

\* With one UDP SETUP per session, the counter implements the pool.
THEOREM UdpOnceImplementsPool == UdpOnceSpec => ImplementsPool
<1>1. Init => Paired /\ Pool!Init
  <2>1. Init => overs = 0 /\ unders = 0 /\ holders = {} /\ rtpPort = 0
    BY DEF Init
  <2>. QED
    BY <2>1, InitIInv DEF Paired, Pool!Init
<1>2. Paired /\ [\E s \in Session : UdpOnce(s)]_vars => Paired'
  BY PairedStep
<1>3. Paired /\ [\E s \in Session : UdpOnce(s)]_vars => [Pool!Next]_Pool!poolVars
  <2> SUFFICES ASSUME Paired, [\E s \in Session : UdpOnce(s)]_vars
               PROVE  [Pool!Next]_Pool!poolVars
    OBVIOUS
  <2>1. ASSUME NEW s \in Session, Connect(s)
        PROVE  UNCHANGED Pool!poolVars
    BY <2>1 DEF Connect, socketVars, Pool!poolVars
  <2>2. CASE UNCHANGED vars
    BY <2>2 DEF vars, Pool!poolVars
  <2>. QED
    BY <2>1, <2>2, SetupIsAcquire, DisconnectIsLeave DEF UdpOnce, Pool!Next
<1>. QED
  BY <1>1, <1>2, <1>3, PTL DEF UdpOnceSpec, ImplementsPool, Pool!Spec
=============================================================================
