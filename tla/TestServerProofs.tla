-------------------------- MODULE TestServerProofs --------------------------
(***************************************************************************)
(* The processes of the test server, for every number of processes,        *)
(* clients, files and ports.                                               *)
(*                                                                         *)
(* The argument: what a process has in its variables is enough to say what *)
(* it has in its table, whoever forks meanwhile.  Each number that counts  *)
(* is told from the others by the file it stands for: the connection is a  *)
(* client (Reads), the first socket of a search is bound to the even port  *)
(* (Seeks), and every bound port is in one of the two handles until they   *)
(* are closed (Announces, Releases).  The processes are related to one     *)
(* another only by the clients they were forked for (Counted).             *)
(***************************************************************************)
EXTENDS TestServer, FiniteSetTheorems, WellFoundedInduction, TLAPS

\* A process has its connection open, but for number 0 after half a pair.
Reads(r) ==
    conn[r] # NoClient =>
        /\ Serving(r)
        /\ sock[r] \in Fd
        /\ \/ fds[r][sock[r]] = conn[r]
           \/ sock[r] = NullSocket /\ half[r]

\* Only a serving process has sessions; a search begins without any.
Seeks(r) ==
    /\ ~Serving(r) => refs[r] = 0
    /\ pc[r] \in {"rtp", "rtcp"} => base[r] \in Port /\ base[r] % 2 = 0 /\ refs[r] = 0
    /\ pc[r] = "rtcp" => rtp[r] # NullSocket /\ fds[r][rtp[r]] = base[r]

Announces(r) ==
    port[r] # 0 =>
        /\ pc[r] = "serve" /\ refs[r] > 0
        /\ fds[r][rtp[r]] = port[r]
        /\ fds[r][rtcp[r]] = port[r] + 1

\* Bound ports are in the handles that the last session will close.
Releases(r) ==
    ~twice[r] =>
        /\ refs[r] <= 1
        /\ \A n \in Fd \ {0} : fds[r][n] \in Port =>
              \/ pc[r] = "rtcp" /\ n = rtp[r]
              \/ pc[r] = "serve" /\ refs[r] = 1 /\ n \in {rtp[r], rtcp[r]}

Own(r) == Reads(r) /\ Seeks(r) /\ Announces(r) /\ Releases(r)

Alive(c) == state[c] \in {"accepted", "gone"} /\ c \notin unserved \cup ended

\* A client that is alive has one process.
Counted ==
    /\ \A c \in unserved \cup ended : state[c] \in {"accepted", "gone"}
    /\ \A c \in Client : Alive(c) <=> \E r \in Process : conn[r] = c
    /\ \A r, q \in Process : conn[r] = conn[q] /\ conn[r] # NoClient => r = q

SInv ==
    /\ TypeOK
    /\ limit \in FdLimits
    /\ \A r \in Process : Own(r)
    /\ Counted

-----------------------------------------------------------------------------
(* Tables of files *)

Tables == [Fd -> {Free, Std, Listen} \cup Client \cup Port]

LEMMA Constants ==
    /\ Main \in Process /\ NoClient \notin Client
    /\ MaxFd \in Nat /\ MaxFd >= 0 /\ 0 \in Fd /\ -1 \notin Fd /\ Fd \subseteq Int
    /\ Port \subseteq Nat \ {0}
    /\ Free \notin Client \cup Port /\ Std \notin Port /\ Listen \notin Port
    /\ Client \cap Port = {} /\ MaxSetups \in Nat \ {0}
BY TestServerAssumption DEF Fd, Port

LEMMA SmallestNumber ==
    ASSUME NEW S, S \subseteq Nat, S # {}
    PROVE  \E m \in S : \A k \in S : m <= k
<1>1. PICK m \in S : \A k \in S : ~(<<k, m>> \in OpToRel(<, Nat))
  <2>1. IsWellFoundedOn(OpToRel(<, Nat), Nat)
    BY NatLessThanWellFounded
  <2>. QED
    BY <2>1, WFMin
<1>2. ASSUME NEW k \in S PROVE m <= k
  <2>1. ~(<<k, m>> \in OpToRel(<, Nat))
    BY <1>1
  <2>2. k < m => <<k, m>> \in OpToRel(<, Nat)
    BY DEF OpToRel
  <2>3. ~(k < m)
    BY <2>1, <2>2
  <2>4. k \in Nat /\ m \in Nat
    OBVIOUS
  <2>. QED
    BY <2>3, <2>4
<1>. QED
  BY <1>2

\* A new number stands for no file yet.
LEMMA NewFdFree ==
    ASSUME limit \in FdLimits, NEW table \in Tables, NewFd(table) # -1
    PROVE  NewFd(table) \in Fd /\ table[NewFd(table)] = Free
<1> DEFINE S == {n \in 0 .. limit - 1 : table[n] = Free}
<1>1. limit \in Nat /\ limit - 1 <= MaxFd /\ MaxFd \in Nat
  BY TestServerAssumption
<1>2. S \subseteq Nat /\ S # {}
  BY <1>1 DEF NewFd
<1>3. PICK m \in S : \A k \in S : m <= k
  BY <1>2, SmallestNumber
<1>4. m \in Fd /\ table[m] = Free
  BY <1>1, <1>3 DEF Fd
<1>5. \A k \in 0 .. m - 1 : table[k] # Free
  <2>1. ASSUME NEW k \in 0 .. m - 1, table[k] = Free
        PROVE  FALSE
    <3>1. k \in S
      BY <1>1, <1>3, <2>1
    <3>. QED
      BY <1>1, <1>3, <3>1
  <2>. QED
    BY <2>1
<1>6. NewFd(table) =
        CHOOSE n \in Fd : table[n] = Free /\ \A k \in 0 .. n - 1 : table[k] # Free
  BY <1>2 DEF NewFd
<1>. QED
  BY <1>4, <1>5, <1>6

LEMMA ClosedFacts ==
    ASSUME NEW table \in Tables, NEW n
    PROVE  /\ Closed(table, n) \in Tables
           /\ \A k \in Fd : Closed(table, n)[k] = IF k = n THEN Free ELSE table[k]
BY DEF Closed, WithFile, Tables

\* A socket that is created has the port and a number of its own, not 0;
\* otherwise only number 0 may have become one.
LEMMA CreateFacts ==
    ASSUME limit \in FdLimits, NEW table \in Tables, NEW x \in Port,
           NEW new, new = CreateUdp(table, x)
    PROVE  /\ new.fd \in Fd /\ new.table \in Tables
           /\ new.fd = NullSocket =>
                 /\ \A k \in Fd \ {0} : new.table[k] = table[k]
                 /\ new.table[0] = table[0] \/ table[0] = Free
           /\ new.fd # NullSocket =>
                 /\ table[new.fd] = Free /\ new.table[new.fd] = x
                 /\ \A k \in Fd \ {new.fd} : new.table[k] = table[k]
<1>1. CASE Bound(table, x)
  <2>1. NewFd(table) \in Fd /\ table[NewFd(table)] = Free
    BY <1>1, NewFdFree DEF Bound
  <2>2. new.fd = NewFd(table) /\ new.table = [table EXCEPT ![NewFd(table)] = x]
    BY <1>1, <2>1 DEF CreateUdp, WithFile
  <2>3. new.table \in Tables
    BY <2>2 DEF Tables
  <2>4. new.table[new.fd] = x /\ \A k \in Fd \ {new.fd} : new.table[k] = table[k]
    BY <2>1, <2>2 DEF Tables
  <2>. QED
    BY <2>1, <2>2, <2>3, <2>4 DEF NullSocket
<1>2. CASE ~Bound(table, x)
  <2>1. new.fd = NullSocket /\ new.table = table
    BY <1>2 DEF CreateUdp
  <2>. QED
    BY <2>1, Constants DEF NullSocket
<1>. QED
  BY <1>1, <1>2

-----------------------------------------------------------------------------
(* Processes a step does not touch, and clients *)

LEMMA Untouched ==
    ASSUME SInv, NEW r \in Process,
           pc'[r] = pc[r] /\ fds'[r] = fds[r] /\ sock'[r] = sock[r] /\ conn'[r] = conn[r],
           refs'[r] = refs[r] /\ rtp'[r] = rtp[r] /\ rtcp'[r] = rtcp[r],
           port'[r] = port[r] /\ base'[r] = base[r] /\ half'[r] = half[r],
           twice'[r] = twice[r]
    PROVE  Own(r)'
<1>1. Own(r)
  BY DEF SInv
<1>2. Serving(r)' = Serving(r)
  BY DEF Serving
<1>3. Reads(r)' /\ Seeks(r)'
  BY <1>1, <1>2 DEF Own, Reads, Seeks
<1>4. Announces(r)' /\ Releases(r)'
  BY <1>1 DEF Own, Announces, Releases
<1>. QED
  BY <1>3, <1>4 DEF Own

\* Whether a client has been accepted does not change.
SameClients ==
    /\ UNCHANGED unserved
    /\ \A c \in Client : state'[c] \in {"accepted", "gone"} <=> state[c] \in {"accepted", "gone"}

LEMMA CountedStays ==
    ASSUME SInv, SameClients, conn' = conn, ended' = ended
    PROVE  Counted'
BY DEF SInv, TypeOK, SameClients, Counted, Alive

\* A session ends.
LEMMA CountedEnds ==
    ASSUME SInv, SameClients, NEW p \in Process,
           conn' = [conn EXCEPT ![p] = NoClient],
           ended' = ended \cup ({conn[p]} \ {NoClient})
    PROVE  Counted'
<1> USE DEF SInv
<1>1. /\ conn \in [Process -> Client \cup {NoClient}] /\ unserved \subseteq Client
      /\ ended \subseteq Client
  BY DEF TypeOK
<1>2. /\ conn'[p] = NoClient
      /\ \A r \in Process \ {p} : conn'[r] = conn[r]
  BY <1>1
<1>3. /\ \A c \in unserved \cup ended : state[c] \in {"accepted", "gone"}
      /\ \A c \in Client : Alive(c) <=> \E r \in Process : conn[r] = c
      /\ \A r, q \in Process : conn[r] = conn[q] /\ conn[r] # NoClient => r = q
  BY DEF Counted
<1>4. \A c \in (unserved \cup ended)' : state'[c] \in {"accepted", "gone"}
  <2>1. conn[p] # NoClient => conn[p] \in Client /\ state[conn[p]] \in {"accepted", "gone"}
    BY <1>1, <1>3 DEF Alive
  <2>. QED
    BY <1>1, <1>3, <2>1 DEF SameClients
<1>5. ASSUME NEW c \in Client
      PROVE  Alive(c)' <=> \E r \in Process : conn'[r] = c
  <2>1. Alive(c)' <=> Alive(c) /\ c # conn[p]
    BY Constants DEF Alive, SameClients
  <2>2. (\E r \in Process : conn'[r] = c) <=> (\E r \in Process \ {p} : conn[r] = c)
    BY <1>2, Constants
  <2>3. (\E r \in Process \ {p} : conn[r] = c) <=> (\E r \in Process : conn[r] = c) /\ c # conn[p]
    BY <1>3, Constants
  <2>. QED
    BY <1>3, <2>1, <2>2, <2>3
<1>6. ASSUME NEW r \in Process, NEW q \in Process, conn'[r] = conn'[q], conn'[r] # NoClient
      PROVE  r = q
  BY <1>2, <1>3, <1>6
<1>. QED
  BY <1>4, <1>5, <1>6 DEF Counted

\* A client is accepted, and process q begins with it.
LEMMA CountedBegins ==
    ASSUME SInv, NEW q \in Process, conn[q] = NoClient, NEW c \in Client,
           state[c] = "queued", state' = [state EXCEPT ![c] = "accepted"],
           conn' = [conn EXCEPT ![q] = c], unserved' = unserved, ended' = ended
    PROVE  Counted'
<1> USE DEF SInv
<1>1. /\ conn \in [Process -> Client \cup {NoClient}] /\ unserved \subseteq Client
      /\ ended \subseteq Client
      /\ state \in [Client -> {"away", "queued", "accepted", "gone"}]
  BY DEF TypeOK
<1>2. /\ conn'[q] = c /\ \A r \in Process \ {q} : conn'[r] = conn[r]
      /\ state'[c] = "accepted" /\ \A d \in Client \ {c} : state'[d] = state[d]
  BY <1>1
<1>3. /\ \A d \in unserved \cup ended : state[d] \in {"accepted", "gone"}
      /\ \A d \in Client : Alive(d) <=> \E r \in Process : conn[r] = d
      /\ \A r, s \in Process : conn[r] = conn[s] /\ conn[r] # NoClient => r = s
  BY DEF Counted
<1>4. c \notin unserved \cup ended /\ \A r \in Process : conn[r] # c
  BY <1>3 DEF Alive
<1>5. \A d \in (unserved \cup ended)' : state'[d] \in {"accepted", "gone"}
  BY <1>1, <1>2, <1>3
<1>6. ASSUME NEW d \in Client
      PROVE  Alive(d)' <=> \E r \in Process : conn'[r] = d
  <2>1. CASE d = c
    BY <1>2, <1>4, <2>1 DEF Alive
  <2>2. CASE d # c
    <3>1. Alive(d)' <=> Alive(d)
      BY <1>2, <2>2 DEF Alive
    <3>2. (\E r \in Process : conn'[r] = d) <=> (\E r \in Process : conn[r] = d)
      BY <1>2, <2>2, Constants
    <3>. QED
      BY <1>3, <3>1, <3>2
  <2>. QED
    BY <2>1, <2>2
<1>7. ASSUME NEW r \in Process, NEW s \in Process, conn'[r] = conn'[s], conn'[r] # NoClient
      PROVE  r = s
  BY <1>2, <1>3, <1>4, <1>7
<1>. QED
  BY <1>5, <1>6, <1>7 DEF Counted

\* A client is accepted for which there is no process.
LEMMA CountedUnserved ==
    ASSUME SInv, NEW c \in Client,
           state[c] = "queued", state' = [state EXCEPT ![c] = "accepted"],
           conn' = conn, unserved' = unserved \cup {c}, ended' = ended
    PROVE  Counted'
<1> USE DEF SInv
<1>1. /\ conn \in [Process -> Client \cup {NoClient}] /\ unserved \subseteq Client
      /\ ended \subseteq Client
      /\ state \in [Client -> {"away", "queued", "accepted", "gone"}]
  BY DEF TypeOK
<1>2. state'[c] = "accepted" /\ \A d \in Client \ {c} : state'[d] = state[d]
  BY <1>1
<1>3. /\ \A d \in unserved \cup ended : state[d] \in {"accepted", "gone"}
      /\ \A d \in Client : Alive(d) <=> \E r \in Process : conn[r] = d
      /\ \A r, s \in Process : conn[r] = conn[s] /\ conn[r] # NoClient => r = s
  BY DEF Counted
<1>4. \A d \in (unserved \cup ended)' : state'[d] \in {"accepted", "gone"}
  BY <1>1, <1>2, <1>3
<1>5. ASSUME NEW d \in Client
      PROVE  Alive(d)' <=> \E r \in Process : conn'[r] = d
  <2>1. CASE d = c
    BY <1>3, <2>1 DEF Alive
  <2>2. CASE d # c
    <3>1. Alive(d)' <=> Alive(d)
      BY <1>2, <2>2 DEF Alive
    <3>. QED
      BY <1>3, <3>1
  <2>. QED
    BY <2>1, <2>2
<1>. QED
  BY <1>3, <1>4, <1>5 DEF Counted

-----------------------------------------------------------------------------
(* main *)

LEMMA TypeFacts ==
    ASSUME SInv
    PROVE  /\ pc \in [Process -> {"none", "accept", "serve", "rtp", "rtcp", "dead"}]
           /\ fds \in [Process -> Tables] /\ \A r \in Process : fds[r] \in Tables
           /\ sock \in [Process -> Fd \cup {-1}]
           /\ conn \in [Process -> Client \cup {NoClient}]
           /\ refs \in [Process -> 0 .. MaxSetups]
           /\ rtp \in [Process -> Fd] /\ rtcp \in [Process -> Fd]
           /\ port \in [Process -> Port \cup {0}] /\ base \in [Process -> Port \cup {0}]
           /\ image \in [Process -> 0 .. 1]
           /\ state \in [Client -> {"away", "queued", "accepted", "gone"}]
           /\ said \in [Client -> BOOLEAN]
           /\ unserved \subseteq Client /\ ended \subseteq Client
           /\ half \in [Process -> BOOLEAN] /\ twice \in [Process -> BOOLEAN]
<1>1. TypeOK
  BY DEF SInv
<1>2. fds \in [Process -> Tables]
  BY <1>1 DEF TypeOK, Tables
<1>3. rtp \in [Process -> Fd] /\ rtcp \in [Process -> Fd]
  BY <1>1 DEF TypeOK
<1>4. port \in [Process -> Port \cup {0}] /\ base \in [Process -> Port \cup {0}]
  BY <1>1 DEF TypeOK
<1>5. half \in [Process -> BOOLEAN] /\ twice \in [Process -> BOOLEAN]
  BY <1>1 DEF TypeOK
<1>6. unserved \subseteq Client /\ ended \subseteq Client
  BY <1>1 DEF TypeOK
<1>7. \A r \in Process : fds[r] \in Tables
  BY <1>2
<1>. QED
  BY <1>1, <1>2, <1>3, <1>4, <1>5, <1>6, <1>7 DEF TypeOK

LEMMA TypeAgain ==
    ASSUME pc' \in [Process -> {"none", "accept", "serve", "rtp", "rtcp", "dead"}],
           fds' \in [Process -> Tables],
           sock' \in [Process -> Fd \cup {-1}],
           conn' \in [Process -> Client \cup {NoClient}],
           refs' \in [Process -> 0 .. MaxSetups],
           rtp' \in [Process -> Fd], rtcp' \in [Process -> Fd],
           port' \in [Process -> Port \cup {0}], base' \in [Process -> Port \cup {0}],
           image' \in [Process -> 0 .. 1],
           state' \in [Client -> {"away", "queued", "accepted", "gone"}],
           said' \in [Client -> BOOLEAN],
           unserved' \subseteq Client, ended' \subseteq Client,
           half' \in [Process -> BOOLEAN], twice' \in [Process -> BOOLEAN]
    PROVE  TypeOK'
<1>1. {rtp, rtcp}' \subseteq [Process -> Fd]
  OBVIOUS
<1>2. {port, base}' \subseteq [Process -> Port \cup {0}]
  OBVIOUS
<1>3. {half, twice}' \subseteq [Process -> BOOLEAN]
  OBVIOUS
<1>4. (unserved \cup ended)' \subseteq Client
  OBVIOUS
<1>5. fds' \in [Process -> [Fd -> {Free, Std, Listen} \cup Client \cup Port]]
  BY DEF Tables
<1>. QED
  BY <1>1, <1>2, <1>3, <1>4, <1>5 DEF TypeOK

\* What a process has that is in the loop of main, or is none yet.
LEMMA Idle ==
    ASSUME SInv, NEW r \in Process, pc[r] \in {"none", "accept"}
    PROVE  /\ conn[r] = NoClient /\ refs[r] = 0 /\ port[r] = 0
           /\ ~twice[r] => \A n \in Fd \ {0} : fds[r][n] \notin Port
<1>1. Own(r) /\ ~Serving(r)
  BY DEF SInv, Serving
<1>. QED
  BY <1>1 DEF Own, Reads, Seeks, Announces, Releases

\* Process p has accepted client c under number n, and q begins with it.
LEMMA BeginsStep ==
    ASSUME SInv, NEW p \in Process, NEW q \in Process, pc[p] = "accept", pc[q] = "none",
           NEW table \in Tables, \A k \in Fd : table[k] \in Port => table[k] = fds[p][k],
           NEW n, NEW c, c # NoClient => n \in Fd /\ table[n] = c,
           Begins(p, q, table, n, c), UNCHANGED <<refs, rtp, rtcp, port, base>>
    PROVE  \A r \in Process : Own(r)'
<1>1. p # q
  OBVIOUS
<1>2. /\ pc'[p] = "accept" /\ fds'[p] = table /\ sock'[p] = sock[p] /\ conn'[p] = conn[p]
      /\ half'[p] = half[p] /\ twice'[p] = twice[p]
  BY <1>1, TypeFacts DEF Begins
<1>3. /\ pc'[q] = "serve" /\ fds'[q] = table /\ sock'[q] = n /\ conn'[q] = c
      /\ half'[q] = half[p] /\ twice'[q] = twice[p]
  BY <1>1, TypeFacts DEF Begins
<1>4. \A r \in Process \ {p, q} :
         /\ pc'[r] = pc[r] /\ fds'[r] = fds[r] /\ sock'[r] = sock[r] /\ conn'[r] = conn[r]
         /\ half'[r] = half[r] /\ twice'[r] = twice[r]
  BY TypeFacts DEF Begins
<1>5. ~twice[p] => \A k \in Fd \ {0} : table[k] \notin Port
  BY Idle
<1>6. /\ conn[p] = NoClient /\ refs[p] = 0 /\ port[p] = 0 /\ refs[q] = 0 /\ port[q] = 0
  BY Idle
<1>7. Own(p)'
  <2>1. Reads(p)' /\ Announces(p)'
    BY <1>2, <1>6 DEF Reads, Announces
  <2>2. Seeks(p)' /\ Releases(p)'
    BY <1>2, <1>5, <1>6 DEF Seeks, Releases
  <2>. QED
    BY <2>1, <2>2 DEF Own
<1>8. Own(q)'
  <2>1. Reads(q)' /\ Announces(q)'
    BY <1>3, <1>6 DEF Reads, Announces, Serving
  <2>2. Seeks(q)' /\ Releases(q)'
    BY <1>3, <1>5, <1>6 DEF Seeks, Releases, Serving
  <2>. QED
    BY <2>1, <2>2 DEF Own
<1>9. ASSUME NEW r \in Process \ {p, q}
      PROVE  Own(r)'
  BY <1>4, Untouched
<1>. QED
  BY <1>7, <1>8, <1>9

LEMMA ForkedStep ==
    ASSUME SInv, NEW p \in Process, pc[p] = "accept",
           NEW table \in Tables, \A k \in Fd : table[k] \in Port => table[k] = fds[p][k],
           NEW n \in Fd \cup {-1}, NEW c \in Client \cup {NoClient},
           c # NoClient => n \in Fd /\ table[n] = c,
           Forked(p, table, n, c), UNCHANGED <<refs, rtp, rtcp, port, base, image>>
    PROVE  /\ \A r \in Process : Own(r)'
           /\ \/ conn' = conn /\ unserved' = unserved \cup ({c} \ {NoClient})
              \/ /\ unserved' = unserved
                 /\ \E q \in Process : conn[q] = NoClient /\ conn' = [conn EXCEPT ![q] = c]
           /\ pc' \in [Process -> {"none", "accept", "serve", "rtp", "rtcp", "dead"}]
           /\ fds' \in [Process -> Tables] /\ sock' \in [Process -> Fd \cup {-1}]
           /\ conn' \in [Process -> Client \cup {NoClient}]
           /\ half' \in [Process -> BOOLEAN] /\ twice' \in [Process -> BOOLEAN]
<1>1. CASE \E q \in Process : pc[q] = "none"
  <2>1. PICK q \in Process : pc[q] = "none" /\ Begins(p, q, table, n, c)
    BY <1>1 DEF Forked
  <2>2. \A r \in Process : Own(r)'
    BY <2>1, BeginsStep
  <2>3. unserved' = unserved
    BY <1>1 DEF Forked
  <2>4. conn[q] = NoClient /\ conn' = [conn EXCEPT ![q] = c]
    BY <2>1, Idle DEF Begins
  <2>5. /\ pc' \in [Process -> {"none", "accept", "serve", "rtp", "rtcp", "dead"}]
        /\ sock' \in [Process -> Fd \cup {-1}]
        /\ conn' \in [Process -> Client \cup {NoClient}]
    BY <2>1, TypeFacts DEF Begins
  <2>6. fds' \in [Process -> Tables]
    BY <2>1, TypeFacts DEF Begins
  <2>7. half' \in [Process -> BOOLEAN] /\ twice' \in [Process -> BOOLEAN]
    BY <2>1, TypeFacts DEF Begins
  <2>. QED
    BY <2>2, <2>3, <2>4, <2>5, <2>6, <2>7
<1>2. CASE ~\E q \in Process : pc[q] = "none"
  <2>1. /\ fds' = [fds EXCEPT ![p] = table]
        /\ unserved' = unserved \cup ({c} \ {NoClient})
        /\ UNCHANGED <<pc, sock, conn, half, twice>>
    BY <1>2 DEF Forked
  <2>2. fds'[p] = table /\ \A r \in Process \ {p} : fds'[r] = fds[r]
    BY <2>1, TypeFacts
  <2>3. Own(p)'
    <3>1. ~twice[p] => \A k \in Fd \ {0} : table[k] \notin Port
      BY Idle
    <3>2. conn[p] = NoClient /\ refs[p] = 0 /\ port[p] = 0
      BY Idle
    <3>3. Reads(p)' /\ Announces(p)'
      BY <2>1, <3>2 DEF Reads, Announces
    <3>4. Seeks(p)' /\ Releases(p)'
      BY <2>1, <2>2, <3>1, <3>2 DEF Seeks, Releases
    <3>. QED
      BY <3>3, <3>4 DEF Own
  <2>4. ASSUME NEW r \in Process \ {p}
        PROVE  Own(r)'
    BY <2>1, <2>2, Untouched
  <2>5. fds' \in [Process -> Tables]
    BY <2>1, TypeFacts
  <2>. QED
    BY <2>1, <2>3, <2>4, <2>5, TypeFacts
<1>. QED
  BY <1>1, <1>2

LEMMA AcceptStep ==
    ASSUME SInv, NEW p \in Process, Accept(p)
    PROVE  SInv'
<1>1. /\ pc[p] = "accept"
      /\ UNCHANGED <<refs, rtp, rtcp, port, base, image>>
      /\ UNCHANGED <<said, ended, limit, taken>>
  BY DEF Accept, system
<1>2. fds[p] \in Tables
  BY TypeFacts
<1>3. ASSUME state' \in [Client -> {"away", "queued", "accepted", "gone"}],
             unserved' \subseteq Client, Counted', NEW table \in Tables,
             \A k \in Fd : table[k] \in Port => table[k] = fds[p][k],
             NEW n \in Fd \cup {-1}, NEW c \in Client \cup {NoClient},
             c # NoClient => n \in Fd /\ table[n] = c,
             Forked(p, table, n, c)
      PROVE  SInv'
  <2>1. /\ \A r \in Process : Own(r)'
        /\ pc' \in [Process -> {"none", "accept", "serve", "rtp", "rtcp", "dead"}]
        /\ fds' \in [Process -> Tables] /\ sock' \in [Process -> Fd \cup {-1}]
        /\ conn' \in [Process -> Client \cup {NoClient}]
        /\ half' \in [Process -> BOOLEAN] /\ twice' \in [Process -> BOOLEAN]
    BY <1>1, <1>3, ForkedStep
  <2>2. TypeOK'
    <3>1. /\ refs' \in [Process -> 0 .. MaxSetups] /\ rtp' \in [Process -> Fd]
          /\ rtcp' \in [Process -> Fd] /\ port' \in [Process -> Port \cup {0}]
          /\ base' \in [Process -> Port \cup {0}] /\ image' \in [Process -> 0 .. 1]
          /\ said' \in [Client -> BOOLEAN] /\ ended' \subseteq Client
      BY <1>1, TypeFacts
    <3>. QED
      BY <1>3, <2>1, <3>1, TypeAgain
  <2>. QED
    BY <1>1, <1>3, <2>1, <2>2 DEF SInv
<1>4. CASE Full(p)
  <2>1. Forked(p, fds[p], -1, NoClient) /\ state' = state
    BY <1>4 DEF Accept
  <2>2. \/ conn' = conn /\ unserved' = unserved \cup ({NoClient} \ {NoClient})
        \/ /\ unserved' = unserved
           /\ \E q \in Process : conn[q] = NoClient /\ conn' = [conn EXCEPT ![q] = NoClient]
    BY <1>1, <1>2, <2>1, ForkedStep
  <2>3. unserved' = unserved
    BY <2>2
  <2>4. conn' = conn
    BY <2>2, TypeFacts
  <2>5. Counted'
    BY <1>1, <2>1, <2>3, <2>4, CountedStays DEF SameClients
  <2>6. state' \in [Client -> {"away", "queued", "accepted", "gone"}] /\ unserved' \subseteq Client
    BY <2>1, <2>3, TypeFacts
  <2>. QED
    BY <1>2, <1>3, <2>1, <2>5, <2>6
<1>5. CASE ~Full(p)
  <2>1. PICK c \in Client :
            /\ state[c] = "queued"
            /\ state' = [state EXCEPT ![c] = "accepted"]
            /\ Forked(p, WithFile(fds[p], NewFd(fds[p]), c), NewFd(fds[p]), c)
    BY <1>5 DEF Accept
  <2> DEFINE n == NewFd(fds[p])  table == WithFile(fds[p], n, c)
  <2>2. n \in Fd /\ fds[p][n] = Free
    BY <1>2, <1>5, NewFdFree DEF Full, SInv
  <2>3. /\ table \in Tables /\ table[n] = c
        /\ \A k \in Fd : table[k] = IF k = n THEN c ELSE fds[p][k]
    BY <1>2, <2>2 DEF WithFile, Tables
  <2>4. \A k \in Fd : table[k] \in Port => table[k] = fds[p][k]
    BY <2>3, Constants
  <2>5. c # NoClient /\ c \in Client
    BY Constants
  <2> HIDE DEF n, table
  <2>6. Forked(p, table, n, c)
    BY <2>1 DEF n, table
  <2>7. \/ conn' = conn /\ unserved' = unserved \cup ({c} \ {NoClient})
        \/ /\ unserved' = unserved
           /\ \E q \in Process : conn[q] = NoClient /\ conn' = [conn EXCEPT ![q] = c]
    BY <1>1, <2>2, <2>3, <2>4, <2>5, <2>6, ForkedStep
  <2>8. Counted'
    <3>1. CASE conn' = conn /\ unserved' = unserved \cup ({c} \ {NoClient})
      <4>1. unserved' = unserved \cup {c}
        BY <2>5, <3>1
      <4>. QED
        BY <1>1, <2>1, <3>1, <4>1, CountedUnserved
    <3>2. CASE /\ unserved' = unserved
               /\ \E q \in Process : conn[q] = NoClient /\ conn' = [conn EXCEPT ![q] = c]
      BY <1>1, <2>1, <3>2, CountedBegins
    <3>. QED
      BY <2>7, <3>1, <3>2
  <2>9. state' \in [Client -> {"away", "queued", "accepted", "gone"}] /\ unserved' \subseteq Client
    BY <2>1, <2>7, TypeFacts
  <2>. QED
    BY <1>3, <2>2, <2>3, <2>4, <2>5, <2>6, <2>8, <2>9
<1>. QED
  BY <1>4, <1>5

-----------------------------------------------------------------------------
(* workerThread *)

\* The session of process p ends, with none of its ports bound any more.
LEMMA DiscardStep ==
    ASSUME SInv, NEW p \in Process, Discard(p), NEW table \in Tables,
           ~twice[p] => \A k \in Fd \ {0} : table[k] \notin Port,
           fds' = [fds EXCEPT ![p] = table],
           NEW place \in {"accept", "dead"}, pc' = [pc EXCEPT ![p] = place],
           state' \in [Client -> {"away", "queued", "accepted", "gone"}],
           said' \in [Client -> BOOLEAN],
           SameClients, limit' = limit
    PROVE  SInv'
<1>1. /\ pc' = [pc EXCEPT ![p] = place] /\ sock' = [sock EXCEPT ![p] = -1]
      /\ conn' = [conn EXCEPT ![p] = NoClient] /\ refs' = [refs EXCEPT ![p] = 0]
      /\ rtp' = [rtp EXCEPT ![p] = NullSocket] /\ rtcp' = [rtcp EXCEPT ![p] = NullSocket]
      /\ port' = [port EXCEPT ![p] = 0] /\ image' = [image EXCEPT ![p] = 0]
      /\ base' = base /\ half' = half /\ twice' = twice
      /\ ended' = ended \cup ({conn[p]} \ {NoClient})
  BY DEF Discard
<1>2. /\ pc'[p] = place /\ fds'[p] = table /\ conn'[p] = NoClient /\ refs'[p] = 0
      /\ port'[p] = 0
  BY <1>1, TypeFacts
<1>3. Own(p)'
  <2>1. Reads(p)' /\ Announces(p)'
    BY <1>2 DEF Reads, Announces
  <2>2. Seeks(p)' /\ Releases(p)'
    BY <1>1, <1>2 DEF Seeks, Releases
  <2>. QED
    BY <2>1, <2>2 DEF Own
<1>4. ASSUME NEW r \in Process \ {p}
      PROVE  Own(r)'
  <2>1. /\ pc'[r] = pc[r] /\ fds'[r] = fds[r] /\ sock'[r] = sock[r] /\ conn'[r] = conn[r]
        /\ refs'[r] = refs[r] /\ rtp'[r] = rtp[r] /\ rtcp'[r] = rtcp[r] /\ port'[r] = port[r]
    BY <1>1, TypeFacts
  <2>. QED
    BY <1>1, <2>1, Untouched
<1>5. Counted'
  BY <1>1, CountedEnds
<1>6. TypeOK'
  <2>1. /\ pc' \in [Process -> {"none", "accept", "serve", "rtp", "rtcp", "dead"}]
        /\ sock' \in [Process -> Fd \cup {-1}]
        /\ conn' \in [Process -> Client \cup {NoClient}]
    BY <1>1, TypeFacts
  <2>2. fds' \in [Process -> Tables] /\ ended' \subseteq Client /\ unserved' \subseteq Client
    BY <1>1, TypeFacts DEF SameClients
  <2>3. refs' \in [Process -> 0 .. MaxSetups] /\ image' \in [Process -> 0 .. 1]
    BY <1>1, TypeFacts, Constants
  <2>4. /\ rtp' \in [Process -> Fd] /\ rtcp' \in [Process -> Fd]
        /\ port' \in [Process -> Port \cup {0}]
    BY <1>1, TypeFacts, Constants DEF NullSocket
  <2>5. /\ base' \in [Process -> Port \cup {0}] /\ half' \in [Process -> BOOLEAN]
        /\ twice' \in [Process -> BOOLEAN]
    BY <1>1, TypeFacts
  <2>. QED
    BY <2>1, <2>2, <2>3, <2>4, <2>5, TypeAgain
<1>. QED
  BY <1>3, <1>4, <1>5, <1>6 DEF SInv

LEMMA EndSessionStep ==
    ASSUME SInv, NEW p \in Process, pc[p] = "serve", EndSession(p),
           said' \in [Client -> BOOLEAN], state' = state, unserved' = unserved, limit' = limit
    PROVE  SInv'
<1> DEFINE table == IF refs[p] = 1 THEN Closed(Closed(fds[p], rtp[p]), rtcp[p]) ELSE fds[p]
           left == Closed(table, sock[p])
<1>1. fds' = [fds EXCEPT ![p] = left] /\ pc' = [pc EXCEPT ![p] = "accept"] /\ Discard(p)
  BY DEF EndSession
<1>2. table \in Tables /\ left \in Tables
  <2>1. table \in Tables
    BY TypeFacts, ClosedFacts
  <2>. QED
    BY <2>1, ClosedFacts
<1>3. ASSUME ~twice[p], NEW k \in Fd \ {0}
      PROVE  left[k] \notin Port
  <2>1. table[k] \notin Port
    <3>1. /\ refs[p] <= 1
          /\ fds[p][k] \in Port => refs[p] = 1 /\ k \in {rtp[p], rtcp[p]}
      BY <1>3 DEF SInv, Own, Releases
    <3>2. CASE refs[p] = 1
      <4>1. table[k] = IF k \in {rtp[p], rtcp[p]} THEN Free ELSE fds[p][k]
        BY <3>2, TypeFacts, ClosedFacts
      <4>. QED
        BY <3>1, <4>1, Constants
    <3>3. CASE refs[p] # 1
      BY <3>1, <3>3
    <3>. QED
      BY <3>2, <3>3
  <2>2. left[k] = IF k = sock[p] THEN Free ELSE table[k]
    BY <1>2, ClosedFacts
  <2>. QED
    BY <2>1, <2>2, Constants
<1>4. SameClients /\ state' \in [Client -> {"away", "queued", "accepted", "gone"}]
  BY TypeFacts DEF SameClients
<1> HIDE DEF left
<1>. QED
  BY <1>1, <1>2, <1>3, <1>4, DiscardStep

LEMMA StreamImageStep ==
    ASSUME SInv, NEW p \in Process, StreamImage(p),
           said' \in [Client -> BOOLEAN], state' = state, unserved' = unserved, limit' = limit
    PROVE  SInv'
<1>1. /\ image' = [image EXCEPT ![p] = 1 - image[p]]
      /\ UNCHANGED <<pc, fds, sock, conn, refs, rtp, rtcp>>
      /\ UNCHANGED <<port, base, ended, half, twice>>
  BY DEF StreamImage
<1>2. \A r \in Process : Own(r)'
  BY <1>1, Untouched
<1>3. Counted'
  BY <1>1, CountedStays DEF SameClients
<1>4. image' \in [Process -> 0 .. 1]
  BY <1>1, TypeFacts
<1>5. TypeOK'
  BY <1>1, <1>4, TypeFacts, TypeAgain
<1>. QED
  BY <1>2, <1>3, <1>5 DEF SInv

LEMMA SetupStep ==
    ASSUME SInv, NEW p \in Process, pc[p] = "serve", Setup(p),
           said' \in [Client -> BOOLEAN], state' = state, unserved' = unserved, limit' = limit
    PROVE  SInv'
<1>1. /\ refs[p] < MaxSetups
      /\ UNCHANGED <<fds, sock, conn, rtp, rtcp>>
      /\ UNCHANGED <<port, image, ended, half>>
  BY DEF Setup
<1>2. Counted'
  BY <1>1, CountedStays DEF SameClients
<1>3. Own(p)
  BY DEF SInv
<1>4. CASE refs[p] = 0
  <2>1. /\ pc' = [pc EXCEPT ![p] = "rtp"] /\ base' = [base EXCEPT ![p] = FirstPort]
        /\ refs' = refs /\ twice' = twice
    BY <1>4 DEF Setup
  <2>2. pc'[p] = "rtp" /\ base'[p] = FirstPort
    BY <2>1, TypeFacts
  <2>3. FirstPort \in Port /\ FirstPort % 2 = 0
    BY TestServerAssumption DEF Port
  <2>4. Own(p)'
    <3>1. Reads(p)' /\ Announces(p)'
      BY <1>1, <1>3, <1>4, <2>1, <2>2 DEF Own, Reads, Announces, Serving
    <3>2. Seeks(p)'
      BY <1>1, <1>3, <1>4, <2>1, <2>2, <2>3 DEF Seeks
    <3>3. Releases(p)'
      BY <1>1, <1>3, <1>4, <2>1, <2>2 DEF Own, Releases
    <3>. QED
      BY <3>1, <3>2, <3>3 DEF Own
  <2>5. ASSUME NEW r \in Process \ {p}
        PROVE  Own(r)'
    <3>1. pc'[r] = pc[r] /\ base'[r] = base[r]
      BY <2>1, TypeFacts
    <3>. QED
      BY <1>1, <2>1, <3>1, Untouched
  <2>6. TypeOK'
    <3>1. pc' \in [Process -> {"none", "accept", "serve", "rtp", "rtcp", "dead"}]
      BY <2>1, TypeFacts
    <3>2. base' \in [Process -> Port \cup {0}]
      BY <2>1, <2>3, TypeFacts
    <3>. QED
      BY <1>1, <2>1, <3>1, <3>2, TypeFacts, TypeAgain
  <2>. QED
    BY <1>2, <2>4, <2>5, <2>6 DEF SInv
<1>5. CASE refs[p] # 0
  <2>1. /\ refs' = [refs EXCEPT ![p] = @ + 1] /\ twice' = [twice EXCEPT ![p] = TRUE]
        /\ pc' = pc /\ base' = base
    BY <1>5 DEF Setup
  <2>2. refs'[p] = refs[p] + 1 /\ twice'[p] = TRUE /\ refs[p] \in Nat
    BY <2>1, TypeFacts, Constants
  <2>3. Own(p)'
    <3>1. Reads(p)' /\ Announces(p)'
      BY <1>1, <1>3, <2>1, <2>2 DEF Own, Reads, Announces, Serving
    <3>2. Seeks(p)' /\ Releases(p)'
      BY <1>1, <2>1, <2>2 DEF Seeks, Releases, Serving
    <3>. QED
      BY <3>1, <3>2 DEF Own
  <2>4. ASSUME NEW r \in Process \ {p}
        PROVE  Own(r)'
    <3>1. refs'[r] = refs[r] /\ twice'[r] = twice[r]
      BY <2>1, TypeFacts
    <3>. QED
      BY <1>1, <2>1, <3>1, Untouched
  <2>5. TypeOK'
    <3>1. twice' \in [Process -> BOOLEAN]
      BY <2>1, TypeFacts
    <3>2. refs' \in [Process -> 0 .. MaxSetups]
      <4>1. refs[p] + 1 \in 0 .. MaxSetups
        BY <1>1, <2>2, Constants
      <4>. QED
        BY <2>1, <4>1, TypeFacts
    <3>. QED
      BY <1>1, <2>1, <3>1, <3>2, TypeFacts, TypeAgain
  <2>. QED
    BY <1>2, <2>3, <2>4, <2>5 DEF SInv
<1>. QED
  BY <1>4, <1>5

LEMMA ServeStep ==
    ASSUME SInv, NEW p \in Process, Serve(p)
    PROVE  SInv'
<1>1. pc[p] = "serve" /\ state' = state /\ unserved' = unserved /\ limit' = limit
  BY DEF Serve, system
<1>2. Received(p) \in {"data", "closed", "timeout"}
  BY DEF Received
<1>3. CASE Received(p) = "closed"
  <2>1. EndSession(p) /\ said' = said
    BY <1>3 DEF Serve
  <2>. QED
    BY <1>1, <2>1, TypeFacts, EndSessionStep
<1>4. CASE Received(p) = "timeout"
  <2>1. StreamImage(p) /\ said' = said
    BY <1>4 DEF Serve
  <2>. QED
    BY <1>1, <2>1, TypeFacts, StreamImageStep
<1>5. CASE Received(p) = "data"
  <2>1. /\ said' = [said EXCEPT ![fds[p][sock[p]]] = FALSE]
        /\ EndSession(p) \/ StreamImage(p) \/ Setup(p) \/ UNCHANGED <<workers, ended>>
    BY <1>5 DEF Serve
  <2>2. said' \in [Client -> BOOLEAN]
    BY <2>1, TypeFacts
  <2>3. CASE UNCHANGED <<workers, ended>>
    <3>1. /\ UNCHANGED <<pc, fds, sock, conn, refs, rtp, rtcp>>
          /\ UNCHANGED <<port, base, image, ended, half, twice>>
      BY <2>3 DEF workers
    <3>2. \A r \in Process : Own(r)'
      BY <3>1, Untouched
    <3>3. Counted'
      BY <1>1, <3>1, CountedStays DEF SameClients
    <3>4. TypeOK'
      BY <1>1, <2>2, <3>1, TypeFacts, TypeAgain
    <3>. QED
      BY <1>1, <3>2, <3>3, <3>4 DEF SInv
  <2>. QED
    BY <1>1, <2>1, <2>2, <2>3, EndSessionStep, StreamImageStep, SetupStep
<1>. QED
  BY <1>2, <1>3, <1>4, <1>5

-----------------------------------------------------------------------------
(* The search for ports *)

LEMMA NextBaseFacts ==
    ASSUME SInv, NEW p \in Process, pc[p] \in {"rtp", "rtcp"}, NextBase(p)
    PROVE  /\ pc'[p] \in {"rtp", "serve"} /\ refs'[p] \in {0, 1}
           /\ pc'[p] = "rtp" => base'[p] \in Port /\ base'[p] % 2 = 0 /\ refs'[p] = 0
           /\ \A r \in Process \ {p} :
                 pc'[r] = pc[r] /\ base'[r] = base[r] /\ refs'[r] = refs[r]
           /\ pc' \in [Process -> {"none", "accept", "serve", "rtp", "rtcp", "dead"}]
           /\ base' \in [Process -> Port \cup {0}] /\ refs' \in [Process -> 0 .. MaxSetups]
<1>1. base[p] \in Port /\ base[p] % 2 = 0
  BY DEF SInv, Own, Seeks
<1>2. FirstPort \in Nat /\ EndPort \in Nat /\ EndPort % 2 = 0
  BY TestServerAssumption
<1>3. base[p] + 2 < EndPort => base[p] + 2 \in Port /\ (base[p] + 2) % 2 = 0
  BY <1>1, <1>2 DEF Port
<1>4. /\ base' = [base EXCEPT ![p] = IF base[p] + 2 < EndPort THEN base[p] + 2 ELSE 0]
      /\ pc' = [pc EXCEPT ![p] = IF base[p] + 2 < EndPort THEN "rtp" ELSE "serve"]
      /\ refs' = [refs EXCEPT ![p] = IF base[p] + 2 < EndPort THEN 0 ELSE 1]
  BY DEF NextBase
<1>5. 0 \in 0 .. MaxSetups /\ 1 \in 0 .. MaxSetups
  BY Constants
<1>6. CASE base[p] + 2 < EndPort
  <2>1. /\ base' = [base EXCEPT ![p] = base[p] + 2] /\ pc' = [pc EXCEPT ![p] = "rtp"]
        /\ refs' = [refs EXCEPT ![p] = 0]
    BY <1>4, <1>6
  <2>2. base' \in [Process -> Port \cup {0}] /\ refs' \in [Process -> 0 .. MaxSetups]
    BY <1>3, <1>5, <1>6, <2>1, TypeFacts
  <2>3. pc' \in [Process -> {"none", "accept", "serve", "rtp", "rtcp", "dead"}]
    BY <2>1, TypeFacts
  <2>4. base'[p] = base[p] + 2 /\ pc'[p] = "rtp" /\ refs'[p] = 0
    BY <2>1, TypeFacts
  <2>5. \A r \in Process \ {p} :
           pc'[r] = pc[r] /\ base'[r] = base[r] /\ refs'[r] = refs[r]
    BY <2>1, TypeFacts
  <2>. QED
    BY <1>3, <1>6, <2>2, <2>3, <2>4, <2>5
<1>7. CASE ~(base[p] + 2 < EndPort)
  <2>1. /\ base' = [base EXCEPT ![p] = 0] /\ pc' = [pc EXCEPT ![p] = "serve"]
        /\ refs' = [refs EXCEPT ![p] = 1]
    BY <1>4, <1>7
  <2>2. base' \in [Process -> Port \cup {0}] /\ refs' \in [Process -> 0 .. MaxSetups]
    BY <1>5, <2>1, TypeFacts
  <2>3. pc' \in [Process -> {"none", "accept", "serve", "rtp", "rtcp", "dead"}]
    BY <2>1, TypeFacts
  <2>4. pc'[p] = "serve" /\ refs'[p] = 1
    BY <2>1, TypeFacts
  <2>5. \A r \in Process \ {p} :
           pc'[r] = pc[r] /\ base'[r] = base[r] /\ refs'[r] = refs[r]
    BY <2>1, TypeFacts
  <2>. QED
    BY <2>2, <2>3, <2>4, <2>5
<1>. QED
  BY <1>6, <1>7

\* What a process has while it searches.
LEMMA SearchFacts ==
    ASSUME SInv, NEW p \in Process, pc[p] \in {"rtp", "rtcp"}
    PROVE  /\ base[p] \in Port /\ base[p] % 2 = 0 /\ base[p] + 1 \in Port
           /\ refs[p] = 0 /\ port[p] = 0
           /\ conn[p] # NoClient =>
                 /\ sock[p] \in Fd
                 /\ fds[p][sock[p]] = conn[p] \/ sock[p] = NullSocket
                 /\ fds[p][sock[p]] = conn[p] \/ half[p]
                 /\ conn[p] \in Client /\ conn[p] \notin Port /\ conn[p] # Free
           /\ ~twice[p] => \A n \in Fd \ {0} :
                 fds[p][n] \in Port => pc[p] = "rtcp" /\ n = rtp[p]
<1>1. Own(p)
  BY DEF SInv
<1>2. base[p] \in Port /\ base[p] % 2 = 0 /\ refs[p] = 0
  BY <1>1 DEF Own, Seeks
<1>3. base[p] + 1 \in Port
  <2>1. FirstPort \in Nat /\ EndPort \in Nat /\ EndPort % 2 = 0
    BY TestServerAssumption
  <2>. QED
    BY <1>2, <2>1 DEF Port
<1>4. port[p] = 0
  BY <1>1 DEF Own, Announces
<1>5. conn[p] # NoClient =>
          /\ sock[p] \in Fd
          /\ fds[p][sock[p]] = conn[p] \/ sock[p] = NullSocket
          /\ fds[p][sock[p]] = conn[p] \/ half[p]
  BY <1>1 DEF Own, Reads
<1>6. conn[p] # NoClient => conn[p] \in Client /\ conn[p] \notin Port /\ conn[p] # Free
  BY TypeFacts, Constants
<1>7. ~twice[p] => \A n \in Fd \ {0} : fds[p][n] \in Port => pc[p] = "rtcp" /\ n = rtp[p]
  BY <1>1 DEF Own, Releases
<1>. QED
  BY <1>2, <1>3, <1>4, <1>5, <1>6, <1>7

LEMMA SearchRtpStep ==
    ASSUME SInv, NEW p \in Process, SearchRtp(p)
    PROVE  SInv'
<1> DEFINE new == CreateUdp(fds[p], base[p])
<1>1. /\ pc[p] = "rtp"
      /\ fds' = [fds EXCEPT ![p] = new.table] /\ rtp' = [rtp EXCEPT ![p] = new.fd]
      /\ IF new.fd # NullSocket
         THEN pc' = [pc EXCEPT ![p] = "rtcp"] /\ UNCHANGED <<base, refs>>
         ELSE NextBase(p)
      /\ UNCHANGED <<sock, conn, rtcp, port, image, half, twice>>
      /\ UNCHANGED <<state, said, unserved, ended, limit>>
  BY DEF SearchRtp, clients, system
<1>2. /\ new.fd \in Fd /\ new.table \in Tables
      /\ new.fd = NullSocket =>
            /\ \A k \in Fd \ {0} : new.table[k] = fds[p][k]
            /\ new.table[0] = fds[p][0] \/ fds[p][0] = Free
      /\ new.fd # NullSocket =>
            /\ fds[p][new.fd] = Free /\ new.table[new.fd] = base[p]
            /\ \A k \in Fd \ {new.fd} : new.table[k] = fds[p][k]
  BY <1>1, SearchFacts, TypeFacts, CreateFacts DEF SInv
<1> HIDE DEF new
<1>3. /\ fds'[p] = new.table /\ rtp'[p] = new.fd
      /\ \A r \in Process \ {p} : fds'[r] = fds[r] /\ rtp'[r] = rtp[r]
  BY <1>1, TypeFacts
<1>4. /\ pc'[p] \in {"rtp", "rtcp", "serve"} /\ refs'[p] \in {0, 1}
      /\ pc'[p] = "rtcp" <=> new.fd # NullSocket
      /\ pc'[p] \in {"rtp", "rtcp"} =>
            base'[p] \in Port /\ base'[p] % 2 = 0 /\ refs'[p] = 0
      /\ pc'[p] = "rtcp" => base'[p] = base[p]
      /\ \A r \in Process \ {p} :
            pc'[r] = pc[r] /\ base'[r] = base[r] /\ refs'[r] = refs[r]
      /\ pc' \in [Process -> {"none", "accept", "serve", "rtp", "rtcp", "dead"}]
      /\ base' \in [Process -> Port \cup {0}] /\ refs' \in [Process -> 0 .. MaxSetups]
  <2>1. CASE new.fd # NullSocket
    BY <1>1, <2>1, SearchFacts, TypeFacts
  <2>2. CASE new.fd = NullSocket
    BY <1>1, <2>2, NextBaseFacts
  <2>. QED
    BY <2>1, <2>2
<1>5. Own(p)'
  <2>1. Reads(p)'
    <3>1. SUFFICES ASSUME conn[p] # NoClient
                   PROVE  /\ Serving(p)' /\ sock[p] \in Fd
                          /\ new.table[sock[p]] = conn[p] \/ sock[p] = NullSocket
                          /\ new.table[sock[p]] = conn[p] \/ half[p]
      BY <1>1, <1>3 DEF Reads
    <3>2. Serving(p)' /\ sock[p] \in Fd
      BY <1>1, <1>4, <3>1, SearchFacts DEF Serving
    <3>3. fds[p][sock[p]] = conn[p] => new.table[sock[p]] = conn[p]
      <4>1. SUFFICES ASSUME fds[p][sock[p]] = conn[p] PROVE new.table[sock[p]] = conn[p]
        OBVIOUS
      <4>2. fds[p][sock[p]] # Free
        BY <1>1, <3>1, <4>1, SearchFacts
      <4>. QED
        BY <1>2, <3>2, <4>1, <4>2
    <3>. QED
      BY <1>1, <3>1, <3>2, <3>3, SearchFacts
  <2>2. Seeks(p)'
    <3>1. pc'[p] = "rtcp" => rtp'[p] # NullSocket /\ fds'[p][rtp'[p]] = base'[p]
      BY <1>2, <1>3, <1>4
    <3>. QED
      BY <1>4, <3>1 DEF Seeks, Serving
  <2>3. Announces(p)'
    BY <1>1, SearchFacts DEF Announces
  <2>4. Releases(p)'
    <3>1. ASSUME ~twice[p], NEW k \in Fd \ {0}, new.table[k] \in Port
          PROVE  pc'[p] = "rtcp" /\ k = rtp'[p]
      <4>1. fds[p][k] \notin Port
        BY <1>1, <3>1, SearchFacts
      <4>. QED
        BY <1>2, <1>3, <1>4, <3>1, <4>1
    <3>2. refs'[p] <= 1
      BY <1>4
    <3>. QED
      BY <1>1, <1>3, <3>1, <3>2 DEF Releases
  <2>. QED
    BY <2>1, <2>2, <2>3, <2>4 DEF Own
<1>6. ASSUME NEW r \in Process \ {p}
      PROVE  Own(r)'
  BY <1>1, <1>3, <1>4, Untouched
<1>7. Counted'
  BY <1>1, CountedStays DEF SameClients
<1>8. TypeOK'
  <2>1. fds' \in [Process -> Tables] /\ rtp' \in [Process -> Fd]
    BY <1>1, <1>2, TypeFacts
  <2>. QED
    BY <1>1, <1>4, <2>1, TypeFacts, TypeAgain
<1>. QED
  BY <1>1, <1>5, <1>6, <1>7, <1>8 DEF SInv

LEMMA SearchRtcpStep ==
    ASSUME SInv, NEW p \in Process, SearchRtcp(p)
    PROVE  SInv'
<1> DEFINE new == CreateUdp(fds[p], base[p] + 1)
<1>1. /\ pc[p] = "rtcp" /\ rtcp' = [rtcp EXCEPT ![p] = new.fd]
      /\ UNCHANGED <<sock, conn, rtp, image, twice>>
      /\ UNCHANGED <<state, said, unserved, ended, limit>>
  BY DEF SearchRtcp, clients, system
<1>2. /\ new.fd \in Fd /\ new.table \in Tables
      /\ new.fd = NullSocket =>
            /\ \A k \in Fd \ {0} : new.table[k] = fds[p][k]
            /\ new.table[0] = fds[p][0] \/ fds[p][0] = Free
      /\ new.fd # NullSocket =>
            /\ fds[p][new.fd] = Free /\ new.table[new.fd] = base[p] + 1
            /\ \A k \in Fd \ {new.fd} : new.table[k] = fds[p][k]
  BY <1>1, SearchFacts, TypeFacts, CreateFacts DEF SInv
<1>3. new.fd # NullSocket =>
         /\ fds' = [fds EXCEPT ![p] = new.table] /\ port' = [port EXCEPT ![p] = base[p]]
         /\ refs' = [refs EXCEPT ![p] = 1] /\ pc' = [pc EXCEPT ![p] = "serve"]
         /\ base' = [base EXCEPT ![p] = 0] /\ half' = half
  BY DEF SearchRtcp
<1>4. new.fd = NullSocket =>
         /\ fds' = [fds EXCEPT ![p] = Closed(Closed(new.table, rtp[p]), NullSocket)]
         /\ half' = [half EXCEPT ![p] = TRUE] /\ NextBase(p) /\ port' = port
  BY DEF SearchRtcp
<1> HIDE DEF new
<1>5. rtp[p] # NullSocket /\ rtp[p] \in Fd /\ fds[p][rtp[p]] = base[p] /\ base[p] # Free
  BY <1>1, TypeFacts, SearchFacts, Constants DEF SInv, Own, Seeks
<1>6. /\ rtcp'[p] = new.fd /\ \A r \in Process \ {p} : rtcp'[r] = rtcp[r]
      /\ rtcp' \in [Process -> Fd]
  BY <1>1, <1>2, TypeFacts
<1>7. Counted'
  BY <1>1, CountedStays DEF SameClients
<1>8. CASE new.fd # NullSocket
  <2>1. /\ fds'[p] = new.table /\ port'[p] = base[p] /\ refs'[p] = 1 /\ pc'[p] = "serve"
        /\ \A r \in Process \ {p} :
              /\ fds'[r] = fds[r] /\ port'[r] = port[r] /\ refs'[r] = refs[r]
              /\ pc'[r] = pc[r] /\ base'[r] = base[r]
    BY <1>3, <1>8, TypeFacts
  <2>2. Reads(p)'
    <3>1. SUFFICES ASSUME conn[p] # NoClient
                   PROVE  /\ sock[p] \in Fd
                          /\ new.table[sock[p]] = conn[p] \/ sock[p] = NullSocket
                          /\ new.table[sock[p]] = conn[p] \/ half[p]
      BY <1>1, <1>3, <1>8, <2>1 DEF Reads, Serving
    <3>2. fds[p][sock[p]] = conn[p] => new.table[sock[p]] = conn[p]
      <4>1. SUFFICES ASSUME fds[p][sock[p]] = conn[p] PROVE new.table[sock[p]] = conn[p]
        OBVIOUS
      <4>2. fds[p][sock[p]] # Free /\ sock[p] \in Fd
        BY <1>1, <3>1, <4>1, SearchFacts
      <4>. QED
        BY <1>2, <1>8, <4>1, <4>2
    <3>. QED
      BY <1>1, <3>1, <3>2, SearchFacts
  <2>3. Seeks(p)'
    BY <2>1 DEF Seeks, Serving
  <2>4. Announces(p)'
    <3>1. rtp[p] # new.fd
      BY <1>2, <1>5, <1>8
    <3>2. new.table[rtp[p]] = base[p]
      BY <1>2, <1>5, <1>8, <3>1
    <3>. QED
      BY <1>1, <1>2, <1>6, <1>8, <2>1, <3>2 DEF Announces
  <2>5. Releases(p)'
    <3>1. ASSUME ~twice[p], NEW k \in Fd \ {0}, new.table[k] \in Port
          PROVE  k \in {rtp[p], new.fd}
      BY <1>1, <1>2, <1>8, <3>1, SearchFacts
    <3>. QED
      BY <1>1, <1>6, <2>1, <3>1 DEF Releases
  <2>6. Own(p)'
    BY <2>2, <2>3, <2>4, <2>5 DEF Own
  <2>7. ASSUME NEW r \in Process \ {p}
        PROVE  Own(r)'
    BY <1>1, <1>3, <1>6, <1>8, <2>1, Untouched
  <2>8. TypeOK'
    <3>1. base[p] \in Port /\ 1 \in 0 .. MaxSetups
      BY <1>1, SearchFacts, Constants
    <3>2. fds' \in [Process -> Tables] /\ port' \in [Process -> Port \cup {0}]
      BY <1>2, <1>3, <1>8, <3>1, TypeFacts
    <3>3. refs' \in [Process -> 0 .. MaxSetups]
      BY <1>3, <1>8, <3>1, TypeFacts
    <3>4. /\ pc' \in [Process -> {"none", "accept", "serve", "rtp", "rtcp", "dead"}]
          /\ base' \in [Process -> Port \cup {0}] /\ half' \in [Process -> BOOLEAN]
      BY <1>3, <1>8, TypeFacts
    <3>. QED
      BY <1>1, <1>6, <3>2, <3>3, <3>4, TypeFacts, TypeAgain
  <2>. QED
    BY <1>1, <1>7, <2>6, <2>7, <2>8 DEF SInv
<1>9. CASE new.fd = NullSocket
  <2> DEFINE left == Closed(Closed(new.table, rtp[p]), NullSocket)
  <2>1. /\ left \in Tables
        /\ \A k \in Fd : left[k] = IF k \in {rtp[p], NullSocket} THEN Free ELSE new.table[k]
    <3>1. /\ Closed(new.table, rtp[p]) \in Tables
          /\ \A k \in Fd :
                Closed(new.table, rtp[p])[k] = IF k = rtp[p] THEN Free ELSE new.table[k]
      BY <1>2, ClosedFacts
    <3>2. /\ left \in Tables
          /\ \A k \in Fd :
                left[k] = IF k = NullSocket THEN Free ELSE Closed(new.table, rtp[p])[k]
      BY <3>1, ClosedFacts
    <3>. QED
      BY <3>1, <3>2
  <2>2. fds' = [fds EXCEPT ![p] = left]
    BY <1>4, <1>9
  <2> HIDE DEF left
  <2>3. /\ fds'[p] = left /\ half'[p] = TRUE /\ port' = port
        /\ \A r \in Process \ {p} : fds'[r] = fds[r] /\ half'[r] = half[r]
    BY <1>4, <1>9, <2>2, TypeFacts
  <2>4. /\ pc'[p] \in {"rtp", "serve"} /\ refs'[p] \in {0, 1}
        /\ pc'[p] = "rtp" => base'[p] \in Port /\ base'[p] % 2 = 0 /\ refs'[p] = 0
        /\ \A r \in Process \ {p} :
              pc'[r] = pc[r] /\ base'[r] = base[r] /\ refs'[r] = refs[r]
        /\ pc' \in [Process -> {"none", "accept", "serve", "rtp", "rtcp", "dead"}]
        /\ base' \in [Process -> Port \cup {0}] /\ refs' \in [Process -> 0 .. MaxSetups]
    BY <1>1, <1>4, <1>9, NextBaseFacts
  <2>5. Reads(p)'
    <3>1. SUFFICES ASSUME conn[p] # NoClient
                   PROVE  sock[p] \in Fd /\ (left[sock[p]] = conn[p] \/ sock[p] = NullSocket)
      BY <1>1, <2>3, <2>4 DEF Reads, Serving
    <3>2. /\ sock[p] \in Fd /\ conn[p] \notin Port
          /\ fds[p][sock[p]] = conn[p] \/ sock[p] = NullSocket
      BY <1>1, <3>1, SearchFacts
    <3>3. CASE sock[p] # NullSocket
      <4>1. fds[p][rtp[p]] \in Port
        BY <1>1, <1>5, SearchFacts
      <4>2. sock[p] # rtp[p] /\ new.table[sock[p]] = fds[p][sock[p]]
        BY <1>2, <1>9, <3>2, <3>3, <4>1 DEF NullSocket
      <4>. QED
        BY <2>1, <3>2, <3>3, <4>2
    <3>. QED
      BY <3>2, <3>3
  <2>6. Seeks(p)'
    BY <2>4 DEF Seeks, Serving
  <2>7. Announces(p)'
    BY <1>1, <2>3, SearchFacts DEF Announces
  <2>8. Releases(p)'
    <3>1. ASSUME ~twice[p], NEW k \in Fd \ {0}
          PROVE  left[k] \notin Port
      <4>1. CASE k = rtp[p]
        BY <2>1, <4>1, Constants
      <4>2. CASE k # rtp[p]
        <5>1. fds[p][k] \notin Port
          BY <1>1, <3>1, <4>2, SearchFacts
        <5>2. left[k] = fds[p][k]
          BY <1>2, <1>9, <2>1, <4>2 DEF NullSocket
        <5>. QED
          BY <5>1, <5>2
      <4>. QED
        BY <4>1, <4>2
    <3>2. refs'[p] <= 1
      BY <2>4
    <3>. QED
      BY <1>1, <2>3, <3>1, <3>2 DEF Releases
  <2>9. Own(p)'
    BY <2>5, <2>6, <2>7, <2>8 DEF Own
  <2>10. ASSUME NEW r \in Process \ {p}
         PROVE  Own(r)'
    BY <1>1, <1>6, <2>3, <2>4, Untouched
  <2>11. TypeOK'
    <3>1. fds' \in [Process -> Tables] /\ half' \in [Process -> BOOLEAN]
      BY <1>4, <1>9, <2>1, <2>2, TypeFacts
    <3>. QED
      BY <1>1, <1>6, <2>3, <2>4, <3>1, TypeFacts, TypeAgain
  <2>. QED
    BY <1>1, <1>7, <2>9, <2>10, <2>11 DEF SInv
<1>. QED
  BY <1>8, <1>9

-----------------------------------------------------------------------------
(* Clients *)

LEMMA KilledStep ==
    ASSUME SInv, NEW p \in Process, Killed(p)
    PROVE  SInv'
<1> DEFINE left == [n \in Fd |-> Free]
<1>1. /\ conn[p] # NoClient /\ state' = [state EXCEPT ![conn[p]] = "gone"]
      /\ pc' = [pc EXCEPT ![p] = "dead"] /\ fds' = [fds EXCEPT ![p] = left]
      /\ Discard(p) /\ said' = said /\ unserved' = unserved /\ limit' = limit
  BY DEF Killed, system
<1>2. left \in Tables /\ \A k \in Fd : left[k] \notin Port
  BY Constants DEF Tables
<1>3. conn[p] \in Client /\ state[conn[p]] \in {"accepted", "gone"}
  BY <1>1, TypeFacts DEF SInv, Counted, Alive
<1>4. /\ SameClients
      /\ state' \in [Client -> {"away", "queued", "accepted", "gone"}]
      /\ said' \in [Client -> BOOLEAN]
  BY <1>1, <1>3, TypeFacts DEF SameClients
<1> HIDE DEF left
<1>. QED
  BY <1>1, <1>2, <1>4, DiscardStep

LEMMA ClientStep ==
    ASSUME SInv, NEW c \in Client, Connect(c) \/ Talk(c) \/ HangUp(c)
    PROVE  SInv'
<1>1. /\ UNCHANGED <<pc, fds, sock, conn, refs, rtp, rtcp>>
      /\ UNCHANGED <<port, base, image, half, twice>>
      /\ UNCHANGED <<unserved, ended, limit>>
  BY DEF Connect, Talk, HangUp, workers, system
<1>2. /\ SameClients
      /\ state' \in [Client -> {"away", "queued", "accepted", "gone"}]
      /\ said' \in [Client -> BOOLEAN]
  BY <1>1, TypeFacts DEF Connect, Talk, HangUp, SameClients
<1>3. \A r \in Process : Own(r)'
  BY <1>1, Untouched
<1>4. Counted'
  BY <1>1, <1>2, CountedStays
<1>5. TypeOK'
  BY <1>1, <1>2, TypeFacts, TypeAgain
<1>. QED
  BY <1>1, <1>3, <1>4, <1>5 DEF SInv

-----------------------------------------------------------------------------
(* The invariant *)

LEMMA InitSInv == Init => SInv
<1> SUFFICES ASSUME Init PROVE SInv
  OBVIOUS
<1>1. /\ \A r \in Process :
            /\ pc[r] \in {"none", "accept"} /\ conn[r] = NoClient /\ refs[r] = 0 /\ port[r] = 0
            /\ \A n \in Fd : fds[r][n] \in {Free, Std, Listen}
      /\ \A c \in Client : state[c] = "away"
      /\ limit \in FdLimits /\ unserved = {} /\ ended = {}
  BY DEF Init
<1>2. TypeOK
  <2>1. 0 \in Fd /\ 0 \in 0 .. MaxSetups
    BY Constants
  <2>2. /\ pc \in [Process -> {"none", "accept", "serve", "rtp", "rtcp", "dead"}]
        /\ fds \in [Process -> [Fd -> {Free, Std, Listen} \cup Client \cup Port]]
    BY DEF Init
  <2>3. /\ sock \in [Process -> Fd \cup {-1}] /\ conn \in [Process -> Client \cup {NoClient}]
        /\ refs \in [Process -> 0 .. MaxSetups]
        /\ {rtp, rtcp} \subseteq [Process -> Fd]
    BY <2>1 DEF Init, NullSocket
  <2>4. /\ {port, base} \subseteq [Process -> Port \cup {0}]
        /\ image \in [Process -> 0 .. 1]
        /\ {half, twice} \subseteq [Process -> BOOLEAN]
    BY DEF Init
  <2>5. /\ state \in [Client -> {"away", "queued", "accepted", "gone"}]
        /\ said \in [Client -> BOOLEAN] /\ unserved \cup ended \subseteq Client
    BY DEF Init
  <2>. QED
    BY <2>2, <2>3, <2>4, <2>5 DEF TypeOK
<1>3. ASSUME NEW r \in Process
      PROVE  Own(r)
  <2>1. Reads(r) /\ Seeks(r) /\ Announces(r)
    BY <1>1 DEF Reads, Seeks, Announces
  <2>2. Releases(r)
    <3>1. \A n \in Fd : fds[r][n] \notin Port
      BY <1>1, Constants
    <3>2. refs[r] <= 1
      BY <1>1
    <3>. QED
      BY <3>1, <3>2 DEF Releases
  <2>. QED
    BY <2>1, <2>2 DEF Own
<1>4. Counted
  <2>1. \A c \in Client : ~Alive(c) /\ \A r \in Process : conn[r] # c
    BY <1>1, Constants DEF Alive
  <2>. QED
    BY <1>1, <2>1 DEF Counted
<1>. QED
  BY <1>1, <1>2, <1>3, <1>4 DEF SInv

LEMMA NextSInv == SInv /\ [Next]_vars => SInv'
<1> SUFFICES ASSUME SInv, [Next]_vars PROVE SInv'
  OBVIOUS
<1>1. ASSUME NEW p \in Process, Step(p) \/ Killed(p)
      PROVE  SInv'
  BY <1>1, AcceptStep, ServeStep, SearchRtpStep, SearchRtcpStep, KilledStep DEF Step
<1>2. ASSUME UNCHANGED vars
      PROVE  SInv'
  <2>1. /\ UNCHANGED <<pc, fds, sock, conn, refs, rtp, rtcp>>
        /\ UNCHANGED <<port, base, image, half, twice>>
        /\ UNCHANGED <<state, said, unserved, ended, limit>>
    BY <1>2 DEF vars, workers, clients, system
  <2>2. \A r \in Process : Own(r)'
    BY <2>1, Untouched
  <2>3. Counted'
    BY <2>1, CountedStays DEF SameClients
  <2>4. TypeOK'
    BY <2>1, TypeFacts, TypeAgain
  <2>. QED
    BY <2>1, <2>2, <2>3, <2>4 DEF SInv
<1>. QED
  BY <1>1, <1>2, ClientStep DEF Next

LEMMA SInvHolds == Spec => []SInv
  BY InitSInv, NextSInv, PTL DEF Spec

-----------------------------------------------------------------------------
(* Theorems *)

\* The variables keep their types; every number of a socket is one that a
\* process may have, and every port searched for is in the range.
THEOREM TypeCorrect == Spec => []TypeOK
<1>1. SInv => TypeOK
  BY DEF SInv
<1>. QED
  BY <1>1, SInvHolds, PTL

\* main and fork give every accepted client to one process alone, as long as
\* its session lasts.
THEOREM OneProcessPerClient == Spec => []ServedByOne
<1>1. SInv => ServedByOne
  <2> SUFFICES ASSUME SInv, NEW c \in Client
               PROVE  Cardinality({p \in Process : Serving(p) /\ conn[p] = c}) =
                        IF Alive(c) THEN 1 ELSE 0
    BY DEF ServedByOne, Alive
  <2> DEFINE servers == {p \in Process : Serving(p) /\ conn[p] = c}
  <2>1. servers = {p \in Process : conn[p] = c}
    BY Constants DEF SInv, Own, Reads
  <2>2. /\ Alive(c) <=> \E r \in Process : conn[r] = c
        /\ \A r, q \in Process : conn[r] = c /\ conn[q] = c => r = q
    BY Constants DEF SInv, Counted
  <2>3. CASE Alive(c)
    <3>1. PICK r \in Process : conn[r] = c
      BY <2>2, <2>3
    <3>2. servers = {r}
      BY <2>1, <2>2, <3>1
    <3>. QED
      BY <2>3, <3>2, FS_Singleton
  <2>4. CASE ~Alive(c)
    <3>1. servers = {}
      BY <2>1, <2>2, <2>4
    <3>. QED
      BY <2>4, <3>1, FS_EmptySet
  <2>. QED
    BY <2>3, <2>4
<1>. QED
  BY <1>1, SInvHolds, PTL

\* What workerThread, the session and the search for ports open and close never
\* costs a process its connection, but for number 0 after half a pair.
THEOREM ConnectionsAreKept == Spec => []KeepsConnection
<1>1. SInv => KeepsConnection
  BY DEF SInv, Own, Reads, KeepsConnection
<1>. QED
  BY <1>1, SInvHolds, PTL

\* The ports that InitUdpTransport announces are bound to the sockets that the
\* process sends from, whatever other processes search for.
THEOREM AnnouncedPortsAreBound == Spec => []AnnouncedIsBound
<1>1. SInv => AnnouncedIsBound
  BY DEF SInv, Own, Announces, AnnouncedIsBound
<1>. QED
  BY <1>1, SInvHolds, PTL

\* The end of a session closes every port that InitUdpTransport has bound, but
\* number 0 and after two SETUPs.
THEOREM SessionsLeaveNoPort == Spec => []NoPortLeft
<1>1. SInv => NoPortLeft
  BY DEF SInv, Own, Releases, NoPortLeft
<1>. QED
  BY <1>1, SInvHolds, PTL
=============================================================================
