-------------------------- MODULE ClientListProofs --------------------------
(***************************************************************************)
(* The ring of clients is intact and its loops visit everyone once, for    *)
(* every set of sessions.                                                  *)
(*                                                                         *)
(* Neither RingIntact nor EachVisitedOnce is inductive by itself.  The     *)
(* invariant IInv orders the ring by the ranks the sessions got when they  *)
(* were created: the successor of a node is the next younger session, so   *)
(* the sessions a loop still owes a visit are those not older than the     *)
(* element it has reached.                                                 *)
(*                                                                         *)
(* For the refinement of ClientRegistry, WInv adds that some sequence of   *)
(* sessions lists the ring: m_Next leads through it from the sentinel back *)
(* to the sentinel.  A running loop has before it what is left of that     *)
(* sequence from the element it has reached (LoopStandsAt).                *)
(***************************************************************************)
EXTENDS ClientList, FiniteSetTheorems, SequenceTheorems, WellFoundedInduction, TLAPS

\* Ranks identify the sessions and grow with their creation.
Ranked ==
    /\ rank[Sentinel] = 0
    /\ \A s \in live : 0 < rank[s] /\ rank[s] <= created
    /\ \A s, t \in live : rank[s] = rank[t] => s = t

\* What a running loop still has to visit, from the element it has reached.
DueExact ==
    loop \in Running =>
        /\ element \in Ring
        /\ due = {s \in live : element # Sentinel /\ rank[element] <= rank[s]}

IInv ==
    /\ TypeOK
    /\ RingIntact
    /\ CreationOrder
    /\ Ranked
    /\ DueExact

-----------------------------------------------------------------------------

LEMMA InitIInv == Init => IInv
BY NodeAssumption
   DEF Init, IInv, TypeOK, RingIntact, CreationOrder, Ranked, DueExact, Node, Ring, Running

\* The parts of IInv that speak of the ring alone survive a step that leaves
\* the ring alone.
LEMMA HeapUnchanged ==
    IInv /\ UNCHANGED heap => RingIntact' /\ CreationOrder' /\ Ranked'
BY DEF IInv, heap, RingIntact, CreationOrder, Ranked, Ring

\* Appending the youngest session.
LEMMA LinkKeepsRing ==
    ASSUME IInv, NEW s \in Session, AddSession(s)
    PROVE  /\ next' \in [Node -> Node \cup {Freed}]
           /\ prev' \in [Node -> Node \cup {Freed}]
           /\ RingIntact'
           /\ CreationOrder'
           /\ Ranked'
<1> DEFINE last == prev[Sentinel]
<1>1. /\ last \in Ring
      /\ next[last] = Sentinel
      /\ s \notin Ring
      /\ s \in Node
      /\ Sentinel \in Ring
      /\ Ring' = Ring \cup {s}
      /\ Ring \subseteq Node
  BY NodeAssumption DEF IInv, TypeOK, RingIntact, AddSession, Ring, Node
<1>2. /\ next' = [next EXCEPT ![last] = s, ![s] = Sentinel]
      /\ prev' = [prev EXCEPT ![s] = last, ![Sentinel] = s]
      /\ live' = live \cup {s}
      /\ rank' = [rank EXCEPT ![s] = created + 1]
      /\ created' = created + 1
  BY DEF AddSession, LinkLast
<1>3. /\ next \in [Node -> Node \cup {Freed}]
      /\ prev \in [Node -> Node \cup {Freed}]
      /\ rank \in [Node -> Nat]
      /\ created \in Nat
      /\ live \subseteq Session
  BY DEF IInv, TypeOK
<1>4. /\ next' \in [Node -> Node \cup {Freed}]
      /\ prev' \in [Node -> Node \cup {Freed}]
  BY <1>1, <1>2, <1>3 DEF Node
<1>5. /\ next'[s] = Sentinel
      /\ next'[last] = s
      /\ \A n \in Ring : n # last => next'[n] = next[n]
      /\ prev'[s] = last
      /\ prev'[Sentinel] = s
      /\ \A n \in Ring : n # Sentinel => prev'[n] = prev[n]
  BY <1>1, <1>2, <1>3 DEF Node
<1>6. RingIntact'
  BY <1>1, <1>5 DEF IInv, RingIntact
<1>7. /\ rank'[s] = created + 1
      /\ \A n \in Ring : rank'[n] = rank[n] /\ rank[n] <= created /\ rank[n] \in Nat
  BY <1>1, <1>2, <1>3 DEF IInv, Ranked, Ring
<1>8. Ranked'
  BY <1>1, <1>2, <1>3, <1>7 DEF IInv, Ranked, Ring
<1>9. CreationOrder'
  <2> SUFFICES ASSUME NEW n \in Ring \cup {s}
               PROVE  LET younger == {t \in live' : rank'[t] > rank'[n]}
                      IN  \/ next'[n] = Sentinel /\ younger = {}
                          \/ /\ next'[n] \in younger
                             /\ \A t \in younger : rank'[next'[n]] <= rank'[t]
    BY <1>1 DEF CreationOrder
  <2>1. CASE n = s
    BY <2>1, <1>2, <1>3, <1>5, <1>7, SMTT(20) DEF Ring
  <2>2. CASE n = last
    <3>1. {t \in live : rank[t] > rank[last]} = {}
      BY <1>1, NodeAssumption DEF IInv, CreationOrder, TypeOK
    <3>2. \A t \in live' : rank'[t] > rank'[n] <=> t = s
      BY <2>2, <3>1, <1>1, <1>2, <1>3, <1>7, SMTT(20) DEF Ring
    <3>. QED
      BY <2>2, <3>2, <1>1, <1>2, <1>3, <1>5, <1>7, SMTT(20) DEF Ring
  <2>3. CASE n \in Ring /\ n # last
    <3>1. next[n] # Sentinel
      BY <2>3, <1>1 DEF IInv, RingIntact
    <3>2. /\ next[n] \in live
          /\ rank[next[n]] > rank[n]
          /\ \A t \in live : rank[t] > rank[n] => rank[next[n]] <= rank[t]
      BY <2>3, <3>1 DEF IInv, CreationOrder
    <3>. QED
      BY <2>3, <3>2, <1>1, <1>2, <1>3, <1>5, <1>7, SMTT(20) DEF Ring
  <2>. QED
    BY <2>1, <2>2, <2>3
<1>. QED
  BY <1>4, <1>6, <1>8, <1>9

\* Deleting any session of the ring.
LEMMA UnlinkKeepsRing ==
    ASSUME IInv, NEW s \in live, Unlink(s), UNCHANGED <<rank, created>>
    PROVE  /\ next' \in [Node -> Node \cup {Freed}]
           /\ prev' \in [Node -> Node \cup {Freed}]
           /\ live' \subseteq Session
           /\ RingIntact'
           /\ CreationOrder'
           /\ Ranked'
<1> DEFINE p == prev[s]
           q == next[s]
<1>1. /\ s \in Ring /\ s # Sentinel /\ s \in Node
      /\ p \in Ring /\ q \in Ring
      /\ next[p] = s /\ prev[q] = s
      /\ Ring' = Ring \ {s}
      /\ Ring \subseteq Node
  BY NodeAssumption DEF IInv, TypeOK, RingIntact, Unlink, Ring, Node
<1>2. /\ next \in [Node -> Node \cup {Freed}]
      /\ prev \in [Node -> Node \cup {Freed}]
      /\ rank \in [Node -> Nat]
      /\ live \subseteq Session
  BY DEF IInv, TypeOK
<1>3. q # s /\ p # s
  <2>1. rank[s] \in Nat /\ (q = Sentinel \/ rank[q] > rank[s])
    BY <1>1, <1>2 DEF IInv, CreationOrder
  <2>2. q # s
    BY <2>1, <1>1
  <2>. QED
    BY <2>2, <1>1
<1>4. /\ next' \in [Node -> Node \cup {Freed}]
      /\ prev' \in [Node -> Node \cup {Freed}]
      /\ live' \subseteq Session
  BY <1>1, <1>2 DEF Unlink, Node
<1>5. /\ next'[p] = q
      /\ \A n \in Ring' : n # p => next'[n] = next[n]
      /\ prev'[q] = p
      /\ \A n \in Ring' : n # q => prev'[n] = prev[n]
  BY <1>1, <1>2, <1>3 DEF Unlink
<1>6. RingIntact'
  BY <1>1, <1>3, <1>5 DEF IInv, RingIntact
<1>7. Ranked'
  BY DEF IInv, Ranked, Unlink
<1>8. CreationOrder'
  <2> SUFFICES ASSUME NEW n \in Ring'
               PROVE  LET younger == {t \in live' : rank[t] > rank[n]}
                      IN  \/ next'[n] = Sentinel /\ younger = {}
                          \/ /\ next'[n] \in younger
                             /\ \A t \in younger : rank[next'[n]] <= rank[t]
    BY DEF CreationOrder
  <2>0. /\ n \in Ring /\ n # s /\ n \in Node
        /\ live' = live \ {s}
        /\ \A t \in Node : rank[t] \in Nat
    BY <1>1, <1>2 DEF Unlink
  <2>1. CASE n = p
    <3>1. /\ rank[s] > rank[p]
          /\ \A t \in live : rank[t] > rank[p] => rank[s] <= rank[t]
      BY <1>1 DEF IInv, CreationOrder
    <3>2. \A t \in live' : rank[t] > rank[p] <=> rank[t] > rank[s]
      <4> SUFFICES ASSUME NEW t \in live'
                   PROVE  rank[t] > rank[p] <=> rank[t] > rank[s]
        OBVIOUS
      <4>1. t \in live /\ t # s /\ rank[t] # rank[s] /\ rank[t] \in Nat
        BY <2>0, <1>1 DEF IInv, Ranked, Ring
      <4>. QED
        BY <4>1, <3>1, <2>0, <1>1
    <3>3. \/ q = Sentinel /\ \A t \in live : ~(rank[t] > rank[s])
          \/ /\ q \in live /\ rank[q] > rank[s]
             /\ \A t \in live : rank[t] > rank[s] => rank[q] <= rank[t]
      BY <1>1 DEF IInv, CreationOrder
    <3>. QED
      BY <2>1, <3>2, <3>3, <2>0, <1>3, <1>5
  <2>2. CASE n # p
    <3>1. next'[n] = next[n] /\ next[n] # s
      BY <2>0, <2>2, <1>1, <1>5 DEF IInv, RingIntact
    <3>2. \/ next[n] = Sentinel /\ \A t \in live : ~(rank[t] > rank[n])
          \/ /\ next[n] \in live /\ rank[next[n]] > rank[n]
             /\ \A t \in live : rank[t] > rank[n] => rank[next[n]] <= rank[t]
      BY <2>0 DEF IInv, CreationOrder
    <3>. QED
      BY <3>1, <3>2, <2>0
  <2>. QED
    BY <2>1, <2>2
<1>. QED
  BY <1>4, <1>6, <1>7, <1>8

-----------------------------------------------------------------------------

\* What an iteration that keeps or deletes the session reached has to restore
\* about the loop: everybody younger than that session is still due.
LEMMA VisitKeepsDue ==
    ASSUME IInv, loop \in Running, element # Sentinel,
           element' = next[element], due' = due \ {element},
           rank' = rank,
           live' = live \/ live' = live \ {element}
    PROVE  /\ element' \in Ring'
           /\ due' = {s \in live' : element' # Sentinel /\ rank'[element'] <= rank'[s]}
           /\ element' \in Node
           /\ due' \in SUBSET Session
<1>1. /\ element \in live
      /\ due = {s \in live : rank[element] <= rank[s]}
      /\ \A t \in Node : rank[t] \in Nat
      /\ live \subseteq Session
      /\ Ring \subseteq Node
  BY DEF IInv, DueExact, TypeOK, Ring, Node
<1>2. due' = {s \in live : rank[element] < rank[s]}
  <2>1. \A s \in live : s # element /\ rank[element] <= rank[s] <=> rank[element] < rank[s]
    BY <1>1 DEF IInv, Ranked, Node
  <2>. QED
    BY <1>1, <2>1
<1>3. \/ next[element] = Sentinel /\ \A t \in live : ~(rank[t] > rank[element])
      \/ /\ next[element] \in live /\ rank[next[element]] > rank[element]
         /\ \A t \in live : rank[t] > rank[element] => rank[next[element]] <= rank[t]
  BY <1>1 DEF IInv, CreationOrder, Ring
<1>4. element' \in Ring' /\ element' \in Node
  BY <1>1, <1>3 DEF Ring, Node
<1>5. \A s \in live : s \in live' \/ s = element
  OBVIOUS
<1>6. CASE next[element] = Sentinel
  BY <1>1, <1>2, <1>3, <1>4, <1>6, NodeAssumption DEF Node
<1>7. CASE next[element] # Sentinel
  <2>1. \A s \in live' : rank[element] < rank[s] <=> rank[next[element]] <= rank[s]
    BY <1>1, <1>3, <1>7 DEF Node
  <2>2. due' = {s \in live' : rank[element] < rank[s]}
    BY <1>1, <1>2, <1>5
  <2>. QED
    BY <1>1, <1>4, <1>7, <2>1, <2>2
<1>. QED
  BY <1>6, <1>7

LEMMA NextIInv == IInv /\ [Next]_vars => IInv'
<1> SUFFICES ASSUME IInv, [Next]_vars
             PROVE  IInv'
  OBVIOUS
<1> USE DEF IInv
<1>1. ASSUME NEW s \in Session, AddSession(s)
      PROVE  IInv'
  <2>1. TypeOK'
    <3>1. created' \in Nat /\ rank' \in [Node -> Nat] /\ live' \in SUBSET Session
      <4>1. created \in Nat /\ rank \in [Node -> Nat] /\ live \in SUBSET Session
        BY DEF TypeOK
      <4>2. /\ created' = created + 1
            /\ rank' = [rank EXCEPT ![s] = created + 1]
            /\ live' = live \cup {s}
        BY <1>1 DEF AddSession
      <4>3. created + 1 \in Nat
        BY <4>1
      <4>. QED
        BY <4>1, <4>2, <4>3
    <3>2. next' \in [Node -> Node \cup {Freed}] /\ prev' \in [Node -> Node \cup {Freed}]
      BY <1>1, LinkKeepsRing
    <3>3. UNCHANGED <<loop, element, due>>
      BY <1>1 DEF AddSession
    <3>. QED
      BY <3>1, <3>2, <3>3 DEF TypeOK, Node
  <2>2. DueExact'
    BY <1>1 DEF AddSession, DueExact, Running
  <2>. QED
    BY <1>1, <2>1, <2>2, LinkKeepsRing
<1>2. ASSUME NEW kind \in Running, BeginLoop(kind)
      PROVE  IInv'
  <2>1. TypeOK'
    BY <1>2 DEF TypeOK, BeginLoop, heap, RingIntact, Ring, Node
  <2>2. DueExact'
    <3>1. /\ element' \in Ring /\ due' = live /\ live' = live /\ rank' = rank
          /\ element' = next[Sentinel]
          /\ Sentinel \in Ring
      BY <1>2 DEF BeginLoop, heap, RingIntact, Ring
    <3>2. \A s \in live : element' # Sentinel /\ rank[element'] <= rank[s]
      BY <3>1 DEF CreationOrder, Ranked
    <3>. QED
      BY <3>1, <3>2 DEF DueExact, Ring
  <2>. QED
    BY <1>2, <2>1, <2>2, HeapUnchanged DEF BeginLoop
<1>3. ASSUME NEW stopped \in BOOLEAN, ServeOne(stopped)
      PROVE  IInv'
  <2>1. CASE stopped
    <3>1. element \in live /\ loop' = loop /\ loop \in Running
      BY <1>3, <2>1 DEF ServeOne, DueExact, Ring, Running
    <3>2. /\ element' \in Ring'
          /\ due' = {s \in live' : element' # Sentinel /\ rank'[element'] <= rank'[s]}
          /\ element' \in Node /\ due' \in SUBSET Session
      BY <1>3, <2>1, <3>1, VisitKeepsDue DEF ServeOne, Unlink
    <3>3. /\ next' \in [Node -> Node \cup {Freed}]
          /\ prev' \in [Node -> Node \cup {Freed}]
          /\ live' \subseteq Session
          /\ RingIntact' /\ CreationOrder' /\ Ranked'
      BY <1>3, <2>1, <3>1, UnlinkKeepsRing DEF ServeOne
    <3>. QED
      BY <1>3, <2>1, <3>1, <3>2, <3>3 DEF ServeOne, TypeOK, DueExact
  <2>2. CASE ~stopped
    <3>1. loop' = loop /\ loop \in Running /\ UNCHANGED heap
      BY <1>3, <2>2 DEF ServeOne, Running
    <3>2. /\ element' \in Ring'
          /\ due' = {s \in live' : element' # Sentinel /\ rank'[element'] <= rank'[s]}
          /\ element' \in Node /\ due' \in SUBSET Session
      BY <1>3, <3>1, VisitKeepsDue DEF ServeOne, heap
    <3>. QED
      BY <3>1, <3>2, HeapUnchanged DEF TypeOK, DueExact, heap
  <2>. QED
    BY <2>1, <2>2
<1>4. ASSUME SendOne
      PROVE  IInv'
  <2>1. loop' = loop /\ loop \in Running /\ UNCHANGED heap
    BY <1>4 DEF SendOne, Running
  <2>2. /\ element' \in Ring'
        /\ due' = {s \in live' : element' # Sentinel /\ rank'[element'] <= rank'[s]}
        /\ element' \in Node /\ due' \in SUBSET Session
    BY <1>4, <2>1, VisitKeepsDue DEF SendOne, heap
  <2>. QED
    BY <2>1, <2>2, HeapUnchanged DEF TypeOK, DueExact, heap
<1>5. ASSUME DestroyOne
      PROVE  IInv'
  <2>1. element \in live /\ loop' = loop /\ loop \in Running
    BY <1>5 DEF DestroyOne, DueExact, Ring, Running
  <2>2. /\ element' \in Ring'
        /\ due' = {s \in live' : element' # Sentinel /\ rank'[element'] <= rank'[s]}
        /\ element' \in Node /\ due' \in SUBSET Session
    BY <1>5, <2>1, VisitKeepsDue DEF DestroyOne, Unlink
  <2>3. /\ next' \in [Node -> Node \cup {Freed}]
        /\ prev' \in [Node -> Node \cup {Freed}]
        /\ live' \subseteq Session
        /\ RingIntact' /\ CreationOrder' /\ Ranked'
    BY <1>5, <2>1, UnlinkKeepsRing DEF DestroyOne
  <2>. QED
    BY <1>5, <2>1, <2>2, <2>3 DEF DestroyOne, TypeOK, DueExact
<1>6. ASSUME EndLoop
      PROVE  IInv'
  <2>1. UNCHANGED heap /\ loop' \in {"none", "gone"} /\ UNCHANGED <<element, due>>
    BY <1>6 DEF EndLoop
  <2>. QED
    BY <2>1, HeapUnchanged DEF TypeOK, DueExact, Running, heap
<1>7. CASE UNCHANGED vars
  BY <1>7, HeapUnchanged DEF vars, heap, TypeOK, DueExact, Ring
<1>. QED
  BY <1>1, <1>2, <1>3, <1>4, <1>5, <1>6, <1>7
     DEF Next, Step, BeginServe, BeginSend, BeginDestroy, Running

\* IInv holds throughout.
THEOREM Invariance == Spec => []IInv
BY InitIInv, NextIInv, PTL DEF Spec

\* The variables keep their types.
THEOREM TypeCorrect == Spec => []TypeOK
<1>1. IInv => TypeOK
  BY DEF IInv
<1>. QED
  BY <1>1, Invariance, PTL

\* The pointers of the ring stay inverse of each other.
THEOREM RingStaysIntact == Spec => []RingIntact
<1>1. IInv => RingIntact
  BY DEF IInv
<1>. QED
  BY <1>1, Invariance, PTL

\* The ring lists the sessions in the order of their creation.
THEOREM RingInCreationOrder == Spec => []CreationOrder
<1>1. IInv => CreationOrder
  BY DEF IInv
<1>. QED
  BY <1>1, Invariance, PTL

\* anySessions() is exact.
THEOREM AnySessionsIsExact == Spec => []AnySessionsExact
<1>1. IInv => AnySessionsExact
  BY NodeAssumption
     DEF IInv, TypeOK, CreationOrder, Ranked, AnySessionsExact, NotEmpty, Ring
<1>. QED
  BY <1>1, Invariance, PTL

\* No loop stands on a deleted session, and each loop visits everyone once.
THEOREM LoopsVisitOnce == Spec => [](IteratorAllocated /\ EachVisitedOnce)
<1>1. IInv => IteratorAllocated /\ EachVisitedOnce
  BY DEF IInv, TypeOK, DueExact, IteratorAllocated, EachVisitedOnce, Ring, Node
<1>. QED
  BY <1>1, Invariance, PTL

-----------------------------------------------------------------------------
(* The ring as a sequence *)

NodeAt(q, i) == IF i <= Len(q) THEN q[i] ELSE Sentinel

\* The pointers in links lead from node n through q to the sentinel.
Linked(links, q, n) ==
    /\ n = NodeAt(q, 1)
    /\ \A i \in 1 .. Len(q) : links[q[i]] = NodeAt(q, i + 1)
    /\ \A i, j \in 1 .. Len(q) : q[i] = q[j] => i = j

\* The sessions of the ring in the order of its pointers.
Listing(q) ==
    /\ q \in Seq(Session)
    /\ Linked(next, q, next[Sentinel])
    /\ \A s \in Session : s \in live <=> \E i \in 1 .. Len(q) : q[i] = s

\* The ring ends: following m_Next from the sentinel comes back to it.
WInv ==
    /\ IInv
    /\ \E q \in Seq(Session) : Listing(q)

Rest(q, k) == SubSeq(q, k, Len(q))

Without(q, k) == SubSeq(q, 1, k - 1) \o SubSeq(q, k + 1, Len(q))

LEMMA SmallestNumber ==
    ASSUME NEW S, S \subseteq Nat, S # {}
    PROVE  \E m \in S : \A k \in S : m <= k
<1>1. PICK m \in S : \A k \in S : ~(<<k, m>> \in OpToRel(<, Nat))
  <2>1. IsWellFoundedOn(OpToRel(<, Nat), Nat)
    BY NatLessThanWellFounded
  <2>. QED
    BY <2>1, WFMin
<1>2. ASSUME NEW k \in S PROVE m <= k
  <2>1. ~(<<k, m>> \in OpToRel(<, Nat))
    BY <1>1
  <2>2. k < m => <<k, m>> \in OpToRel(<, Nat)
    BY DEF OpToRel
  <2>3. ~(k < m)
    BY <2>1, <2>2
  <2>4. k \in Nat /\ m \in Nat
    OBVIOUS
  <2>. QED
    BY <2>3, <2>4
<1>. QED
  BY <1>2

\* Walk is the sequence that the pointers lead through.
LEMMA WalkIs ==
    ASSUME NEW links, NEW n, NEW q \in Seq(Session), Linked(links, q, n)
    PROVE  Walk(links, n) = q
<1> DEFINE N == Cardinality(Session)
           node[k \in 0 .. N] ==
               IF k = 0 THEN n
               ELSE IF node[k - 1] \in Session THEN links[node[k - 1]] ELSE Sentinel
           g == [k \in 0 .. N |-> NodeAt(q, k + 1)]
           met == {k \in 0 .. N : \A j \in 0 .. k : node[j] \in Session}
<1>1. N \in Nat /\ Len(q) \in Nat /\ q \in [1 .. Len(q) -> Session] /\ Sentinel \notin Session
  BY FS_CardinalityType, LenProperties, NodeAssumption
<1>2. Len(q) <= N
  <2>1. q \in Injection(1 .. Len(q), Session)
    <3>1. \A i, j \in 1 .. Len(q) : q[i] = q[j] => i = j
      BY DEF Linked
    <3>2. q \in [1 .. Len(q) -> Session] /\ DOMAIN q = 1 .. Len(q)
      BY <1>1
    <3>. QED
      BY <3>1, <3>2, Zenon DEF Injection, IsInjective
  <2>2. Cardinality(1 .. Len(q)) <= N
    BY <2>1, FS_Injection, NodeAssumption
  <2>3. Cardinality(1 .. Len(q)) = Len(q)
    <3>1. 1 \in Int /\ Len(q) \in Int
      BY <1>1
    <3>2. Cardinality(1 .. Len(q)) = IF 1 > Len(q) THEN 0 ELSE Len(q) - 1 + 1
      BY <3>1, FS_Interval
    <3>. QED
      BY <1>1, <3>2
  <2>. QED
    BY <2>2, <2>3
<1>3. \A k \in 0 .. N : g[k] \in Session <=> k < Len(q)
  BY <1>1 DEF NodeAt
<1>4. g = [k \in 0 .. N |->
             IF k = 0 THEN n
             ELSE IF g[k - 1] \in Session THEN links[g[k - 1]] ELSE Sentinel]
  <2>1. ASSUME NEW k \in 0 .. N, k # 0
        PROVE  g[k] = IF g[k - 1] \in Session THEN links[g[k - 1]] ELSE Sentinel
    <3>1. k - 1 \in 0 .. N /\ (k - 1) + 1 = k
      BY <1>1, <2>1
    <3>2. CASE k - 1 < Len(q)
      <4>1. g[k - 1] = q[k] /\ k \in 1 .. Len(q)
        BY <1>1, <2>1, <3>1, <3>2 DEF NodeAt
      <4>2. links[q[k]] = NodeAt(q, k + 1)
        BY <4>1 DEF Linked
      <4>. QED
        BY <1>3, <3>1, <3>2, <4>1, <4>2
    <3>3. CASE ~(k - 1 < Len(q))
      <4>1. g[k] = Sentinel
        BY <1>1, <3>3 DEF NodeAt
      <4>. QED
        BY <1>3, <3>1, <3>3, <4>1
    <3>. QED
      BY <3>2, <3>3
  <2>2. 0 \in 0 .. N /\ g[0] = n
    BY <1>1 DEF Linked
  <2>. QED
    BY <2>1, <2>2
<1>5. node = [k \in 0 .. N |->
                IF k = 0 THEN n
                ELSE IF node[k - 1] \in Session THEN links[node[k - 1]] ELSE Sentinel]
  BY <1>4
<1> HIDE DEF node, g
<1>6. g = [k \in 0 .. N |-> NodeAt(q, k + 1)]
  BY DEF g
<1>7. \A k \in 0 .. N : node[k] = g[k]
  <2> DEFINE S == {k \in 0 .. N : node[k] # g[k]}
  <2>1. SUFFICES ASSUME S # {} PROVE FALSE
    OBVIOUS
  <2>2. S \subseteq Nat
    BY <1>1
  <2>3. PICK m \in S : \A k \in S : m <= k
    BY <2>1, <2>2, SmallestNumber
  <2>4. /\ node[m] = IF m = 0 THEN n
                     ELSE IF node[m - 1] \in Session THEN links[node[m - 1]] ELSE Sentinel
        /\ g[m] = IF m = 0 THEN n
                  ELSE IF g[m - 1] \in Session THEN links[g[m - 1]] ELSE Sentinel
    BY <1>4, <1>5
  <2>5. m # 0
    BY <2>4
  <2>6. m - 1 \in 0 .. N /\ m - 1 < m
    BY <1>1, <2>5
  <2>7. m - 1 \notin S
    BY <1>1, <2>3, <2>6
  <2>8. node[m - 1] = g[m - 1]
    BY <2>6, <2>7
  <2>. QED
    BY <2>4, <2>8
<1>8. met = 0 .. Len(q) - 1
  <2>1. \A k \in 0 .. N : node[k] \in Session <=> k < Len(q)
    BY <1>3, <1>7
  <2>2. ASSUME NEW k \in 0 .. N
        PROVE  (\A j \in 0 .. k : node[j] \in Session) <=> k < Len(q)
    <3>1. k \in 0 .. k /\ \A j \in 0 .. k : j \in 0 .. N /\ j <= k
      BY <1>1
    <3>. QED
      BY <1>1, <2>1, <3>1
  <2>. QED
    BY <1>1, <1>2, <2>2
<1>9. Cardinality(met) = Len(q)
  <2>1. 0 \in Int /\ Len(q) - 1 \in Int
    BY <1>1
  <2>2. Cardinality(0 .. Len(q) - 1) = IF 0 > Len(q) - 1 THEN 0 ELSE Len(q) - 1 - 0 + 1
    BY <2>1, FS_Interval
  <2>3. Cardinality(0 .. Len(q) - 1) = Len(q)
    BY <1>1, <2>2
  <2>. QED
    BY <1>8, <2>3
<1>10. Walk(links, n) = [i \in 1 .. Cardinality(met) |-> node[i - 1]]
  BY DEF Walk, node
<1> HIDE DEF met
<1>11. Walk(links, n) = [i \in 1 .. Len(q) |-> node[i - 1]]
  BY <1>9, <1>10
<1>12. ASSUME NEW i \in 1 .. Len(q)
       PROVE  node[i - 1] = q[i]
  <2>1. i - 1 \in 0 .. N /\ (i - 1) + 1 = i
    BY <1>1, <1>2
  <2>2. g[i - 1] = q[i]
    BY <1>1, <1>6, <2>1 DEF NodeAt
  <2>. QED
    BY <1>7, <2>1, <2>2
<1>. QED
  BY <1>1, <1>11, <1>12

LEMMA RestFacts ==
    ASSUME NEW q \in Seq(Session), NEW k \in 1 .. Len(q) + 1
    PROVE  /\ Rest(q, k) \in Seq(Session)
           /\ Len(Rest(q, k)) = Len(q) - k + 1
           /\ \A i \in 1 .. Len(q) - k + 1 : Rest(q, k)[i] = q[k + i - 1]
           /\ k <= Len(q) =>
                 /\ Rest(q, k) # <<>> /\ Head(Rest(q, k)) = q[k]
                 /\ Tail(Rest(q, k)) = Rest(q, k + 1)
           /\ k = Len(q) + 1 => Rest(q, k) = <<>>
<1>1. Len(q) \in Nat /\ k \in Int /\ Len(q) \in Int /\ \A i \in k .. Len(q) : q[i] \in Session
  BY LenProperties
<1>2. /\ Rest(q, k) \in Seq(Session)
      /\ Len(Rest(q, k)) = IF k <= Len(q) THEN Len(q) - k + 1 ELSE 0
      /\ \A i \in 1 .. Len(q) - k + 1 : Rest(q, k)[i] = q[k + i - 1]
  BY <1>1, SubSeqProperties DEF Rest
<1>3. Len(Rest(q, k)) = Len(q) - k + 1
  BY <1>1, <1>2
<1>4. ASSUME k <= Len(q)
      PROVE  /\ Rest(q, k) # <<>> /\ Head(Rest(q, k)) = q[k]
             /\ Tail(Rest(q, k)) = Rest(q, k + 1)
  <2>1. k \in 1 .. Len(q) /\ Len(q) \in k .. Len(q)
    BY <1>1, <1>4
  <2>2. Head(Rest(q, k)) = q[k] /\ Tail(Rest(q, k)) = Rest(q, k + 1)
    BY <2>1, HeadTailOfSubSeq DEF Rest
  <2>3. Len(Rest(q, k)) # 0
    BY <1>1, <1>3, <1>4
  <2>. QED
    BY <2>2, <2>3
<1>5. ASSUME k = Len(q) + 1
      PROVE  Rest(q, k) = <<>>
  BY <1>1, <1>5, SubSeqEmpty DEF Rest
<1>. QED
  BY <1>2, <1>3, <1>4, <1>5

LEMMA WithoutFacts ==
    ASSUME NEW q \in Seq(Session), NEW k \in 1 .. Len(q)
    PROVE  /\ Without(q, k) \in Seq(Session)
           /\ Len(Without(q, k)) = Len(q) - 1
           /\ \A i \in 1 .. Len(q) - 1 :
                 Without(q, k)[i] = IF i < k THEN q[i] ELSE q[i + 1]
<1> DEFINE a == SubSeq(q, 1, k - 1)  b == SubSeq(q, k + 1, Len(q))
<1>1. Len(q) \in Nat /\ k \in Nat /\ \A i \in 1 .. Len(q) : q[i] \in Session
  BY LenProperties
<1>2. /\ a \in Seq(Session) /\ Len(a) = k - 1 /\ \A i \in 1 .. k - 1 : a[i] = q[i]
  <2>1. 1 \in Int /\ k - 1 \in Int /\ \A i \in 1 .. k - 1 : q[i] \in Session
    BY <1>1
  <2>2. /\ a \in Seq(Session) /\ Len(a) = IF 1 <= k - 1 THEN k - 1 - 1 + 1 ELSE 0
        /\ \A i \in 1 .. k - 1 - 1 + 1 : a[i] = q[1 + i - 1]
    BY <2>1, SubSeqProperties
  <2>3. Len(a) = k - 1
    BY <1>1, <2>2
  <2>. QED
    BY <1>1, <2>2, <2>3
<1>3. /\ b \in Seq(Session) /\ Len(b) = Len(q) - k
      /\ \A i \in 1 .. Len(q) - k : b[i] = q[k + i]
  <2>1. k + 1 \in Int /\ Len(q) \in Int /\ \A i \in k + 1 .. Len(q) : q[i] \in Session
    BY <1>1
  <2>2. /\ b \in Seq(Session) /\ Len(b) = IF k + 1 <= Len(q) THEN Len(q) - (k + 1) + 1 ELSE 0
        /\ \A i \in 1 .. Len(q) - (k + 1) + 1 : b[i] = q[k + 1 + i - 1]
    BY <2>1, SubSeqProperties
  <2>3. Len(b) = Len(q) - k
    BY <1>1, <2>2
  <2>. QED
    BY <1>1, <2>2, <2>3
<1> HIDE DEF a, b
<1>4. /\ a \o b \in Seq(Session) /\ Len(a \o b) = Len(a) + Len(b)
      /\ \A i \in 1 .. Len(a) + Len(b) :
            (a \o b)[i] = IF i <= Len(a) THEN a[i] ELSE b[i - Len(a)]
  BY <1>2, <1>3, ConcatProperties
<1>5. ASSUME NEW i \in 1 .. Len(q) - 1
      PROVE  (a \o b)[i] = IF i < k THEN q[i] ELSE q[i + 1]
  <2>1. (a \o b)[i] = IF i <= k - 1 THEN a[i] ELSE b[i - (k - 1)]
    BY <1>1, <1>2, <1>3, <1>4
  <2>2. CASE i < k
    BY <1>1, <1>2, <2>1, <2>2
  <2>3. CASE ~(i < k)
    <3>1. i - (k - 1) \in 1 .. Len(q) - k /\ k + (i - (k - 1)) = i + 1
      BY <1>1, <2>3
    <3>2. b[i - (k - 1)] = q[k + (i - (k - 1))]
      BY <1>3, <3>1
    <3>. QED
      BY <1>1, <2>1, <2>3, <3>1, <3>2
  <2>. QED
    BY <2>2, <2>3
<1>6. Without(q, k) = a \o b
  BY DEF Without, a, b
<1>7. Len(a) + Len(b) = Len(q) - 1
  BY <1>1, <1>2, <1>3
<1>. QED
  BY <1>4, <1>5, <1>6, <1>7

\* A loop that stands on the k-th session has the rest before it.
LEMMA RestLinked ==
    ASSUME NEW links, NEW n, NEW q \in Seq(Session), Linked(links, q, n),
           NEW k \in 1 .. Len(q) + 1
    PROVE  Linked(links, Rest(q, k), NodeAt(q, k))
<1> DEFINE r == Rest(q, k)
<1>1. Len(q) \in Nat /\ k \in Nat
  BY LenProperties
<1>2. /\ Len(r) = Len(q) - k + 1
      /\ \A i \in 1 .. Len(q) - k + 1 : r[i] = q[k + i - 1]
  BY RestFacts
<1> HIDE DEF r
<1>3. ASSUME NEW i \in 1 .. Len(q) - k + 2
      PROVE  NodeAt(r, i) = NodeAt(q, k + i - 1)
  BY <1>1, <1>2 DEF NodeAt
<1>4. NodeAt(q, k) = NodeAt(r, 1)
  <2>1. 1 \in 1 .. Len(q) - k + 2 /\ k + 1 - 1 = k
    BY <1>1
  <2>. QED
    BY <1>3, <2>1
<1>5. ASSUME NEW i \in 1 .. Len(r)
      PROVE  links[r[i]] = NodeAt(r, i + 1)
  <2>1. /\ k + i - 1 \in 1 .. Len(q) /\ i + 1 \in 1 .. Len(q) - k + 2
        /\ k + (i + 1) - 1 = (k + i - 1) + 1 /\ i \in 1 .. Len(q) - k + 1
    BY <1>1, <1>2
  <2>2. links[q[k + i - 1]] = NodeAt(q, (k + i - 1) + 1)
    BY <2>1 DEF Linked
  <2>. QED
    BY <1>2, <1>3, <2>1, <2>2
<1>6. ASSUME NEW i \in 1 .. Len(r), NEW j \in 1 .. Len(r), r[i] = r[j]
      PROVE  i = j
  <2>1. /\ k + i - 1 \in 1 .. Len(q) /\ k + j - 1 \in 1 .. Len(q)
        /\ i \in 1 .. Len(q) - k + 1 /\ j \in 1 .. Len(q) - k + 1
    BY <1>1, <1>2
  <2>2. q[k + i - 1] = q[k + j - 1]
    BY <1>2, <1>6, <2>1
  <2>3. k + i - 1 = k + j - 1
    BY <2>1, <2>2 DEF Linked
  <2>. QED
    BY <1>1, <1>2, <2>3
<1>. QED
  BY <1>4, <1>5, <1>6 DEF Linked, r

\* The node whose m_Next leads to the k-th session, or to the sentinel that
\* closes the ring.
Before(q, k) == IF k = 1 THEN Sentinel ELSE q[k - 1]

LEMMA Neighbours ==
    ASSUME IInv, NEW q \in Seq(Session), Listing(q), NEW k \in 1 .. Len(q) + 1
    PROVE  /\ Before(q, k) \in Ring
           /\ NodeAt(q, k) \in Ring
           /\ next[Before(q, k)] = NodeAt(q, k)
           /\ prev[NodeAt(q, k)] = Before(q, k)
<1>1. Len(q) \in Nat /\ \A i \in 1 .. Len(q) : q[i] \in Session
  BY LenProperties
<1>2. \A i \in 1 .. Len(q) : q[i] \in live
  BY <1>1 DEF Listing
<1>3. NodeAt(q, k) \in Ring
  BY <1>1, <1>2 DEF NodeAt, Ring
<1>4. Before(q, k) \in Ring /\ next[Before(q, k)] = NodeAt(q, k)
  <2>1. CASE k = 1
    BY <2>1 DEF Before, Listing, Linked, Ring
  <2>2. CASE k # 1
    <3>1. k - 1 \in 1 .. Len(q) /\ (k - 1) + 1 = k
      BY <1>1, <2>2
    <3>2. next[q[k - 1]] = NodeAt(q, (k - 1) + 1)
      BY <3>1 DEF Listing, Linked
    <3>. QED
      BY <1>2, <2>2, <3>1, <3>2 DEF Before, Ring
  <2>. QED
    BY <2>1, <2>2
<1>. QED
  BY <1>3, <1>4 DEF IInv, RingIntact

\* The constructor appends the session to the sequence.
LEMMA AddAppends ==
    ASSUME IInv, NEW q \in Seq(Session), Listing(q), NEW s \in Session, AddSession(s)
    PROVE  Append(q, s) \in Seq(Session) /\ Listing(Append(q, s))'
<1> DEFINE r == Append(q, s)
           L == Len(q)
<1>1. /\ L \in Nat
      /\ \A i \in 1 .. L : q[i] \in Session
      /\ r \in Seq(Session)
      /\ Len(r) = L + 1
      /\ \A i \in 1 .. L : r[i] = q[i]
      /\ r[L + 1] = s
  BY LenProperties, AppendProperties
<1> HIDE DEF r
<1>2. /\ \A i \in 1 .. L : q[i] \in live /\ q[i] # s /\ q[i] # Sentinel /\ q[i] \in Node
      /\ s # Sentinel /\ s \in Node /\ Sentinel \in Node
  BY <1>1, NodeAssumption DEF Listing, AddSession, Node
<1> DEFINE last == Before(q, L + 1)
<1>3. last \in Ring /\ last = prev[Sentinel] /\ last \in Node /\ last # s
  <2>1. L + 1 \in 1 .. Len(q) + 1 /\ NodeAt(q, L + 1) = Sentinel
    BY <1>1 DEF NodeAt
  <2>2. last \in Ring /\ prev[Sentinel] = last
    BY <2>1, Neighbours
  <2>. QED
    BY <1>2, <2>2 DEF Ring, AddSession, IInv, TypeOK, Node
<1>4. /\ last = IF L = 0 THEN Sentinel ELSE q[L]
  BY <1>1 DEF Before
<1> HIDE DEF last
<1>5. /\ next'[s] = Sentinel
      /\ next'[last] = s
      /\ \A n \in Node : n # last /\ n # s => next'[n] = next[n]
      /\ live' = live \cup {s}
  <2>1. next' = [next EXCEPT ![last] = s, ![s] = Sentinel] /\ live' = live \cup {s}
    BY <1>3 DEF AddSession, LinkLast
  <2>2. DOMAIN next = Node
    BY DEF IInv, TypeOK
  <2>. QED
    BY <1>2, <1>3, <2>1, <2>2
<1>6. next'[Sentinel] = NodeAt(r, 1)
  <2>1. CASE L = 0
    BY <1>1, <1>4, <1>5, <2>1 DEF NodeAt
  <2>2. CASE L # 0
    <3>1. 1 \in 1 .. L /\ L \in 1 .. L
      BY <1>1, <2>2
    <3>2. next[Sentinel] = NodeAt(q, 1)
      BY DEF Listing, Linked
    <3>3. next'[Sentinel] = next[Sentinel]
      BY <1>2, <1>4, <1>5, <2>2, <3>1
    <3>. QED
      BY <1>1, <3>1, <3>2, <3>3 DEF NodeAt
  <2>. QED
    BY <2>1, <2>2
<1>7. ASSUME NEW i \in 1 .. L + 1
      PROVE  next'[r[i]] = NodeAt(r, i + 1)
  <2>1. CASE i = L + 1
    BY <1>1, <1>5, <2>1 DEF NodeAt
  <2>2. CASE i = L
    <3>1. r[i] = last /\ i \in 1 .. L
      BY <1>1, <1>4, <2>2
    <3>. QED
      BY <1>1, <1>5, <2>2, <3>1 DEF NodeAt
  <2>3. CASE i # L /\ i # L + 1
    <3>1. /\ i \in 1 .. L /\ i + 1 \in 1 .. L /\ L \in 1 .. L /\ L # 0
      BY <1>1, <2>3
    <3>2. next[q[i]] = NodeAt(q, i + 1) /\ q[i] # q[L]
      BY <2>3, <3>1 DEF Listing, Linked
    <3>3. next'[q[i]] = next[q[i]]
      BY <1>2, <1>4, <1>5, <3>1, <3>2
    <3>4. NodeAt(q, i + 1) = NodeAt(r, i + 1)
      BY <1>1, <3>1 DEF NodeAt
    <3>. QED
      BY <1>1, <3>1, <3>2, <3>3, <3>4
  <2>. QED
    BY <2>1, <2>2, <2>3
<1>8. ASSUME NEW i \in 1 .. L + 1, NEW j \in 1 .. L + 1, r[i] = r[j]
      PROVE  i = j
  <2>1. \A a \in 1 .. L + 1 : a = L + 1 \/ a \in 1 .. L
    BY <1>1
  <2>2. \A a, b \in 1 .. L : q[a] = q[b] => a = b
    BY DEF Listing, Linked
  <2>. QED
    BY <1>1, <1>2, <1>8, <2>1, <2>2
<1>9. ASSUME NEW t \in Session
      PROVE  t \in live' <=> \E i \in 1 .. L + 1 : r[i] = t
  <2>1. t \in live <=> \E i \in 1 .. L : q[i] = t
    BY DEF Listing
  <2>2. /\ L + 1 \in 1 .. L + 1
        /\ \A a \in 1 .. L : a \in 1 .. L + 1
        /\ \A a \in 1 .. L + 1 : a = L + 1 \/ a \in 1 .. L
    BY <1>1
  <2>. QED
    BY <1>1, <1>5, <2>1, <2>2
<1>10. Listing(r)'
  BY <1>1, <1>6, <1>7, <1>8, <1>9 DEF Listing, Linked
<1>. QED
  BY <1>1, <1>10 DEF r

\* The destructor takes the session out of the sequence; the sessions behind it
\* stay linked.
LEMMA UnlinkTakesOut ==
    ASSUME IInv, NEW q \in Seq(Session), Listing(q), NEW k \in 1 .. Len(q), Unlink(q[k])
    PROVE  /\ Without(q, k) \in Seq(Session)
           /\ Listing(Without(q, k))'
           /\ Linked(next', Rest(q, k + 1), NodeAt(q, k + 1))
<1> DEFINE r == Without(q, k)
           L == Len(q)
           p == Before(q, k)
           s == q[k]
<1>1. /\ L \in Nat /\ k \in Nat /\ k <= L /\ 1 <= k /\ L \in 1 .. L
      /\ \A i \in 1 .. L : q[i] \in Session
      /\ r \in Seq(Session)
      /\ Len(r) = L - 1
      /\ \A i \in 1 .. L - 1 : r[i] = IF i < k THEN q[i] ELSE q[i + 1]
  <2>1. L \in Nat /\ \A i \in 1 .. L : q[i] \in Session
    BY LenProperties
  <2>2. k \in Nat /\ k <= L /\ 1 <= k /\ L \in 1 .. L
    BY <2>1
  <2>3. /\ r \in Seq(Session)
        /\ Len(r) = L - 1
        /\ \A i \in 1 .. L - 1 : r[i] = IF i < k THEN q[i] ELSE q[i + 1]
    BY WithoutFacts
  <2>. QED
    BY <2>1, <2>2, <2>3
<1> HIDE DEF r
<1>2. /\ \A i \in 1 .. L : q[i] \in live /\ q[i] # Sentinel /\ q[i] \in Node
      /\ Sentinel \in Node
  BY <1>1, NodeAssumption DEF Listing, Node
<1>3. \A i, j \in 1 .. L : q[i] = q[j] => i = j
  BY DEF Listing, Linked
<1>4. p = IF k = 1 THEN Sentinel ELSE q[k - 1]
  BY DEF Before
<1>5. p = prev[s] /\ p \in Node /\ p # s /\ s \in Node
  <2>1. k \in 1 .. Len(q) + 1 /\ NodeAt(q, k) = s
    BY <1>1 DEF NodeAt
  <2>2. p \in Ring /\ prev[s] = p
    BY <2>1, Neighbours
  <2>3. k # 1 => k - 1 \in 1 .. L /\ k - 1 # k
    BY <1>1
  <2>. QED
    BY <1>1, <1>2, <1>3, <1>4, <2>2, <2>3 DEF Ring, IInv, TypeOK, Node
<1>6. next[s] = NodeAt(q, k + 1)
  BY DEF Listing, Linked
<1> HIDE DEF p, s
<1>7. /\ next'[p] = NodeAt(q, k + 1)
      /\ \A n \in Node : n # p /\ n # s => next'[n] = next[n]
      /\ live' = live \ {s}
  <2>1. next' = [next EXCEPT ![p] = next[s], ![s] = Freed] /\ live' = live \ {s}
    BY <1>5 DEF Unlink, s
  <2>2. DOMAIN next = Node
    BY DEF IInv, TypeOK
  <2>. QED
    BY <1>5, <1>6, <2>1, <2>2
<1>8. ASSUME NEW i \in 1 .. L
      PROVE  NodeAt(r, i) = IF i < k THEN q[i] ELSE NodeAt(q, i + 1)
  BY <1>1 DEF NodeAt
<1>9. next'[Sentinel] = NodeAt(r, 1)
  <2>1. 1 \in 1 .. L
    BY <1>1
  <2>2. CASE k = 1
    BY <1>4, <1>7, <1>8, <2>1, <2>2
  <2>3. CASE k # 1
    <3>1. 1 < k /\ k - 1 \in 1 .. L
      BY <1>1, <2>3
    <3>2. next[Sentinel] = q[1]
      BY <1>1, <2>1 DEF Listing, Linked, NodeAt
    <3>3. next'[Sentinel] = next[Sentinel]
      BY <1>1, <1>2, <1>4, <1>7, <2>3, <3>1 DEF s
    <3>. QED
      BY <1>8, <2>1, <3>1, <3>2, <3>3
  <2>. QED
    BY <2>2, <2>3
<1>10. ASSUME NEW i \in 1 .. L, i # k, i # k - 1
       PROVE  next'[q[i]] = NodeAt(q, i + 1)
  <2>1. next[q[i]] = NodeAt(q, i + 1)
    BY DEF Listing, Linked
  <2>2. q[i] # s
    BY <1>3, <1>10 DEF s
  <2>3. k # 1 => k - 1 \in 1 .. L
    BY <1>1
  <2>4. q[i] # p
    BY <1>2, <1>3, <1>4, <1>10, <2>3
  <2>. QED
    BY <1>2, <1>7, <2>1, <2>2, <2>4
<1>11. ASSUME NEW i \in 1 .. L - 1
       PROVE  next'[r[i]] = NodeAt(r, i + 1)
  <2>1. /\ i \in 1 .. L /\ i + 1 \in 1 .. L
    BY <1>1
  <2>2. CASE i = k - 1
    <3>1. /\ i < k /\ ~(i + 1 < k) /\ k # 1 /\ i + 1 = k
      BY <1>1, <2>2
    <3>2. r[i] = p
      BY <1>1, <1>4, <2>2, <3>1
    <3>3. NodeAt(r, i + 1) = NodeAt(q, k + 1)
      BY <1>8, <2>1, <3>1
    <3>. QED
      BY <1>7, <3>2, <3>3
  <2>3. CASE i < k /\ i # k - 1
    <3>1. /\ i + 1 < k /\ i # k /\ i + 1 <= L
      BY <1>1, <2>1, <2>3
    <3>2. r[i] = q[i]
      BY <1>1, <2>3
    <3>3. next'[q[i]] = NodeAt(q, i + 1)
      BY <1>10, <2>1, <2>3, <3>1
    <3>4. NodeAt(r, i + 1) = q[i + 1]
      BY <1>8, <2>1, <3>1
    <3>5. NodeAt(q, i + 1) = q[i + 1]
      BY <3>1 DEF NodeAt
    <3>. QED
      BY <3>2, <3>3, <3>4, <3>5
  <2>4. CASE ~(i < k)
    <3>1. ~(i + 1 < k) /\ i + 1 # k /\ i + 1 # k - 1
      BY <1>1, <2>4
    <3>2. r[i] = q[i + 1]
      BY <1>1, <2>4
    <3>3. next'[q[i + 1]] = NodeAt(q, i + 1 + 1)
      BY <1>10, <2>1, <3>1
    <3>4. NodeAt(r, i + 1) = NodeAt(q, i + 1 + 1)
      BY <1>8, <2>1, <3>1
    <3>. QED
      BY <3>2, <3>3, <3>4
  <2>. QED
    BY <2>2, <2>3, <2>4
<1>12. ASSUME NEW i \in 1 .. L - 1, NEW j \in 1 .. L - 1, r[i] = r[j]
       PROVE  i = j
  <2>1. /\ i \in 1 .. L /\ i + 1 \in 1 .. L /\ j \in 1 .. L /\ j + 1 \in 1 .. L
    BY <1>1
  <2>2. r[i] = (IF i < k THEN q[i] ELSE q[i + 1]) /\ r[j] = (IF j < k THEN q[j] ELSE q[j + 1])
    BY <1>1
  <2>3. (IF i < k THEN i ELSE i + 1) = (IF j < k THEN j ELSE j + 1)
    BY <1>3, <1>12, <2>1, <2>2
  <2>. QED
    BY <1>1, <2>1, <2>3
<1>13. ASSUME NEW t \in Session
       PROVE  t \in live' <=> \E i \in 1 .. L - 1 : r[i] = t
  <2>1. t \in live <=> \E i \in 1 .. L : q[i] = t
    BY DEF Listing
  <2>2. ASSUME NEW i \in 1 .. L, q[i] = t, t # s
        PROVE  \E j \in 1 .. L - 1 : r[j] = t
    <3>1. i # k
      BY <2>2 DEF s
    <3>2. CASE i < k
      <4>1. i \in 1 .. L - 1
        BY <1>1, <3>2
      <4>. QED
        BY <1>1, <2>2, <3>2, <4>1
    <3>3. CASE ~(i < k)
      <4>1. i - 1 \in 1 .. L - 1 /\ ~(i - 1 < k) /\ (i - 1) + 1 = i
        BY <1>1, <3>1, <3>3
      <4>. QED
        BY <1>1, <2>2, <4>1
    <3>. QED
      BY <3>2, <3>3
  <2>3. ASSUME NEW j \in 1 .. L - 1
        PROVE  r[j] # s /\ \E i \in 1 .. L : q[i] = r[j]
    <3>1. j \in 1 .. L /\ j + 1 \in 1 .. L
      BY <1>1
    <3>2. CASE j < k
      <4>1. j # k
        BY <1>1, <3>2
      <4>. QED
        BY <1>1, <1>3, <3>1, <3>2, <4>1 DEF s
    <3>3. CASE ~(j < k)
      <4>1. j + 1 # k
        BY <1>1, <3>3
      <4>. QED
        BY <1>1, <1>3, <3>1, <3>3, <4>1 DEF s
    <3>. QED
      BY <3>2, <3>3
  <2>. QED
    BY <1>7, <2>1, <2>2, <2>3
<1>14. Listing(r)'
  BY <1>1, <1>9, <1>11, <1>12, <1>13 DEF Listing, Linked
<1>15. Linked(next', Rest(r, k), NodeAt(r, k))
  <2>1. Linked(next', r, next'[Sentinel])
    BY <1>14 DEF Listing
  <2>2. k \in 1 .. Len(r) + 1
    BY <1>1
  <2>. QED
    BY <1>1, <2>1, <2>2, RestLinked
<1>16. NodeAt(r, k) = NodeAt(q, k + 1)
  BY <1>1, <1>8
<1>17. Rest(r, k) = Rest(q, k + 1)
  <2> DEFINE m == k + 1
  <2>1. k \in 1 .. Len(r) + 1 /\ m \in 1 .. L + 1
    BY <1>1
  <2> HIDE DEF m
  <2>2. /\ Rest(r, k) \in Seq(Session)
        /\ Len(Rest(r, k)) = Len(r) - k + 1
        /\ \A i \in 1 .. Len(r) - k + 1 : Rest(r, k)[i] = r[k + i - 1]
    BY <1>1, <2>1, RestFacts
  <2>3. /\ Rest(q, m) \in Seq(Session)
        /\ Len(Rest(q, m)) = L - m + 1
        /\ \A i \in 1 .. L - m + 1 : Rest(q, m)[i] = q[m + i - 1]
    BY <2>1, RestFacts
  <2>4. Len(Rest(r, k)) = L - k /\ Len(Rest(q, m)) = L - k
    <3>1. Len(r) - k + 1 = L - k /\ L - m + 1 = L - k
      BY <1>1 DEF m
    <3>. QED
      BY <2>2, <2>3, <3>1
  <2>5. ASSUME NEW i \in 1 .. L - k
        PROVE  Rest(r, k)[i] = Rest(q, m)[i]
    <3>1. /\ i \in 1 .. Len(r) - k + 1 /\ i \in 1 .. L - m + 1
          /\ k + i - 1 \in 1 .. L - 1 /\ ~(k + i - 1 < k)
          /\ (k + i - 1) + 1 = m + i - 1
      BY <1>1 DEF m
    <3>2. r[k + i - 1] = q[(k + i - 1) + 1]
      BY <1>1, <3>1
    <3>. QED
      BY <2>2, <2>3, <3>1, <3>2
  <2>. QED
    BY <2>2, <2>3, <2>4, <2>5, SeqEqual DEF m
<1>. QED
  BY <1>1, <1>14, <1>15, <1>16, <1>17 DEF r

\* What the clients and the remaining clients of the registry are.
Clients == Walk(next, next[Sentinel])

Remaining == IF loop \in Running THEN Walk(next, element) ELSE <<>>

LEMMA ClientsAre ==
    ASSUME NEW q \in Seq(Session), Listing(q)
    PROVE  Clients = q
BY WalkIs DEF Listing, Clients

\* A running loop stands somewhere in the sequence.
LEMMA LoopStandsAt ==
    ASSUME IInv, NEW q \in Seq(Session), Listing(q), loop \in Running
    PROVE  \E k \in 1 .. Len(q) + 1 : element = NodeAt(q, k) /\ Remaining = Rest(q, k)
<1>1. Len(q) \in Nat
  BY LenProperties
<1>2. PICK k \in 1 .. Len(q) + 1 : element = NodeAt(q, k)
  <2>1. CASE element = Sentinel
    <3>1. Len(q) + 1 \in 1 .. Len(q) + 1 /\ NodeAt(q, Len(q) + 1) = Sentinel
      BY <1>1 DEF NodeAt
    <3>. QED
      BY <2>1, <3>1
  <2>2. CASE element # Sentinel
    <3>1. element \in live /\ element \in Session
      BY <2>2 DEF IInv, TypeOK, DueExact, Ring
    <3>2. PICK i \in 1 .. Len(q) : q[i] = element
      BY <3>1 DEF Listing
    <3>3. i \in 1 .. Len(q) + 1 /\ NodeAt(q, i) = element
      BY <1>1, <3>2 DEF NodeAt
    <3>. QED
      BY <3>3
  <2>. QED
    BY <2>1, <2>2
<1>3. Linked(next, Rest(q, k), NodeAt(q, k)) /\ Rest(q, k) \in Seq(Session)
  BY RestLinked, RestFacts DEF Listing
<1>4. Walk(next, element) = Rest(q, k)
  BY <1>2, <1>3, WalkIs
<1>. QED
  BY <1>2, <1>4 DEF Remaining

LEMMA AddRefines ==
    ASSUME IInv, NEW q \in Seq(Session), Listing(q), NEW s \in Session, AddSession(s)
    PROVE  Registry!Register(s) /\ \E r \in Seq(Session) : Listing(r)'
<1>1. Append(q, s) \in Seq(Session) /\ Listing(Append(q, s))'
  BY AddAppends
<1>2. Clients = q
  BY ClientsAre
<1>3. Clients' = Append(q, s)
  <2>1. Linked(next', Append(q, s), next'[Sentinel])
    BY <1>1 DEF Listing
  <2>. QED
    BY <1>1, <2>1, WalkIs DEF Clients
<1>4. loop = "none" /\ loop' = loop /\ s \notin live
  BY DEF AddSession
<1>5. Remaining = <<>> /\ Remaining' = <<>>
  BY <1>4 DEF Remaining, Running
<1>6. s \notin {q[i] : i \in DOMAIN q}
  <2>1. DOMAIN q = 1 .. Len(q)
    BY LenProperties
  <2>. QED
    BY <1>4, <2>1 DEF Listing
<1>. QED
  BY <1>1, <1>2, <1>3, <1>4, <1>5, <1>6
     DEF Registry!Register, Registry!Registered, Clients, Remaining

LEMMA BeginRefines ==
    ASSUME IInv, NEW q \in Seq(Session), Listing(q), NEW kind \in Running,
           BeginLoop(kind), kind = "send" => NotEmpty
    PROVE  Registry!Begin(kind) /\ \E r \in Seq(Session) : Listing(r)'
<1>1. /\ loop = "none" /\ loop' = kind /\ element' = next[Sentinel]
      /\ next' = next /\ live' = live
  BY DEF BeginLoop, heap
<1>2. Listing(q)'
  BY <1>1 DEF Listing
<1>3. Clients = q /\ Clients' = Clients
  BY <1>1, ClientsAre DEF Clients
<1>4. Remaining' = Clients
  BY <1>1 DEF Remaining, Clients
<1>5. NotEmpty => q # <<>>
  <2>1. q = <<>> => NodeAt(q, 1) = Sentinel
    BY DEF NodeAt
  <2>. QED
    BY <2>1 DEF NotEmpty, Listing, Linked
<1>. QED
  BY <1>1, <1>2, <1>3, <1>4, <1>5 DEF Registry!Begin, Clients, Remaining

\* An iteration that keeps the session reached.
LEMMA KeepRefines ==
    ASSUME IInv, NEW q \in Seq(Session), Listing(q), loop \in {"serve", "send"},
           element # Sentinel, element' = next[element], UNCHANGED <<heap, loop>>
    PROVE  Registry!Keep /\ \E r \in Seq(Session) : Listing(r)'
<1>1. next' = next /\ live' = live /\ loop' = loop /\ loop \in Running
  BY DEF heap, Running
<1>2. PICK k \in 1 .. Len(q) + 1 : element = NodeAt(q, k) /\ Remaining = Rest(q, k)
  BY <1>1, LoopStandsAt
<1>3. Len(q) \in Nat /\ k \in Nat
  BY LenProperties
<1>4. k \in 1 .. Len(q) /\ element = q[k]
  BY <1>2, <1>3 DEF NodeAt
<1>5. Rest(q, k) # <<>> /\ Tail(Rest(q, k)) = Rest(q, k + 1)
  BY <1>2, <1>4, RestFacts
<1>6. next[element] = NodeAt(q, k + 1)
  BY <1>4 DEF Listing, Linked
<1>7. Remaining' = Rest(q, k + 1)
  <2>1. k + 1 \in 1 .. Len(q) + 1
    BY <1>3, <1>4
  <2>2. Linked(next, Rest(q, k + 1), NodeAt(q, k + 1)) /\ Rest(q, k + 1) \in Seq(Session)
    BY <2>1, RestLinked, RestFacts DEF Listing
  <2>3. Walk(next, NodeAt(q, k + 1)) = Rest(q, k + 1)
    BY <2>2, WalkIs
  <2>. QED
    BY <1>1, <1>6, <2>3 DEF Remaining
<1>8. Clients' = Clients /\ Listing(q)'
  BY <1>1 DEF Clients, Listing
<1>. QED
  BY <1>1, <1>2, <1>5, <1>7, <1>8 DEF Registry!Keep, Clients, Remaining

\* An iteration that deletes the session reached.
LEMMA DropRefines ==
    ASSUME IInv, NEW q \in Seq(Session), Listing(q), loop \in {"serve", "destroy"},
           element # Sentinel, element' = next[element], Unlink(element), loop' = loop
    PROVE  Registry!Drop /\ \E r \in Seq(Session) : Listing(r)'
<1>1. loop \in Running
  BY DEF Running
<1>2. PICK k \in 1 .. Len(q) + 1 : element = NodeAt(q, k) /\ Remaining = Rest(q, k)
  BY <1>1, LoopStandsAt
<1>3. Len(q) \in Nat /\ k \in Nat /\ DOMAIN q = 1 .. Len(q)
  BY LenProperties
<1>4. k \in 1 .. Len(q) /\ element = q[k]
  BY <1>2, <1>3 DEF NodeAt
<1>5. /\ Rest(q, k) # <<>> /\ Head(Rest(q, k)) = q[k]
      /\ Tail(Rest(q, k)) = Rest(q, k + 1)
  BY <1>2, <1>4, RestFacts
<1>6. /\ Without(q, k) \in Seq(Session)
      /\ Listing(Without(q, k))'
      /\ Linked(next', Rest(q, k + 1), NodeAt(q, k + 1))
  BY <1>4, UnlinkTakesOut
<1>7. Clients = q /\ Clients' = Without(q, k)
  <2>1. Linked(next', Without(q, k), next'[Sentinel])
    BY <1>6 DEF Listing
  <2>. QED
    BY <1>6, <2>1, WalkIs, ClientsAre DEF Clients
<1>8. Remaining' = Rest(q, k + 1)
  <2>1. element' = NodeAt(q, k + 1)
    BY <1>4 DEF Listing, Linked
  <2>2. k + 1 \in 1 .. Len(q) + 1
    BY <1>3, <1>4
  <2>3. Rest(q, k + 1) \in Seq(Session)
    BY <2>2, RestFacts
  <2>4. Walk(next', NodeAt(q, k + 1)) = Rest(q, k + 1)
    BY <1>6, <2>3, WalkIs
  <2>. QED
    BY <1>1, <2>1, <2>4 DEF Remaining
<1>9. \E i \in DOMAIN q :
         q[i] = Head(Remaining) /\ Without(q, k) = SubSeq(q, 1, i - 1) \o SubSeq(q, i + 1, Len(q))
  BY <1>2, <1>3, <1>4, <1>5 DEF Without
<1>10. Registry!Drop
  BY <1>2, <1>5, <1>7, <1>8, <1>9 DEF Registry!Drop, Clients, Remaining
<1>. QED
  BY <1>6, <1>10

LEMMA EndRefines ==
    ASSUME IInv, NEW q \in Seq(Session), Listing(q), EndLoop
    PROVE  Registry!End /\ \E r \in Seq(Session) : Listing(r)'
<1>1. /\ loop \in Running /\ element = Sentinel
      /\ loop' = IF loop = "destroy" THEN "gone" ELSE "none"
      /\ next' = next /\ live' = live
  BY DEF EndLoop, heap
<1>2. PICK k \in 1 .. Len(q) + 1 : element = NodeAt(q, k) /\ Remaining = Rest(q, k)
  BY <1>1, LoopStandsAt
<1>3. Len(q) \in Nat /\ k \in Nat /\ \A i \in 1 .. Len(q) : q[i] \in Session
  BY LenProperties
<1>4. k = Len(q) + 1
  BY <1>1, <1>2, <1>3, NodeAssumption DEF NodeAt
<1>5. Remaining = <<>>
  BY <1>2, <1>4, RestFacts
<1>6. Remaining' = <<>>
  BY <1>1 DEF Remaining, Running
<1>7. Clients' = Clients /\ Listing(q)'
  BY <1>1 DEF Clients, Listing
<1>. QED
  BY <1>1, <1>5, <1>6, <1>7 DEF Registry!End, Clients, Remaining, Running

LEMMA StepRefines ==
    ASSUME WInv, [Next]_vars
    PROVE  [Registry!Next]_(Registry!registryVars) /\ WInv'
<1> DEFINE stays == \E r \in Seq(Session) : Listing(r)'
<1>1. PICK q \in Seq(Session) : Listing(q)
  BY DEF WInv
<1>2. IInv /\ IInv'
  BY NextIInv DEF WInv
<1>3. ASSUME NEW s \in Session, AddSession(s)
      PROVE  Registry!Next /\ stays
  BY <1>1, <1>2, <1>3, AddRefines DEF Registry!Next
<1>4. ASSUME NEW kind \in Running, BeginLoop(kind), kind = "send" => NotEmpty
      PROVE  Registry!Next /\ stays
  BY <1>1, <1>2, <1>4, BeginRefines DEF Registry!Next, Running
<1>5. ASSUME NEW stopped \in BOOLEAN, ServeOne(stopped)
      PROVE  Registry!Next /\ stays
  <2>1. CASE stopped
    BY <1>1, <1>2, <1>5, <2>1, DropRefines DEF ServeOne, Registry!Next
  <2>2. CASE ~stopped
    BY <1>1, <1>2, <1>5, <2>2, KeepRefines DEF ServeOne, Registry!Next
  <2>. QED
    BY <2>1, <2>2
<1>6. ASSUME SendOne
      PROVE  Registry!Next /\ stays
  BY <1>1, <1>2, <1>6, KeepRefines DEF SendOne, Registry!Next
<1>7. ASSUME DestroyOne
      PROVE  Registry!Next /\ stays
  BY <1>1, <1>2, <1>7, DropRefines DEF DestroyOne, Registry!Next
<1>8. ASSUME EndLoop
      PROVE  Registry!Next /\ stays
  BY <1>1, <1>2, <1>8, EndRefines DEF Registry!Next
<1>9. ASSUME UNCHANGED vars
      PROVE  UNCHANGED Registry!registryVars /\ stays
  <2>1. next' = next /\ live' = live /\ loop' = loop /\ element' = element
    BY <1>9 DEF vars
  <2>2. Listing(q)'
    BY <1>1, <2>1 DEF Listing
  <2>. QED
    BY <2>1, <2>2 DEF Registry!registryVars
<1>10. [Registry!Next]_(Registry!registryVars) /\ stays
  <2> HIDE DEF stays
  <2>. QED
    BY <1>3, <1>4, <1>5, <1>6, <1>7, <1>8, <1>9
       DEF Next, Step, BeginServe, BeginSend, BeginDestroy, Running
<1>. QED
  BY <1>2, <1>10 DEF WInv

LEMMA InitRefines == Init => Registry!Init /\ WInv
<1> SUFFICES ASSUME Init
             PROVE  Registry!Init /\ WInv
  OBVIOUS
<1>1. /\ next[Sentinel] = Sentinel /\ live = {} /\ loop = "none"
  BY DEF Init, Node
<1>2. <<>> \in Seq(Session) /\ Len(<<>>) = 0
  BY EmptySeq
<1>3. Listing(<<>>)
  BY <1>1, <1>2 DEF Listing, Linked, NodeAt
<1>4. Clients = <<>>
  BY <1>2, <1>3, ClientsAre
<1>5. Registry!Init
  BY <1>1, <1>4 DEF Registry!Init, Clients, Running
<1>. QED
  BY <1>2, <1>3, <1>5, InitIInv DEF WInv

\* The ring, its loops and the deletions they make behave like a sequence of
\* clients, for every set of sessions and however many are created.
THEOREM RingImplementsRegistry == Spec => ImplementsRegistry
<1>1. Init => Registry!Init /\ WInv
  BY InitRefines
<1>2. WInv /\ [Next]_vars => WInv' /\ [Registry!Next]_(Registry!registryVars)
  BY StepRefines
<1>. QED
  BY <1>1, <1>2, PTL DEF Spec, ImplementsRegistry, Registry!Spec
=============================================================================
