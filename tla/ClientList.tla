----------------------------- MODULE ClientList -----------------------------
(***************************************************************************)
(* The intrusive doubly linked ring of sessions that CStreamer keeps in    *)
(* m_Clients (LinkedListElement.h), the three loops of CStreamer.cpp that  *)
(* walk it, and the sessions' allocation and deletion.                     *)
(*                                                                         *)
(* A node is the sentinel (CStreamer::m_Clients itself) or a session.      *)
(* The memory of a deleted session holds no pointer the program may still  *)
(* follow: its fields become Freed.  A Session value is an address, so it  *)
(* may be allocated again.  The program is single threaded: between two    *)
(* iterations of a loop nothing else runs.                                 *)
(***************************************************************************)
EXTENDS Naturals, FiniteSets

CONSTANTS
    Session,     \* addresses at which a CRtspSession may be allocated
    Sentinel,    \* the sentinel element CStreamer::m_Clients
    Freed,       \* what a pointer field of deallocated memory holds
    MaxCreated   \* bound: number of sessions created in one behaviour

ASSUME NodeAssumption ==
    /\ IsFiniteSet(Session)
    /\ Sentinel \notin Session
    /\ Freed \notin Session \cup {Sentinel}

ASSUME BoundAssumption == MaxCreated \in Nat

VARIABLES
    next,      \* m_Next of every node
    prev,      \* m_Prev of every node
    live,      \* the sessions that are allocated
    loop,      \* the loop that is running over the ring, if any
    element,   \* the local variable "element" of that loop
    due,       \* history: sessions the running loop still has to visit
    rank,      \* history: position of a session in the order of creation
    created    \* history: number of sessions created so far

heap == <<next, prev, live, rank, created>>
vars == <<next, prev, live, loop, element, due, rank, created>>

Node == Session \cup {Sentinel}
Ring == live \cup {Sentinel}

\* The loops: CStreamer::handleRequests, the sending loop of SendRtpPacket
\* and the destructor of CStreamer.
Running == {"serve", "send", "destroy"}

-----------------------------------------------------------------------------
(* LinkedListElement *)

NotEmpty == next[Sentinel] # Sentinel

\* Mutant: the new element is put behind the sentinel, at the front.
LinkFirst(s) ==
    /\ next' = [next EXCEPT ![s] = next[Sentinel], ![Sentinel] = s]
    /\ prev' = [prev EXCEPT ![next[Sentinel]] = s, ![s] = Sentinel]

\* LinkedListElement(LinkedListElement* linkedList), with linkedList = &m_Clients.
LinkLast(s) ==
    /\ prev' = [prev EXCEPT ![s] = prev[Sentinel], ![Sentinel] = s]
    /\ next' = [next EXCEPT ![prev[Sentinel]] = s, ![s] = Sentinel]

\* Mutant: the predecessor of the successor is not updated.
UnlinkForwardOnly(s) ==
    /\ prev' = [prev EXCEPT ![s] = Freed]
    /\ next' = [next EXCEPT ![prev[s]] = next[s], ![s] = Freed]
    /\ live' = live \ {s}

\* ~LinkedListElement(), and the deallocation that follows it.
Unlink(s) ==
    /\ prev' = [prev EXCEPT ![next[s]] = prev[s], ![s] = Freed]
    /\ next' = [next EXCEPT ![prev[s]] = next[s], ![s] = Freed]
    /\ live' = live \ {s}

-----------------------------------------------------------------------------
(* CStreamer *)

Init ==
    /\ next = [n \in Node |-> IF n = Sentinel THEN Sentinel ELSE Freed]
    /\ prev = [n \in Node |-> IF n = Sentinel THEN Sentinel ELSE Freed]
    /\ live = {}
    /\ loop = "none"
    /\ element = Sentinel
    /\ due = {}
    /\ rank = [n \in Node |-> 0]
    /\ created = 0

\* CStreamer::addSession: the constructor of CRtspSession links itself in.
AddSession(s) ==
    /\ loop = "none"
    /\ created < MaxCreated
    /\ s \notin live
    /\ LinkLast(s)
    /\ live' = live \cup {s}
    /\ created' = created + 1
    /\ rank' = [rank EXCEPT ![s] = created + 1]
    /\ UNCHANGED <<loop, element, due>>

\* Entering one of the loops: element = m_Clients.m_Next.
BeginLoop(kind) ==
    /\ loop = "none"
    /\ loop' = kind
    /\ element' = next[Sentinel]
    /\ due' = live
    /\ UNCHANGED heap

BeginServe == BeginLoop("serve")

\* SendRtpPacket returns before its loop when there is no client.
BeginSend == NotEmpty /\ BeginLoop("send")

BeginDestroy == BeginLoop("destroy")

\* Mutant: the step is made before and after a deletion.
ServeOneSkips(stopped) ==
    /\ loop = "serve"
    /\ element # Sentinel
    /\ element' = IF stopped THEN next[next[element]] ELSE next[element]
    /\ due' = due \ {element}
    /\ IF stopped
       THEN Unlink(element) /\ UNCHANGED <<loop, rank, created>>
       ELSE UNCHANGED <<heap, loop>>

\* One iteration of handleRequests: serve the session, step to the next
\* element, then delete the session if it has stopped.
ServeOne(stopped) ==
    /\ loop = "serve"
    /\ element # Sentinel
    /\ element' = next[element]
    /\ due' = due \ {element}
    /\ IF stopped
       THEN Unlink(element) /\ UNCHANGED <<loop, rank, created>>
       ELSE UNCHANGED <<heap, loop>>

\* Mutant: a session the packet could not be sent to is deleted on the spot.
SendOneDrops ==
    /\ loop = "send"
    /\ element # Sentinel
    /\ element' = next[element]
    /\ due' = due \ {element}
    /\ Unlink(element)
    /\ UNCHANGED <<loop, rank, created>>

\* Mutant: the loop is continued without the step to the next element.
SendOneStays ==
    /\ loop = "send"
    /\ element # Sentinel
    /\ due' = due \ {element}
    /\ UNCHANGED <<heap, loop, element>>

\* One iteration of the sending loop of SendRtpPacket.
SendOne ==
    /\ loop = "send"
    /\ element # Sentinel
    /\ element' = next[element]
    /\ due' = due \ {element}
    /\ UNCHANGED <<heap, loop>>

\* One iteration of ~CStreamer.
DestroyOne ==
    /\ loop = "destroy"
    /\ element # Sentinel
    /\ element' = next[element]
    /\ due' = due \ {element}
    /\ Unlink(element)
    /\ UNCHANGED <<loop, rank, created>>

\* The loop condition element != &m_Clients fails.  The streamer is gone
\* once its destructor has run.
EndLoop ==
    /\ loop \in Running
    /\ element = Sentinel
    /\ loop' = IF loop = "destroy" THEN "gone" ELSE "none"
    /\ UNCHANGED <<heap, element, due>>

Step == (\E stopped \in BOOLEAN : ServeOne(stopped)) \/ SendOne \/ DestroyOne \/ EndLoop

Next ==
    \/ \E s \in Session : AddSession(s)
    \/ BeginServe
    \/ BeginSend
    \/ BeginDestroy
    \/ Step

\* A loop that has been entered runs on: nothing in it waits for another thread.
Spec == Init /\ [][Next]_vars /\ WF_vars(Step)

-----------------------------------------------------------------------------
(* Properties *)

TypeOK ==
    /\ next \in [Node -> Node \cup {Freed}]
    /\ prev \in [Node -> Node \cup {Freed}]
    /\ live \in SUBSET Session
    /\ loop \in Running \cup {"none", "gone"}
    /\ element \in Node
    /\ due \in SUBSET Session
    /\ rank \in [Node -> Nat]
    /\ created \in Nat

\* The two pointer fields of the allocated nodes are inverse of each other and
\* never lead out of the ring, whatever sessions are appended and deleted
\* (constructor and destructor of LinkedListElement).
RingIntact ==
    \A n \in Ring :
        /\ next[n] \in Ring
        /\ prev[n] \in Ring
        /\ prev[next[n]] = n
        /\ next[prev[n]] = n

\* Following m_Next visits the sessions in the order of their creation: the
\* successor of a node is the oldest session younger than it, and the sentinel
\* when there is none.  A session is thus never linked twice nor out of reach.
CreationOrder ==
    \A n \in Ring :
        LET younger == {s \in live : rank[s] > rank[n]}
        IN  \/ next[n] = Sentinel /\ younger = {}
            \/ /\ next[n] \in younger
               /\ \A s \in younger : rank[next[n]] <= rank[s]

\* anySessions() tells whether a session exists: the loop of the test server
\* ends exactly when the last one has been deleted.
AnySessionsExact == NotEmpty <=> live # {}

\* While a loop runs, element is the sentinel or an allocated session: the
\* program follows no pointer of a session deleted in an earlier iteration.
IteratorAllocated == loop \in Running => element \in Ring

\* A loop visits each session that existed when it was entered exactly once,
\* though handleRequests and ~CStreamer delete sessions on the way: the element
\* reached is still due, and nobody is due when the sentinel is reached.
EachVisitedOnce ==
    loop \in Running => IF element = Sentinel THEN due = {} ELSE element \in due

\* Every pass over the clients ends, so the server loop gets back to accept().
PassEnds == loop \in {"serve", "send"} ~> loop = "none"

-----------------------------------------------------------------------------
(* The ring implements a plain sequence of clients. *)

\* The sessions met from node n on along the pointers in links, up to the
\* sentinel.
Walk(links, n) ==
    LET node[k \in 0 .. Cardinality(Session)] ==
            IF k = 0 THEN n
            ELSE IF node[k - 1] \in Session THEN links[node[k - 1]] ELSE Sentinel
        met == {k \in 0 .. Cardinality(Session) : \A j \in 0 .. k : node[j] \in Session}
    IN  [i \in 1 .. Cardinality(met) |-> node[i - 1]]

Registry == INSTANCE ClientRegistry WITH
    clients <- Walk(next, next[Sentinel]),
    remaining <- IF loop \in Running THEN Walk(next, element) ELSE <<>>,
    pass <- loop

\* The ring and its loops behave like the sequence of ClientRegistry: append
\* at the end, visit from the front, drop a visited client.
ImplementsRegistry == Registry!Spec
=============================================================================
