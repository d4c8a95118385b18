--------------------------- MODULE ClientRegistry ---------------------------
(***************************************************************************)
(* What CStreamer needs of its list of clients, without pointers: a        *)
(* sequence in the order of arrival, and passes that visit every client    *)
(* present at their start once, in that order, and may drop the client     *)
(* they are visiting.                                                      *)
(***************************************************************************)
EXTENDS Naturals, Sequences

CONSTANT Session

VARIABLES
    clients,     \* the registered clients, oldest first
    remaining,   \* the clients the current pass has yet to visit
    pass         \* the current pass, if any

registryVars == <<clients, remaining, pass>>

Registered == {clients[i] : i \in DOMAIN clients}

Init ==
    /\ clients = <<>>
    /\ remaining = <<>>
    /\ pass = "none"

Register(s) ==
    /\ pass = "none"
    /\ s \notin Registered
    /\ clients' = Append(clients, s)
    /\ UNCHANGED <<remaining, pass>>

Begin(kind) ==
    /\ pass = "none"
    /\ kind = "send" => clients # <<>>
    /\ pass' = kind
    /\ remaining' = clients
    /\ UNCHANGED clients

Keep ==
    /\ pass \in {"serve", "send"}
    /\ remaining # <<>>
    /\ remaining' = Tail(remaining)
    /\ UNCHANGED <<clients, pass>>

Drop ==
    /\ pass \in {"serve", "destroy"}
    /\ remaining # <<>>
    /\ remaining' = Tail(remaining)
    /\ \E i \in DOMAIN clients :
          /\ clients[i] = Head(remaining)
          /\ clients' = SubSeq(clients, 1, i - 1) \o SubSeq(clients, i + 1, Len(clients))
    /\ UNCHANGED pass

End ==
    /\ pass \in {"serve", "send", "destroy"}
    /\ remaining = <<>>
    /\ pass' = IF pass = "destroy" THEN "gone" ELSE "none"
    /\ UNCHANGED <<clients, remaining>>

Next ==
    \/ \E s \in Session : Register(s)
    \/ \E kind \in {"serve", "send", "destroy"} : Begin(kind)
    \/ Keep
    \/ Drop
    \/ End

Spec == Init /\ [][Next]_registryVars
=============================================================================
