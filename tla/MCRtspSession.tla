--------------------------- MODULE MCRtspSession ---------------------------
(* Instances of RtspSession for TLC. *)
EXTENDS RtspSession, TLC

Ask(method) ==
    [method |-> method, uri |-> "stream", transport |-> "none", headers |-> "many"]
AskSetup(transport) == [Ask("SETUP") EXCEPT !.transport = transport]

MCSharedRequests == {Ask("PLAY"), [Ask("TEARDOWN") EXCEPT !.headers = "few"], Ask("other")}
MCTwoLengths == {[Ask("OPTIONS") EXCEPT !.headers = h] : h \in {"few", "many"}}
MCDialogueRequests ==
    {Ask("TEARDOWN"), Ask("other"), AskSetup("udp"), AskSetup("tcp"), AskSetup("other"),
     [Ask("DESCRIBE") EXCEPT !.uri = "elsewhere"], [Ask("PLAY") EXCEPT !.uri = "malformed"]}

Symmetry == Permutations(Session)
=============================================================================
