--------------------------- MODULE MCUdpTransport ---------------------------
(* Instance for TLC: three pairs of ports 70 .. 75, and what a search may   *)
(* find free of them and of the ports behind the end of the search.         *)
EXTENDS UdpTransport, TLC

MCBindable == {70 .. 77, {71, 72, 73, 75}, {70, 74}, {70, 76, 77}}
MCAlwaysAPair == {70 .. 77, {71, 72, 73, 75}}

Symmetry == Permutations(Session)
=============================================================================
