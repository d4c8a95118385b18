---------------------------- MODULE MCTestServer ----------------------------
(* Instance of TestServer for TLC: all ports are free, or one of a pair is taken. *)
EXTENDS TestServer

MCForeign == {{}, {70}, {71}}
=============================================================================
