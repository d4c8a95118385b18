---------------------------- MODULE MCClientList ----------------------------
(* Model values for checking ClientList: the sessions are interchangeable.  *)
EXTENDS ClientList, TLC
=============================================================================
