---------------------------- MODULE MCRtpStream ----------------------------
(* Instance for TLC: fragments of two bytes, so that images of 1, 2, 3 and  *)
(* 5 bytes take one short, one full, two and three fragments.               *)
EXTENDS RtpStream
=============================================================================
