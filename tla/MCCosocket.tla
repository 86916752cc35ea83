----------------------------- MODULE MCCosocket -----------------------------
(***************************************************************************)
(* The instances of Cosocket that TLC checks.                              *)
(***************************************************************************)
EXTENDS CosocketProps

\* Programs, by what they call.
Programs ==
  {{"recv", "send", "cancel"}, {"recvv", "close", "connect"}, {"read", "write", "connect"},
   {"recv_from", "sendv", "cancel"}, {"send_to", "timer", "close"}, {"accept", "stop", "connect"},
   {"accept", "signal", "timer", "cancel"}}

=============================================================================
