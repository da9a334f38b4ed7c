-------------------------- MODULE MCPollCoordinator --------------------------
(* 360 s and 330 s become four ticks and three; the back-off grows by two  *)
(* intervals per failure, up to five.                                      *)
EXTENDS PollCoordinator
=============================================================================
