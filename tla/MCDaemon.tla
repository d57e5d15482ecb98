------------------------------ MODULE MCDaemon ------------------------------
(* Instances of Daemon: one socketmap listener with two tokens and one of  *)
(* the metrics server with one.                                            *)
EXTENDS Daemon, TLC

CONSTANTS socketmap, metrics, s1, s2, m1, m2

MCLimits == (socketmap :> 2) @@ (metrics :> 1)
MCFrom == [c \in Clients |-> IF c \in {m1, m2} THEN metrics ELSE socketmap]
=============================================================================
