----------------------------- MODULE MCResolvConf -----------------------------
(* An instance of ResolvConf for TLC.                                      *)
EXTENDS ResolvConf

CONSTANT g1
=============================================================================
