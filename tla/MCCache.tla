------------------------------ MODULE MCCache ------------------------------
(* Cache with the periodic saver and one or two callers.                   *)
EXTENDS Cache

CONSTANTS s1, s2
============================================================================
