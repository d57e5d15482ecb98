---------------------------- MODULE MCPrefetcher ----------------------------
(* A small instance of Prefetcher.                                         *)
EXTENDS Prefetcher

CONSTANTS k1, k2, c1

MCKeys == {k1, k2}
MCConns == {c1}
(* Two domains compete for the semaphore, or several users for one domain. *)
MCCasts == {[keys |-> {k1, k2}, users |-> {"purge"}],
            [keys |-> {k1}, users |-> {c1, "tidy"}],
            [keys |-> {k1}, users |-> {c1, "purge"}]}
=============================================================================
