----------------------------- MODULE MCCacheLimit -----------------------------
(***************************************************************************)
(* Small instances of CacheLimit: one domain, with hits, stores, a flush   *)
(* and a prefetch racing over its counts; and four domains in a cache that *)
(* holds two and is pruned to one.                                         *)
(***************************************************************************)
EXTENDS CacheLimit

CONSTANTS k1, k2, k3, k4, c1, c2, w1, t1

Cast(keys, loaded, actors, hits, stores) ==
  [keys |-> keys, loaded |-> loaded, actors |-> actors, hits |-> hits, stores |-> stores]

TheCasts ==
  {Cast({k1}, {k1}, {c1, t1}, 2, 2), Cast({k1}, {k1}, {c1, c2, w1}, 2, 1),
   Cast({k1}, {k1}, {c1, w1, t1}, 1, 1),
   Cast({k1, k2, k3, k4}, {k1, k2}, {c1, c2}, 0, 2),
   Cast({k1, k2, k3}, {k1, k2}, {c1, w1}, 0, 1),
   Cast({k1, k2, k3}, {k1, k2}, {c1, t1}, 0, 2)}
=============================================================================
