---------------------------- MODULE MCDaneLookup ----------------------------
(* A small instance of DaneLookup.                                         *)
EXTENDS DaneLookup, TLC

CONSTANTS h1, h2, h3

MCHosts == {h1, h2, h3}

(* Three hosts keep two workers busy.  The TTLs differ where it tells two  *)
(* hosts apart.                                                            *)
World(mayRetry, hosts, inc, k1, k2, k3) ==
  [hosts |-> hosts, incompl |-> inc,
   kind |-> (h1 :> k1) @@ (h2 :> k2) @@ (h3 :> k3),
   mxTTL |-> (h1 :> 2) @@ (h2 :> 3) @@ (h3 :> 3),
   tlsaTTL |-> (h1 :> 3) @@ (h2 :> 1) @@ (h3 :> 2),
   mayRetry |-> mayRetry]

MCWorlds ==
  {World(TRUE, {}, FALSE, "none", "none", "none"),
   World(TRUE, {h1}, FALSE, "usable", "none", "none"),
   World(FALSE, {h1, h2}, FALSE, "usable", "unsigned", "none"),
   World(TRUE, {h1, h2}, FALSE, "usable", "unusable", "none"),
   World(FALSE, {h1}, FALSE, "unsigned", "none", "none"),
   World(FALSE, {h1, h2}, TRUE, "usable", "usable", "none"),
   World(FALSE, {h1, h2, h3}, FALSE, "usable", "none", "unsigned"),
   World(FALSE, {h1, h2, h3}, FALSE, "usable", "usable", "usable")}
=============================================================================
