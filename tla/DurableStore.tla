--------------------------- MODULE DurableStore ----------------------------
(***************************************************************************)
(* What the cache of internal/utils/cache promises to the daemon, without  *)
(* its locks, savers and files: a map that changes, is made durable now    *)
(* and then, and comes back after a restart as one of its versions that    *)
(* is not older than the last one a save has acknowledged.                 *)
(***************************************************************************)
EXTENDS Naturals

CONSTANTS Maps, EmptyMap

VARIABLES
  current,        \* the version in memory: [content, gen]
  revivable,      \* the versions a restart may bring back
  promised        \* the generation the last acknowledged save promised

vars == <<current, revivable, promised>>

Fresh(v) == [v EXCEPT !.gen = 0]

Init ==
  /\ current = [content |-> EmptyMap, gen |-> 0]
  /\ revivable = {current}
  /\ promised = 0

(* The new version may be saved from now on; older ones may be given up.   *)
Change ==
  /\ \E m \in Maps : current' = [content |-> m, gen |-> current.gen + 1]
  /\ revivable' \subseteq revivable \cup {current'} /\ current' \in revivable'
  /\ UNCHANGED promised

(* Saves give versions up, for good, and acknowledge it.                   *)
Settle ==
  /\ UNCHANGED current
  /\ revivable' \subseteq revivable /\ current \in revivable'
  /\ promised <= promised' /\ \A v \in revivable' : promised' <= v.gen

(* The process ends; a new one loads a version.                            *)
Restart ==
  /\ \E v \in revivable : current' = Fresh(v)
  /\ revivable' \subseteq {Fresh(v) : v \in revivable} /\ current' \in revivable'
  /\ promised' = 0

(* What the disk holds cannot be read: the new process begins with a       *)
(* change, so that a save replaces it.                                     *)
Unreadable ==
  /\ current' = [content |-> EmptyMap, gen |-> 1]
  /\ revivable' \subseteq {Fresh(v) : v \in revivable}
                            \cup {current', [content |-> EmptyMap, gen |-> 0]}
  /\ current' \in revivable'
  /\ promised' = 0

Next == Change \/ Settle \/ Restart \/ Unreadable

Spec == Init /\ [][Next]_vars
============================================================================
