------------------------------ MODULE CacheLimit ------------------------------
(***************************************************************************)
(* How many domains the cache holds and how often each was asked for.      *)
(* Connections count a hit in cacheHitCounters, beside the entry, and a    *)
(* lookup in the entry they store; flushCacheHitCounters and               *)
(* discardCachedPolicyState move the one into the other; tidyCache evicts  *)
(* the least used entries once there are more than CACHE_MAX_ENTRIES.      *)
(* Everybody works on copies made earlier, and nobody holds a lock over    *)
(* two of these steps but enforceCacheLimit, which lets one tidyCache of   *)
(* its own run at a time.                                                  *)
(*                                                                         *)
(* Of an entry only its kind and its Counter matter here. Which entries    *)
(* have expired is left open, and so is the order in which entries are     *)
(* evicted: how many are is what the limit depends on.                     *)
(***************************************************************************)
EXTENDS Integers, FiniteSets

CONSTANTS
  Keys,
  Conns,                        \* connections
  Workers,                      \* the prefetch loop's looks at an entry, and its workers
  Tidiers,                      \* the other callers of tidyCache, and purgeCache
  CACHE_MAX_ENTRIES, CACHE_PRUNE_TARGET,
  Casts,                        \* the keys, actors and bounds of a behaviour
  MaxHits, MaxStores            \* the largest bounds of a cast

Actors == Conns \cup Workers \cup Tidiers

ASSUME LimitAssumption ==
  /\ CACHE_PRUNE_TARGET \in Nat
  /\ CACHE_MAX_ENTRIES \in Nat /\ CACHE_MAX_ENTRIES >= CACHE_PRUNE_TARGET
  /\ MaxHits \in Nat /\ MaxStores \in Nat
  /\ Keys # {} /\ IsFiniteSet(Keys) /\ IsFiniteSet(Actors)
  /\ Casts \subseteq [keys : SUBSET Keys, loaded : SUBSET Keys, actors : SUBSET Actors,
                      hits : 0 .. MaxHits, stores : 0 .. MaxStores]
  (* What was loaded has been through tidyCache before anything is served;  *)
  (* no behaviour begins with statistics that it left above the limit.      *)
  /\ \A c \in Casts : Cardinality(c.loaded) <= CACHE_MAX_ENTRIES

NoCounter == 0
Counters == 1 .. MaxHits        \* the counters ever made, in that order

VARIABLES
  cast,
  kind,                         \* polCache: what the entry of a key holds, if it has one
  count,                        \* polCache: the Counter of the entry
  slot,                         \* cacheHitCounters: the counter of a key
  value,                        \* the value of a counter
  made,                         \* how many counters were made
  locked,                       \* cachePruneMu
  proc,                         \* per actor: where it is, and its copies
  added,                        \* hits begun and lookups stored so far
  uses,                         \* ghost: how often a key was asked for
  unseen                        \* ghost: entries the last prune did not get to judge

counters == <<slot, value, made>>
vars == <<cast, kind, count, counters, locked, proc, added, uses, unseen>>

Places == {"idle", "hit", "add", "lookup", "drain", "set", "enforce", "trylock", "recheck",
           "flush", "update", "clean", "delete", "items", "expire", "evict",
           "holding", "discard", "keep", "done"}

(* The copies an actor works with: key; n, the counter it carries; the      *)
(* counter object it loaded; keys still to be visited (todo), the keys of   *)
(* tidyCache's list (judged), and those keys whose pointer in the list is   *)
(* still the one in the cache (fresh); where cleanup returns to (then);     *)
(* whether it holds cachePruneMu (prune).                                   *)
Idle == [pc |-> "idle", key |-> CHOOSE k \in Keys : TRUE, n |-> 0, counter |-> NoCounter,
         todo |-> {}, judged |-> {}, fresh |-> {}, then |-> "idle", prune |-> FALSE]

At(a, pc) == a \in cast.actors /\ proc[a].pc = pc

Cached == {k \in Keys : kind[k] # "absent"}

---------------------------------------------------------------------------
(* polCache.Set, Update and Remove of one key, and what they do to copies.   *)

(* A list made earlier no longer holds the pointer that is in the cache.     *)
Replace(p, k) == [a \in Actors |-> [p[a] EXCEPT !.fresh = @ \ {k}]]

(* An entry is not in the list a prune judges if it came after the list was  *)
(* made, or is discarded from it. Once the cache is within its limit nothing *)
(* is left to be judged.                                                     *)
Unjudged(k) ==
  kind[k] = "absent" \/ \E a \in Actors : proc[a].pc = "expire" /\ k \in proc[a].todo

Put(k, what, n) ==
  /\ kind' = [kind EXCEPT ![k] = what]
  /\ count' = [count EXCEPT ![k] = n]
  /\ unseen' = IF Cardinality(Cached \cup {k}) <= CACHE_MAX_ENTRIES THEN {}
               ELSE IF Unjudged(k) THEN unseen \cup {k} ELSE unseen

Remove(k) ==
  /\ kind' = [kind EXCEPT ![k] = "absent"]
  /\ count' = [count EXCEPT ![k] = 0]
  /\ unseen' = IF Cardinality(Cached \ {k}) <= CACHE_MAX_ENTRIES THEN {} ELSE unseen \ {k}

SameEntries == UNCHANGED <<kind, count, unseen>>

(* counter.Swap(0)                                                           *)
Drained(c) == IF c = NoCounter THEN 0 ELSE value[c]
SwapAsLoad(c) == value' = value
Swap(c) == value' = IF c = NoCounter THEN value ELSE [value EXCEPT ![c] = 0]

---------------------------------------------------------------------------
(* A connection: tryCachedPolicy, a hit and its counter.                     *)

Hit(a) ==
  /\ a \in Conns /\ At(a, "idle")
  /\ added.hits < cast.hits
  /\ \E k \in cast.keys :
       /\ kind[k] \in {"none", "policy"}
       /\ proc' = [proc EXCEPT ![a].pc = "hit", ![a].key = k]
  /\ added' = [added EXCEPT !.hits = @ + 1]
  /\ SameEntries /\ UNCHANGED <<cast, counters, locked, uses>>

(* addCacheHitCounter: LoadOrStore, and then Add, on whatever it returned.   *)
LoadOrStore(a) ==
  /\ At(a, "hit")
  /\ LET k == proc[a].key
         c == IF slot[k] = NoCounter THEN made + 1 ELSE slot[k]
     IN  /\ slot' = [slot EXCEPT ![k] = c]
         /\ made' = IF slot[k] = NoCounter THEN made + 1 ELSE made
         /\ proc' = [proc EXCEPT ![a].pc = "add", ![a].counter = c]
  /\ SameEntries /\ UNCHANGED <<cast, value, locked, added, uses>>

AddHit(a) ==
  /\ At(a, "add")
  /\ value' = [value EXCEPT ![proc[a].counter] = @ + 1]
  /\ uses' = [uses EXCEPT ![proc[a].key] = @ + 1]
  /\ proc' = [proc EXCEPT ![a] = Idle]
  /\ SameEntries /\ UNCHANGED <<cast, slot, made, locked, added>>

(* A miss: the entry is read, expired or not, and the lookup begins.         *)
Miss(a) ==
  /\ a \in Conns /\ At(a, "idle")
  /\ added.stores < cast.stores
  /\ \E k \in cast.keys :
       proc' = [proc EXCEPT ![a].pc = "lookup", ![a].key = k, ![a].n = count[k]]
  /\ added' = [added EXCEPT !.stores = @ + 1]
  /\ SameEntries /\ UNCHANGED <<cast, counters, locked, uses>>

(* drainCacheHitCounter: Load, and then Swap, for the entry to be stored.    *)
Load(a) ==
  /\ At(a, "lookup")
  /\ proc' = [proc EXCEPT ![a].pc = "drain", ![a].counter = slot[proc[a].key]]
  /\ SameEntries /\ UNCHANGED <<cast, counters, locked, added, uses>>

DrainByLoad(a) ==
  /\ At(a, "drain")
  /\ proc' = [proc EXCEPT ![a].pc = "set", ![a].n = @ + Drained(proc[a].counter) + 1]
  /\ SameEntries /\ UNCHANGED <<cast, counters, locked, added, uses>>

Drain(a) ==
  /\ At(a, "drain")
  /\ Swap(proc[a].counter)
  /\ proc' = [proc EXCEPT ![a].pc = "set", ![a].n = @ + Drained(proc[a].counter) + 1]
  /\ SameEntries /\ UNCHANGED <<cast, slot, made, locked, added, uses>>

Store(a) ==
  /\ At(a, "set")
  /\ LET k == proc[a].key
     IN  /\ \E what \in {"none", "policy"} : Put(k, what, proc[a].n)
         /\ uses' = [uses EXCEPT ![k] = @ + 1]
         /\ proc' = [Replace(proc, k) EXCEPT ![a] = [Idle EXCEPT !.pc = "enforce"]]
  /\ UNCHANGED <<cast, counters, locked, added>>

---------------------------------------------------------------------------
(* enforceCacheLimit: Len, TryLock, Len again, tidyCache, Unlock.            *)

Over == Cardinality(Cached) > CACHE_MAX_ENTRIES

BeginFlush(a) == [proc EXCEPT ![a].pc = "flush", ![a].then = "items",
                              ![a].todo = {k \in Keys : slot[k] # NoCounter}]

Finish(a) ==
  /\ proc' = [proc EXCEPT ![a] = Idle]
  /\ locked' = IF proc[a].prune THEN FALSE ELSE locked

Enforce(a) ==
  /\ At(a, "enforce")
  /\ proc' = IF Over THEN [proc EXCEPT ![a].pc = "trylock"] ELSE [proc EXCEPT ![a] = Idle]
  /\ SameEntries /\ UNCHANGED <<cast, counters, locked, added, uses>>

TryLock(a) ==
  /\ At(a, "trylock")
  /\ locked' = TRUE
  /\ proc' = IF locked THEN [proc EXCEPT ![a] = Idle]
             ELSE [proc EXCEPT ![a].pc = "recheck", ![a].prune = TRUE]
  /\ SameEntries /\ UNCHANGED <<cast, counters, added, uses>>

Recheck(a) ==
  /\ At(a, "recheck")
  /\ IF Over THEN proc' = BeginFlush(a) /\ UNCHANGED locked ELSE Finish(a)
  /\ SameEntries /\ UNCHANGED <<cast, counters, added, uses>>

---------------------------------------------------------------------------
(* tidyCache, and purgeCache, which flushes only.                            *)

TidyCache(a) ==
  /\ a \in Tidiers /\ At(a, "idle")
  /\ proc' = BeginFlush(a)
  /\ SameEntries /\ UNCHANGED <<cast, counters, locked, added, uses>>

PurgeCache(a) ==
  /\ a \in Tidiers /\ At(a, "idle")
  /\ kind' = [k \in Keys |-> "absent"]
  /\ count' = [k \in Keys |-> 0]
  /\ unseen' = {}
  /\ proc' = [b \in Actors |-> [BeginFlush(a)[b] EXCEPT !.fresh = {},
                                                        !.then = IF b = a THEN "idle" ELSE @]]
  /\ UNCHANGED <<cast, counters, locked, added, uses>>

(* flushCacheHitCounters, one counter at a time. A counter deleted since the *)
(* Range began is passed over. What follows the last one is in .then.        *)
FlushCacheHitCounters(a) ==
  /\ At(a, "flush")
  /\ \E k \in proc[a].todo :
       LET c == slot[k] IN
       /\ Swap(c)
       /\ proc' = [proc EXCEPT ![a].todo = @ \ {k}, ![a].key = k, ![a].n = Drained(c),
                               ![a].pc = IF c = NoCounter THEN "flush"
                                         ELSE IF value[c] = 0 THEN "clean" ELSE "update"]
  /\ SameEntries /\ UNCHANGED <<cast, slot, made, locked, added, uses>>

FlushUpdate(a) ==
  /\ At(a, "update")
  /\ LET k == proc[a].key IN
     IF kind[k] = "absent"
     THEN SameEntries /\ proc' = [proc EXCEPT ![a].pc = "clean"]
     ELSE /\ Put(k, kind[k], count[k] + proc[a].n)
          /\ proc' = [Replace(proc, k) EXCEPT ![a].pc = "clean"]
  /\ UNCHANGED <<cast, counters, locked, added, uses>>

(* cleanupCacheHitCounterIfUnused: the counter is read (twice) and found     *)
(* zero, the entry without a policy, and then the counter of that key is     *)
(* deleted, be it the one that was read or not, still zero or not.           *)
AfterClean(p) ==
  [p EXCEPT !.pc = IF p.then \in {"items", "idle"} THEN "flush" ELSE p.then,
            !.key = Idle.key, !.n = 0]

CleanupCheck(a) ==
  /\ At(a, "clean")
  /\ LET k == proc[a].key
         unused == slot[k] # NoCounter /\ Drained(slot[k]) = 0 /\ kind[k] # "policy"
     IN  proc' = [proc EXCEPT ![a] = IF unused THEN [@ EXCEPT !.pc = "delete"] ELSE AfterClean(@)]
  /\ SameEntries /\ UNCHANGED <<cast, counters, locked, added, uses>>

CleanupDelete(a) ==
  /\ At(a, "delete")
  /\ slot' = [slot EXCEPT ![proc[a].key] = NoCounter]
  /\ proc' = [proc EXCEPT ![a] = AfterClean(@)]
  /\ SameEntries /\ UNCHANGED <<cast, value, made, locked, added, uses>>

FlushEnd(a) ==
  /\ At(a, "flush") /\ proc[a].todo = {}
  /\ IF proc[a].then = "idle" THEN Finish(a)
     ELSE proc' = [proc EXCEPT ![a].pc = "items"] /\ UNCHANGED locked
  /\ SameEntries /\ UNCHANGED <<cast, counters, added, uses>>

(* The list, and which of its entries have expired (an entry that holds      *)
(* counts only does not). What is listed here is judged.                     *)
Items(a) ==
  /\ At(a, "items")
  /\ \E expired \in SUBSET {k \in Keys : kind[k] \in {"none", "policy"}} :
       proc' = [proc EXCEPT ![a].pc = "expire", ![a].then = "expire", ![a].fresh = Cached,
                            ![a].todo = expired, ![a].judged = Cached \ expired]
  /\ unseen' = {}
  /\ UNCHANGED <<cast, kind, count, counters, locked, added, uses>>

(* discardCachedPolicyStateIfCurrent, under the cache's lock. An entry that  *)
(* was replaced joins the list with its new value; one that was discarded    *)
(* leaves the list, though its counts may stay in the cache.                 *)
Expire(a) ==
  /\ At(a, "expire")
  /\ \E k \in proc[a].todo :
       IF k \in proc[a].fresh
       THEN LET n == count[k] + Drained(slot[k]) IN
            /\ Swap(slot[k])
            /\ IF n = 0 THEN Remove(k) ELSE Put(k, "stats", n)
            /\ proc' = [Replace(proc, k) EXCEPT ![a].pc = "clean", ![a].key = k, ![a].todo = @ \ {k}]
       ELSE LET current == {k} \cap Cached IN
            /\ proc' = [proc EXCEPT ![a].todo = @ \ {k}, ![a].judged = @ \cup current,
                                    ![a].fresh = @ \cup current]
            /\ SameEntries /\ UNCHANGED value
  /\ UNCHANGED <<cast, slot, made, locked, added, uses>>

(* partitionCacheEntriesForLimit: how many of n entries go.                  *)
EvictCountOffByOne(n) == IF n <= CACHE_MAX_ENTRIES + 1 THEN 0 ELSE n - CACHE_PRUNE_TARGET
EvictCount(n) == IF n <= CACHE_MAX_ENTRIES THEN 0 ELSE n - CACHE_PRUNE_TARGET

Partition(a) ==
  /\ At(a, "expire") /\ proc[a].todo = {}
  /\ \E evicted \in SUBSET proc[a].judged :
       /\ Cardinality(evicted) = EvictCount(Cardinality(proc[a].judged))
       /\ proc' = [proc EXCEPT ![a].pc = "evict", ![a].todo = evicted]
  /\ SameEntries /\ UNCHANGED <<cast, counters, locked, added, uses>>

(* removeCacheEntryIfCurrent, with the deletion of the hit counter.          *)
Evict(a) ==
  /\ At(a, "evict")
  /\ \E k \in proc[a].todo :
       IF k \in proc[a].fresh
       THEN /\ Remove(k)
            /\ slot' = [slot EXCEPT ![k] = NoCounter]
            /\ proc' = [Replace(proc, k) EXCEPT ![a].todo = @ \ {k}]
       ELSE /\ proc' = [proc EXCEPT ![a].todo = @ \ {k}]
            /\ unseen' = IF Over THEN unseen \cup ({k} \cap Cached) ELSE {}
            /\ UNCHANGED <<kind, count, slot>>
  /\ UNCHANGED <<cast, value, made, locked, added, uses>>

TidyEnd(a) ==
  /\ At(a, "evict") /\ proc[a].todo = {}
  /\ Finish(a)
  /\ SameEntries /\ UNCHANGED <<cast, counters, added, uses>>

---------------------------------------------------------------------------
(* The prefetch loop and its workers: an entry is read, and later its        *)
(* refreshed copy is stored, without enforceCacheLimit, or the entry         *)
(* discarded (discardCachedPolicyState), or first one and then the other.    *)

Get(a) ==
  /\ a \in Workers /\ At(a, "idle")
  /\ \E k \in cast.keys :
       /\ kind[k] \in {"none", "policy"}
       /\ proc' = [proc EXCEPT ![a].pc = "holding", ![a].key = k, ![a].n = count[k]]
  /\ SameEntries /\ UNCHANGED <<cast, counters, locked, added, uses>>

Refresh(a) ==
  /\ At(a, "holding")
  /\ LET k == proc[a].key IN
     /\ \E what \in {"none", "policy"} : Put(k, what, proc[a].n)
     /\ \/ proc' = [Replace(proc, k) EXCEPT ![a] = Idle]
        \/ proc' = [Replace(proc, k) EXCEPT ![a].pc = "discard"]
  /\ UNCHANGED <<cast, counters, locked, added, uses>>

Discard(a) ==
  /\ a \in Workers /\ (At(a, "holding") \/ At(a, "discard"))
  /\ LET c == slot[proc[a].key] IN
     /\ Swap(c)
     /\ proc' = [proc EXCEPT ![a].pc = "keep", ![a].n = @ + Drained(c)]
  /\ SameEntries /\ UNCHANGED <<cast, slot, made, locked, added, uses>>

KeepCounter(a) ==
  /\ At(a, "keep")
  /\ LET k == proc[a].key
         n == proc[a].n
     IN  /\ IF n = 0 THEN Remove(k) ELSE Put(k, "stats", n)
         /\ proc' = [Replace(proc, k) EXCEPT ![a] = [Idle EXCEPT !.pc = "clean", !.key = k, !.then = "done"]]
  /\ UNCHANGED <<cast, counters, locked, added, uses>>

CleanupEnd(a) ==
  /\ At(a, "done")
  /\ proc' = [proc EXCEPT ![a] = Idle]
  /\ SameEntries /\ UNCHANGED <<cast, counters, locked, added, uses>>

---------------------------------------------------------------------------
Init ==
  /\ cast \in Casts
  /\ kind = [k \in Keys |-> IF k \in cast.loaded THEN "policy" ELSE "absent"]
  /\ count = [k \in Keys |-> 0]
  /\ slot = [k \in Keys |-> NoCounter]
  /\ value = [c \in Counters |-> 0]
  /\ made = 0
  /\ locked = FALSE
  /\ proc = [a \in Actors |-> Idle]
  /\ added = [hits |-> 0, stores |-> 0]
  /\ uses = [k \in Keys |-> 0]
  /\ unseen = {}

Connection(a) ==
  \/ Hit(a) \/ LoadOrStore(a) \/ AddHit(a)
  \/ Miss(a) \/ Load(a) \/ Drain(a) \/ Store(a)
  \/ Enforce(a) \/ TryLock(a) \/ Recheck(a)

Tidy(a) ==
  \/ TidyCache(a) \/ PurgeCache(a)
  \/ FlushCacheHitCounters(a) \/ FlushUpdate(a) \/ FlushEnd(a)
  \/ CleanupCheck(a) \/ CleanupDelete(a)
  \/ Items(a) \/ Expire(a) \/ Partition(a) \/ Evict(a) \/ TidyEnd(a)

Prefetch(a) == Get(a) \/ Refresh(a) \/ Discard(a) \/ KeepCounter(a) \/ CleanupEnd(a)

Next == \E a \in Actors : Connection(a) \/ Tidy(a) \/ Prefetch(a)

Spec == Init /\ [][Next]_vars

---------------------------------------------------------------------------
(* The counters are made at most once per hit, and every copy an actor holds *)
(* has its type.                                                             *)
TypeOK ==
  /\ cast \in Casts
  /\ kind \in [Keys -> {"absent", "stats", "none", "policy"}]
  /\ count \in [Keys -> 0 .. MaxHits + MaxStores]
  /\ slot \in [Keys -> {NoCounter} \cup Counters]
  /\ value \in [Counters -> 0 .. MaxHits]
  /\ made \in 0 .. MaxHits
  /\ locked \in BOOLEAN
  /\ \A a \in Actors :
       /\ proc[a].pc \in Places /\ proc[a].then \in Places
       /\ proc[a].key \in Keys /\ proc[a].n \in 0 .. MaxHits + MaxStores
       /\ proc[a].counter \in {NoCounter} \cup Counters
       /\ proc[a].fresh \subseteq Keys /\ proc[a].todo \subseteq Keys
       /\ proc[a].judged \subseteq Keys
  /\ uses \in [Keys -> 0 .. MaxHits + MaxStores]
  /\ unseen \subseteq Cached

(* No use of a domain is counted twice: what its entry and its hit counter   *)
(* say together, with what a flush is just moving from the one to the other, *)
(* never exceeds the number of times it was asked for, however the stores,   *)
(* flushes, discards, evictions and prefetches interleave with their copies. *)
Moving(k) ==
  {a \in Actors : proc[a].pc = "update" /\ proc[a].key = k}

NoUseCountedTwice ==
  \A k \in Keys :
    /\ count[k] + Drained(slot[k]) <= uses[k]
    /\ \A a \in Moving(k) : count[k] + Drained(slot[k]) + proc[a].n <= uses[k]

(* The limit: whenever no prune is going on and no store is on its way to    *)
(* one, more than CACHE_MAX_ENTRIES entries are in the cache only because of *)
(* entries that the last prune did not get to judge: entries added after it  *)
(* had listed the cache, entries it discarded but whose counts it kept, and  *)
(* entries replaced before it could remove them.                             *)
Settled == \A a \in Actors : proc[a].pc \in
  {"idle", "hit", "add", "lookup", "drain", "set", "holding", "discard", "keep"}

OverflowIsUnjudged ==
  Settled => Cardinality(Cached \ unseen) <= CACHE_MAX_ENTRIES

=============================================================================
