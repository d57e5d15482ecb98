--------------------------- MODULE CacheLimitProofs ---------------------------
(***************************************************************************)
(* Proofs about CacheLimit, for any number of domains, connections,        *)
(* prefetch workers and prunes: the limit is kept, no use of a domain is   *)
(* counted twice, and all counts are within their bounds.                  *)
(***************************************************************************)
EXTENDS CacheLimit, TLAPS

---------------------------------------------------------------------------
(* What the proofs use of finite sets.  The library's theorems are at hand *)
(* only at the end of the module, where they are shown to give this: in    *)
(* the scope of every step they would only slow the provers down.          *)

FiniteSetFacts ==
  /\ IsFiniteSet({}) /\ Cardinality({}) = 0
  /\ \A S : IsFiniteSet(S) => Cardinality(S) \in Nat /\ (Cardinality(S) = 0 <=> S = {})
  /\ \A S : \A T \in SUBSET S :
       IsFiniteSet(S) => IsFiniteSet(T) /\ Cardinality(T) <= Cardinality(S)
  /\ \A S, x : IsFiniteSet(S) =>
       /\ Cardinality(S \cup {x}) = IF x \in S THEN Cardinality(S) ELSE Cardinality(S) + 1
       /\ Cardinality(S \ {x}) = IF x \in S THEN Cardinality(S) - 1 ELSE Cardinality(S)
  /\ \A S, T : IsFiniteSet(S) /\ IsFiniteSet(T) =>
       /\ Cardinality(S \cup T) = Cardinality(S) + Cardinality(T) - Cardinality(S \cap T)
       /\ Cardinality(S \ T) = Cardinality(S) - Cardinality(S \cap T)
  /\ \A m \in Nat : IsFiniteSet(1 .. m) /\ Cardinality(1 .. m) = m

LEMMA EmptyCount ==
  ASSUME FiniteSetFacts
  PROVE  /\ IsFiniteSet({}) /\ Cardinality({}) = 0
         /\ \A S : IsFiniteSet(S) => (Cardinality(S) = 0 <=> S = {})
  BY Zenon DEF FiniteSetFacts

LEMMA SubsetCount ==
  ASSUME FiniteSetFacts, NEW S, IsFiniteSet(S), NEW T \in SUBSET S
  PROVE  IsFiniteSet(T) /\ Cardinality(T) <= Cardinality(S)
  BY Zenon DEF FiniteSetFacts

LEMMA CountType ==
  ASSUME FiniteSetFacts, NEW S, IsFiniteSet(S)
  PROVE  Cardinality(S) \in Nat
  BY Zenon DEF FiniteSetFacts

LEMMA ElementCount ==
  ASSUME FiniteSetFacts, NEW S, IsFiniteSet(S), NEW x
  PROVE  /\ Cardinality(S \cup {x}) = IF x \in S THEN Cardinality(S) ELSE Cardinality(S) + 1
         /\ Cardinality(S \ {x}) = IF x \in S THEN Cardinality(S) - 1 ELSE Cardinality(S)
  BY Zenon DEF FiniteSetFacts

LEMMA UnionCount ==
  ASSUME FiniteSetFacts, NEW S, IsFiniteSet(S), NEW T, IsFiniteSet(T)
  PROVE  /\ Cardinality(S \cup T) = Cardinality(S) + Cardinality(T) - Cardinality(S \cap T)
         /\ Cardinality(S \ T) = Cardinality(S) - Cardinality(S \cap T)
<1>1. \A A, B : IsFiniteSet(A) /\ IsFiniteSet(B) =>
        /\ Cardinality(A \cup B) = Cardinality(A) + Cardinality(B) - Cardinality(A \cap B)
        /\ Cardinality(A \ B) = Cardinality(A) - Cardinality(A \cap B)
  BY Zenon DEF FiniteSetFacts
<1> QED
  BY <1>1, Zenon

LEMMA IntervalCount ==
  ASSUME FiniteSetFacts, NEW m \in Nat
  PROVE  IsFiniteSet(1 .. m) /\ Cardinality(1 .. m) = m
  BY Zenon DEF FiniteSetFacts

---------------------------------------------------------------------------
(* The shape of the state: types, without the bounds of TypeOK.            *)

Returns == {"idle", "items", "expire", "done"}

Copies == [pc : Places, key : Keys, n : Nat, counter : 0 .. MaxHits,
           todo : SUBSET Keys, judged : SUBSET Keys, fresh : SUBSET Keys,
           then : Returns, prune : BOOLEAN]

(* The places of an actor that carries no count.                           *)
EmptyHanded == {"idle", "hit", "add", "enforce", "trylock", "recheck",
                "flush", "items", "expire", "evict", "done"}

(* A counter in use exists, and who carries no count carries none.         *)
Hands ==
  \A a \in Actors :
    /\ proc[a].counter <= made
    /\ proc[a].pc = "add" => proc[a].counter # NoCounter
    /\ proc[a].pc \in EmptyHanded => proc[a].n = 0

Shape ==
  /\ cast \in Casts
  /\ kind \in [Keys -> {"absent", "stats", "none", "policy"}]
  /\ count \in [Keys -> Nat]
  /\ slot \in [Keys -> 0 .. MaxHits] /\ \A k \in Keys : slot[k] <= made
  /\ value \in [Counters -> Nat]
  /\ made \in 0 .. MaxHits
  /\ locked \in BOOLEAN
  /\ proc \in [Actors -> Copies]
  /\ Hands
  /\ added \in [hits : Nat, stores : Nat]
  /\ uses \in [Keys -> Nat]
  /\ unseen \subseteq Cached

(* Who is on the way to make a counter, to count a hit, to count anything. *)
Within(places) == {a \in Actors : proc[a].pc \in places}
Making == Within({"hit"})
Hitting == Within({"hit", "add"})
Asking == Within({"hit", "add", "lookup", "drain", "set"})

(* Every counter made, every unit in a counter and every use counted was   *)
(* begun by a hit or a lookup of its own, and whoever is still on the way  *)
(* is yet to be counted.                                                   *)
Counting ==
  /\ added.hits <= cast.hits /\ added.stores <= cast.stores
  /\ made + Cardinality(Making) <= added.hits
  /\ \A c \in Counters : value[c] + Cardinality(Hitting) <= added.hits
  /\ \A c \in Counters : c > made => value[c] = 0
  /\ \A k \in Keys : uses[k] + Cardinality(Asking) <= added.hits + added.stores

LEMMA IdleType ==
  /\ Idle \in Copies
  /\ Idle.pc = "idle" /\ Idle.n = 0 /\ Idle.counter = NoCounter /\ Idle.todo = {}
<1>1. (CHOOSE k \in Keys : TRUE) \in Keys
  BY LimitAssumption
<1> QED
  BY <1>1, LimitAssumption DEF Idle, Copies, Places, Returns, NoCounter

LEMMA PlaceNames ==
  /\ {"idle", "hit", "add", "lookup", "drain", "set"} \subseteq Places
  /\ {"enforce", "trylock", "recheck", "flush", "update", "clean"} \subseteq Places
  /\ {"delete", "items", "expire", "evict", "holding", "discard", "keep", "done"} \subseteq Places
  /\ {"idle", "items", "expire", "done"} \subseteq Returns
  BY DEF Places, Returns

LEMMA CastType ==
  ASSUME cast \in Casts
  PROVE  cast.keys \subseteq Keys /\ cast.hits \in 0 .. MaxHits /\ cast.stores \in 0 .. MaxStores
  BY LimitAssumption, Zenon

---------------------------------------------------------------------------
(* What a step does to the copies: where its actor goes, with which key,   *)
(* count and counter, while everybody else stays as they are, but for the  *)
(* pointers that were replaced.                                            *)

Kept(b) ==
  /\ proc'[b].pc = proc[b].pc /\ proc'[b].key = proc[b].key
  /\ proc'[b].n = proc[b].n /\ proc'[b].counter = proc[b].counter
  /\ proc'[b].todo = proc[b].todo /\ proc'[b].judged = proc[b].judged
  /\ proc'[b].then = proc[b].then

Moves(a, pc, key, n, counter) ==
  /\ proc' \in [Actors -> Copies]
  /\ proc'[a].pc = pc /\ proc'[a].key = key /\ proc'[a].n = n /\ proc'[a].counter = counter
  /\ \A b \in Actors \ {a} : Kept(b)

LEMMA Update ==
  ASSUME proc \in [Actors -> Copies], NEW a \in Actors, NEW r \in Copies,
         proc' = [proc EXCEPT ![a] = r]
  PROVE  Moves(a, r.pc, r.key, r.n, r.counter) /\ proc'[a] = r
  BY DEF Moves, Kept

LEMMA ReplaceType ==
  ASSUME proc \in [Actors -> Copies], NEW k \in Keys
  PROVE  /\ Replace(proc, k) \in [Actors -> Copies]
         /\ \A b \in Actors : Replace(proc, k)[b] = [proc[b] EXCEPT !.fresh = @ \ {k}]
  BY DEF Replace, Copies

LEMMA UpdateReplaced ==
  ASSUME proc \in [Actors -> Copies], NEW a \in Actors, NEW r \in Copies, NEW k \in Keys,
         proc' = [Replace(proc, k) EXCEPT ![a] = r]
  PROVE  Moves(a, r.pc, r.key, r.n, r.counter) /\ proc'[a] = r
<1>1. proc' \in [Actors -> Copies] /\ proc'[a] = r
  BY ReplaceType, Zenon
<1>2. ASSUME NEW b \in Actors \ {a} PROVE Kept(b)
  <2>1. proc'[b] = [proc[b] EXCEPT !.fresh = @ \ {k}]
    BY ReplaceType, Zenon
  <2> QED
    BY <2>1, ZenonT(60) DEF Kept, Copies
<1> QED
  BY <1>1, <1>2, Zenon DEF Moves

LEMMA DrainedType ==
  ASSUME Shape, NEW c \in 0 .. MaxHits
  PROVE  Drained(c) \in Nat
<1>1. c # NoCounter => c \in Counters
  BY LimitAssumption DEF Counters, NoCounter
<1>2. 0 \in Nat
  OBVIOUS
<1> QED
  BY <1>1, <1>2, ZenonT(60) DEF Shape, Drained

LEMMA AfterCleanType ==
  ASSUME NEW p \in Copies
  PROVE  /\ AfterClean(p) \in Copies
         /\ AfterClean(p).pc = IF p.then \in {"items", "idle"} THEN "flush" ELSE p.then
         /\ AfterClean(p).pc \in {"flush", "expire", "done"}
         /\ AfterClean(p).key = Idle.key
         /\ AfterClean(p).n = 0 /\ AfterClean(p).counter = p.counter
         /\ AfterClean(p).todo = p.todo /\ AfterClean(p).judged = p.judged
         /\ AfterClean(p).then = p.then
<1>1. p.then \in Returns /\ Idle.key \in Keys
  BY IdleType DEF Copies
<1> DEFINE q == IF p.then \in {"items", "idle"} THEN "flush" ELSE p.then
           r == [p EXCEPT !.pc = q, !.key = Idle.key, !.n = 0]
<1>2. q \in {"flush", "expire", "done"}
  BY <1>1 DEF Returns
<1>3. q \in Places
  BY <1>2, PlaceNames, Zenon
<1>4. AfterClean(p) = r
  BY DEF AfterClean
<1> HIDE DEF q
<1>5. r \in Copies
  BY <1>1, <1>3, Zenon DEF Copies
<1>6. /\ r.pc = q /\ r.key = Idle.key /\ r.n = 0 /\ r.counter = p.counter
      /\ r.todo = p.todo /\ r.judged = p.judged /\ r.then = p.then
  BY DEF Copies
<1> HIDE DEF r
<1> QED
  BY <1>2, <1>4, <1>5, <1>6 DEF q

LEMMA ActorCopies ==
  ASSUME Shape, NEW a \in Actors
  PROVE  /\ proc[a] \in Copies /\ proc[a].key \in Keys /\ proc[a].n \in Nat
         /\ proc[a].counter \in 0 .. MaxHits /\ slot[proc[a].key] \in 0 .. MaxHits
  BY DEF Shape, Copies

LEMMA HitEffect ==
  ASSUME Shape, NEW a \in Actors, Hit(a)
  PROVE  \E k \in Keys : Moves(a, "hit", k, proc[a].n, proc[a].counter)
<1>1. PICK k \in cast.keys : proc' = [proc EXCEPT ![a].pc = "hit", ![a].key = k]
  BY Zenon DEF Hit
<1>2. /\ k \in Keys /\ proc[a] \in Copies
  BY ActorCopies, CastType DEF Shape
<1> DEFINE r == [proc[a] EXCEPT !.pc = "hit", !.key = k]
<1>3. r \in Copies
  BY <1>2, PlaceNames, Zenon DEF Copies, NoCounter
<1>4. proc' = [proc EXCEPT ![a] = r]
  BY <1>1, Zenon
<1>5. r.pc = "hit" /\ r.key = k /\ r.n = proc[a].n /\ r.counter = proc[a].counter
  BY <1>2 DEF Copies
<1> HIDE DEF r
<1>6. Moves(a, r.pc, r.key, r.n, r.counter) /\ proc'[a] = r
  BY <1>2, <1>3, <1>4, Update, Zenon DEF Shape
<1> QED
  BY <1>2, <1>5, <1>6

LEMMA AddHitEffect ==
  ASSUME Shape, NEW a \in Actors, AddHit(a)
  PROVE  Moves(a, "idle", Idle.key, 0, NoCounter)
<1>1. /\ proc[a] \in Copies /\ proc[a].key \in Keys
  BY ActorCopies
<1> DEFINE r == Idle
<1>2. r \in Copies
  BY <1>1, PlaceNames, IdleType DEF Copies, NoCounter
<1>3. proc' = [proc EXCEPT ![a] = r]
  BY DEF Shape, AddHit
<1>4. r.pc = "idle" /\ r.key = Idle.key /\ r.n = 0 /\ r.counter = NoCounter
  BY <1>1, IdleType DEF Copies
<1> HIDE DEF r
<1>5. Moves(a, r.pc, r.key, r.n, r.counter) /\ proc'[a] = r
  BY <1>1, <1>2, <1>3, Update, Zenon DEF Shape
<1> QED
  BY <1>1, <1>4, <1>5

LEMMA MissEffect ==
  ASSUME Shape, NEW a \in Actors, Miss(a)
  PROVE  \E k \in Keys : Moves(a, "lookup", k, count[k], proc[a].counter)
<1>1. PICK k \in cast.keys : proc' = [proc EXCEPT ![a].pc = "lookup", ![a].key = k, ![a].n = count[k]]
  BY Zenon DEF Miss
<1>2. /\ k \in Keys /\ proc[a] \in Copies
      /\ count[k] \in Nat
  BY ActorCopies, CastType, Zenon DEF Shape
<1> DEFINE r == [proc[a] EXCEPT !.pc = "lookup", !.key = k, !.n = count[k]]
<1>3. r \in Copies
  BY <1>2, PlaceNames, Zenon DEF Copies, NoCounter
<1>4. proc' = [proc EXCEPT ![a] = r]
  BY <1>1, Zenon
<1>5. r.pc = "lookup" /\ r.key = k /\ r.n = count[k] /\ r.counter = proc[a].counter
  BY <1>2 DEF Copies
<1> HIDE DEF r
<1>6. Moves(a, r.pc, r.key, r.n, r.counter) /\ proc'[a] = r
  BY <1>2, <1>3, <1>4, Update, Zenon DEF Shape
<1> QED
  BY <1>2, <1>5, <1>6, Zenon

LEMMA LoadEffect ==
  ASSUME Shape, NEW a \in Actors, Load(a)
  PROVE  Moves(a, "drain", proc[a].key, proc[a].n, slot[proc[a].key])
<1>1. /\ proc[a] \in Copies /\ proc[a].key \in Keys
  BY ActorCopies
<1> DEFINE r == [proc[a] EXCEPT !.pc = "drain", !.counter = slot[proc[a].key]]
<1>2. r \in Copies
  BY <1>1, PlaceNames, ActorCopies, Zenon DEF Copies, NoCounter
<1>3. proc' = [proc EXCEPT ![a] = r]
  BY Zenon DEF Shape, Load
<1>4. r.pc = "drain" /\ r.key = proc[a].key /\ r.n = proc[a].n /\ r.counter = slot[proc[a].key]
  BY <1>1, ActorCopies DEF Copies
<1> HIDE DEF r
<1>5. Moves(a, r.pc, r.key, r.n, r.counter) /\ proc'[a] = r
  BY <1>1, <1>2, <1>3, Update, Zenon DEF Shape
<1> QED
  BY <1>1, <1>4, <1>5

LEMMA DrainEffect ==
  ASSUME Shape, NEW a \in Actors, Drain(a)
  PROVE  Moves(a, "set", proc[a].key, proc[a].n + Drained(proc[a].counter) + 1, proc[a].counter)
<1>1. /\ proc[a] \in Copies /\ proc[a].key \in Keys
      /\ proc[a].n + Drained(proc[a].counter) + 1 \in Nat
  BY ActorCopies, DrainedType
<1> DEFINE r == [proc[a] EXCEPT !.pc = "set", !.n = @ + Drained(proc[a].counter) + 1]
<1>2. r \in Copies
  BY <1>1, PlaceNames, Zenon DEF Copies, NoCounter
<1>3. proc' = [proc EXCEPT ![a] = r]
  BY Zenon DEF Shape, Drain
<1>4. r.pc = "set" /\ r.key = proc[a].key /\ r.n = proc[a].n + Drained(proc[a].counter) + 1
      /\ r.counter = proc[a].counter
  BY <1>1 DEF Copies
<1> HIDE DEF r
<1>5. Moves(a, r.pc, r.key, r.n, r.counter) /\ proc'[a] = r
  BY <1>1, <1>2, <1>3, Update, Zenon DEF Shape
<1> QED
  BY <1>1, <1>4, <1>5

LEMMA StoreEffect ==
  ASSUME Shape, NEW a \in Actors, Store(a)
  PROVE  Moves(a, "enforce", Idle.key, 0, NoCounter)
<1>1. /\ proc[a] \in Copies /\ proc[a].key \in Keys
  BY ActorCopies
<1> DEFINE r == [Idle EXCEPT !.pc = "enforce"]
<1>2. r \in Copies
  BY <1>1, PlaceNames, IdleType DEF Copies, NoCounter
<1>3. proc' = [Replace(proc, proc[a].key) EXCEPT ![a] = r]
  BY <1>1, ReplaceType DEF Shape, Store
<1>4. r.pc = "enforce" /\ r.key = Idle.key /\ r.n = 0 /\ r.counter = NoCounter
  BY <1>1, IdleType DEF Copies
<1> HIDE DEF r
<1>5. Moves(a, r.pc, r.key, r.n, r.counter) /\ proc'[a] = r
  BY <1>1, <1>2, <1>3, UpdateReplaced DEF Shape
<1> QED
  BY <1>1, <1>4, <1>5

LEMMA GetEffect ==
  ASSUME Shape, NEW a \in Actors, Get(a)
  PROVE  \E k \in Keys : Moves(a, "holding", k, count[k], proc[a].counter)
<1>1. PICK k \in cast.keys : proc' = [proc EXCEPT ![a].pc = "holding", ![a].key = k, ![a].n = count[k]]
  BY Zenon DEF Get
<1>2. /\ k \in Keys /\ proc[a] \in Copies
      /\ count[k] \in Nat
  BY ActorCopies, CastType DEF Shape
<1> DEFINE r == [proc[a] EXCEPT !.pc = "holding", !.key = k, !.n = count[k]]
<1>3. r \in Copies
  BY <1>2, PlaceNames, Zenon DEF Copies, NoCounter
<1>4. proc' = [proc EXCEPT ![a] = r]
  BY <1>1, Zenon
<1>5. r.pc = "holding" /\ r.key = k /\ r.n = count[k] /\ r.counter = proc[a].counter
  BY <1>2 DEF Copies
<1> HIDE DEF r
<1>6. Moves(a, r.pc, r.key, r.n, r.counter) /\ proc'[a] = r
  BY <1>2, <1>3, <1>4, Update, Zenon DEF Shape
<1> QED
  BY <1>2, <1>5, <1>6

LEMMA DiscardEffect ==
  ASSUME Shape, NEW a \in Actors, Discard(a)
  PROVE  Moves(a, "keep", proc[a].key, proc[a].n + Drained(slot[proc[a].key]), proc[a].counter)
<1>1. /\ proc[a] \in Copies /\ proc[a].key \in Keys
      /\ proc[a].n + Drained(slot[proc[a].key]) \in Nat
  BY ActorCopies, DrainedType
<1> DEFINE r == [proc[a] EXCEPT !.pc = "keep", !.n = @ + Drained(slot[proc[a].key])]
<1>2. r \in Copies
  BY <1>1, PlaceNames, Zenon DEF Copies, NoCounter
<1>3. proc' = [proc EXCEPT ![a] = r]
  BY Zenon DEF Shape, Discard
<1>4. r.pc = "keep" /\ r.key = proc[a].key /\ r.n = proc[a].n + Drained(slot[proc[a].key])
      /\ r.counter = proc[a].counter
  BY <1>1 DEF Copies
<1> HIDE DEF r
<1>5. Moves(a, r.pc, r.key, r.n, r.counter) /\ proc'[a] = r
  BY <1>1, <1>2, <1>3, Update, Zenon DEF Shape
<1> QED
  BY <1>1, <1>4, <1>5, Zenon

LEMMA KeepCounterEffect ==
  ASSUME Shape, NEW a \in Actors, KeepCounter(a)
  PROVE  Moves(a, "clean", proc[a].key, 0, NoCounter) /\ proc'[a].then = "done"
<1>1. /\ proc[a] \in Copies /\ proc[a].key \in Keys
  BY ActorCopies, Zenon
<1> DEFINE r == [Idle EXCEPT !.pc = "clean", !.key = proc[a].key, !.then = "done"]
<1>2. r \in Copies
  BY <1>1, PlaceNames, IdleType, Zenon DEF Copies, NoCounter
<1>3. proc' = [Replace(proc, proc[a].key) EXCEPT ![a] = r]
  BY <1>1, ReplaceType DEF Shape, KeepCounter
<1>4. r.pc = "clean" /\ r.key = proc[a].key /\ r.n = 0 /\ r.counter = NoCounter
  BY <1>1, IdleType DEF Copies
<1> HIDE DEF r
<1>5. Moves(a, r.pc, r.key, r.n, r.counter) /\ proc'[a] = r
  BY <1>1, <1>2, <1>3, UpdateReplaced DEF Shape
<1> QED
  BY <1>1, <1>4, <1>5, IdleType DEF r, Copies

(* Steps of an actor that carries no count, before or after.               *)
Quiet(a, places) ==
  /\ proc[a].n = 0
  /\ \E pc \in places :
       \/ Moves(a, pc, proc[a].key, 0, proc[a].counter)
       \/ Moves(a, pc, Idle.key, 0, NoCounter)

LEMMA QuietUpdate ==
  ASSUME Shape, NEW a \in Actors, proc[a].pc \in EmptyHanded, NEW r \in Copies,
         proc' = [proc EXCEPT ![a] = r],
         \/ r = Idle
         \/ r.key = proc[a].key /\ r.n = proc[a].n /\ r.counter = proc[a].counter
  PROVE  Quiet(a, {r.pc})
<1>1. proc[a].n = 0
  BY DEF Shape, Hands
<1>2. Moves(a, r.pc, r.key, r.n, r.counter)
  BY Update, Zenon DEF Shape
<1> QED
  BY <1>1, <1>2, IdleType DEF Quiet

LEMMA EnforceEffect ==
  ASSUME Shape, NEW a \in Actors, Enforce(a) \/ TryLock(a) \/ CleanupEnd(a)
  PROVE  Quiet(a, {"idle", "trylock", "recheck"})
<1> DEFINE p == [proc[a] EXCEPT !.pc = "trylock"]
           q == [proc[a] EXCEPT !.pc = "recheck", !.prune = TRUE]
<1>1. /\ proc[a] \in Copies /\ p \in Copies /\ q \in Copies
      /\ p.pc = "trylock" /\ p.key = proc[a].key /\ p.n = proc[a].n /\ p.counter = proc[a].counter
      /\ q.pc = "recheck" /\ q.key = proc[a].key /\ q.n = proc[a].n /\ q.counter = proc[a].counter
  BY ActorCopies, PlaceNames, Zenon DEF Copies
<1>2. proc[a].pc \in EmptyHanded
  BY DEF Enforce, TryLock, CleanupEnd, At, EmptyHanded
<1>3. \/ proc' = [proc EXCEPT ![a] = p]
      \/ proc' = [proc EXCEPT ![a] = q]
      \/ proc' = [proc EXCEPT ![a] = Idle]
  BY Zenon DEF Enforce, TryLock, CleanupEnd
<1> HIDE DEF p, q
<1>4. Quiet(a, {p.pc}) \/ Quiet(a, {q.pc}) \/ Quiet(a, {Idle.pc})
  BY <1>1, <1>2, <1>3, QuietUpdate, IdleType
<1> QED
  BY <1>1, <1>4, IdleType DEF Quiet

LEMMA BeginFlushEffect ==
  ASSUME Shape, NEW a \in Actors, TidyCache(a) \/ Recheck(a) \/ FlushEnd(a) \/ TidyEnd(a)
  PROVE  Quiet(a, {"idle", "flush", "items"})
<1> DEFINE p == [proc[a] EXCEPT !.pc = "flush", !.then = "items",
                                !.todo = {k \in Keys : slot[k] # NoCounter}]
           q == [proc[a] EXCEPT !.pc = "items"]
<1>1. /\ proc[a] \in Copies /\ p \in Copies /\ q \in Copies
      /\ p.pc = "flush" /\ p.key = proc[a].key /\ p.n = proc[a].n /\ p.counter = proc[a].counter
      /\ q.pc = "items" /\ q.key = proc[a].key /\ q.n = proc[a].n /\ q.counter = proc[a].counter
  BY ActorCopies, PlaceNames, Zenon DEF Copies
<1>2. proc[a].pc \in EmptyHanded
  BY Zenon DEF TidyCache, Recheck, FlushEnd, TidyEnd, At, EmptyHanded
<1>3. \/ proc' = [proc EXCEPT ![a] = p]
      \/ proc' = [proc EXCEPT ![a] = q]
      \/ proc' = [proc EXCEPT ![a] = Idle]
  BY Zenon DEF TidyCache, Recheck, FlushEnd, TidyEnd, Finish, BeginFlush
<1> HIDE DEF p, q
<1>4. Quiet(a, {p.pc}) \/ Quiet(a, {q.pc}) \/ Quiet(a, {Idle.pc})
  BY <1>1, <1>2, <1>3, QuietUpdate, IdleType
<1> QED
  BY <1>1, <1>4, IdleType DEF Quiet

(* The list of a prune that cleans up after itself stays as it is.         *)
ListKept(a) ==
  /\ proc'[a].todo = proc[a].todo /\ proc'[a].judged = proc[a].judged
  /\ proc'[a].then = proc[a].then

LEMMA CleanupEffect ==
  ASSUME Shape, NEW a \in Actors, CleanupCheck(a) \/ CleanupDelete(a)
  PROVE  /\ ListKept(a)
         /\ \/ Moves(a, "delete", proc[a].key, proc[a].n, proc[a].counter)
            \/ Moves(a, AfterClean(proc[a]).pc, Idle.key, 0, proc[a].counter)
<1> DEFINE p == [proc[a] EXCEPT !.pc = "delete"]
           q == AfterClean(proc[a])
<1>1. /\ proc[a] \in Copies /\ p \in Copies /\ q \in Copies
      /\ p.pc = "delete" /\ p.key = proc[a].key /\ p.n = proc[a].n /\ p.counter = proc[a].counter
      /\ p.todo = proc[a].todo /\ p.judged = proc[a].judged /\ p.then = proc[a].then
  BY ActorCopies, AfterCleanType, PlaceNames DEF Copies
<1>2. /\ q.key = Idle.key /\ q.n = 0 /\ q.counter = proc[a].counter
      /\ q.todo = proc[a].todo /\ q.judged = proc[a].judged /\ q.then = proc[a].then
  BY <1>1, AfterCleanType, Zenon
<1>3. \/ proc' = [proc EXCEPT ![a] = p]
      \/ proc' = [proc EXCEPT ![a] = q]
  BY Zenon DEF CleanupCheck, CleanupDelete
<1> HIDE DEF p
<1>4. \/ Moves(a, p.pc, p.key, p.n, p.counter) /\ proc'[a] = p
      \/ Moves(a, q.pc, q.key, q.n, q.counter) /\ proc'[a] = q
  BY <1>1, <1>3, Update, Zenon DEF Shape
<1> QED
  BY <1>1, <1>2, <1>4, Zenon DEF ListKept

(* A counter is made only while there are hits left to be counted in it.   *)
LEMMA RoomForCounter ==
  ASSUME FiniteSetFacts, Shape, Counting, NEW a \in Actors, proc[a].pc = "hit"
  PROVE  made + 1 \in 1 .. MaxHits
<1>1. Making \subseteq Actors /\ a \in Making
  BY Zenon DEF Making, Within
<1>2. Cardinality(Making) \in Nat /\ Cardinality(Making) # 0
  BY <1>1, LimitAssumption, SubsetCount, CountType, EmptyCount, Zenon
<1> QED
  BY <1>2, CastType, LimitAssumption DEF Shape, Counting

LEMMA LoadOrStoreEffect ==
  ASSUME FiniteSetFacts, Shape, Counting, NEW a \in Actors, LoadOrStore(a)
  PROVE  LET k == proc[a].key
             c == IF slot[k] = NoCounter THEN made + 1 ELSE slot[k]
         IN  /\ c \in 1 .. MaxHits /\ c <= made'
             /\ Moves(a, "add", k, proc[a].n, c)
<1> DEFINE k == proc[a].key
           c == IF slot[k] = NoCounter THEN made + 1 ELSE slot[k]
           r == [proc[a] EXCEPT !.pc = "add", !.counter = c]
<1>1. /\ k \in Keys /\ proc[a] \in Copies
      /\ c \in 1 .. MaxHits /\ c <= made' /\ c \in 0 .. MaxHits
  BY RoomForCounter, LimitAssumption DEF LoadOrStore, At, Shape, Copies, NoCounter
<1>2. proc' = [proc EXCEPT ![a].pc = "add", ![a].counter = c]
  BY Zenon DEF LoadOrStore
<1> HIDE DEF c
<1>3. r \in Copies
  BY <1>1, PlaceNames, Zenon DEF Copies
<1>4. proc' = [proc EXCEPT ![a] = r]
  BY <1>2, Zenon
<1>5. r.pc = "add" /\ r.key = k /\ r.n = proc[a].n /\ r.counter = c
  BY <1>1, Zenon DEF Copies
<1> HIDE DEF r
<1>6. Moves(a, r.pc, r.key, r.n, r.counter)
  BY <1>3, <1>4, Update, Zenon DEF Shape
<1> QED
  BY <1>1, <1>5, <1>6, Zenon DEF c

LEMMA PurgeCacheEffect ==
  ASSUME Shape, NEW a \in Actors, PurgeCache(a)
  PROVE  Quiet(a, {"flush"})
<1> DEFINE r == [proc[a] EXCEPT !.pc = "flush", !.then = "idle", !.fresh = {},
                                !.todo = {k \in Keys : slot[k] # NoCounter}]
<1>1. proc[a] \in Copies /\ proc \in [Actors -> Copies]
  BY DEF Shape
<1>2. r \in Copies
  BY <1>1, PlaceNames, Zenon DEF Copies
<1>3. proc' = [b \in Actors |-> [BeginFlush(a)[b] EXCEPT !.fresh = {},
                                                         !.then = IF b = a THEN "idle" ELSE @]]
  BY Zenon DEF PurgeCache
<1>4. proc'[a] = r
  BY <1>1, <1>3, Zenon DEF BeginFlush, Copies
<1>5. ASSUME NEW b \in Actors \ {a}
      PROVE  proc'[b] = [proc[b] EXCEPT !.fresh = {}]
  BY <1>1, <1>3, <1>5, Zenon DEF BeginFlush, Copies
<1>6. ASSUME NEW b \in Actors \ {a}
      PROVE  proc'[b] \in Copies /\ Kept(b)
  BY <1>1, <1>5, ZenonT(60) DEF Kept, Copies
<1>7. proc' \in [Actors -> Copies]
  BY <1>2, <1>3, <1>4, <1>6, Zenon
<1>8. /\ r.pc = "flush" /\ r.n = 0 /\ proc[a].n = 0
      /\ r.key = proc[a].key /\ r.counter = proc[a].counter
  BY <1>1, Zenon DEF PurgeCache, At, Shape, Hands, EmptyHanded, Copies
<1> HIDE DEF r
<1>9. Moves(a, "flush", proc[a].key, 0, proc[a].counter)
  BY <1>4, <1>6, <1>7, <1>8, Zenon DEF Moves
<1> QED
  BY <1>8, <1>9 DEF Quiet

LEMMA FlushCacheHitCountersEffect ==
  ASSUME Shape, NEW a \in Actors, FlushCacheHitCounters(a)
  PROVE  \E k \in proc[a].todo :
           /\ k \in Keys /\ Swap(slot[k])
           /\ Moves(a, IF slot[k] = NoCounter THEN "flush"
                       ELSE IF value[slot[k]] = 0 THEN "clean" ELSE "update",
                    k, Drained(slot[k]), proc[a].counter)
<1>1. PICK k \in proc[a].todo :
        /\ Swap(slot[k])
        /\ proc' = [proc EXCEPT ![a].todo = @ \ {k}, ![a].key = k, ![a].n = Drained(slot[k]),
                                ![a].pc = IF slot[k] = NoCounter THEN "flush"
                                          ELSE IF value[slot[k]] = 0 THEN "clean" ELSE "update"]
  BY Zenon DEF FlushCacheHitCounters
<1> DEFINE p == IF slot[k] = NoCounter THEN "flush"
                ELSE IF value[slot[k]] = 0 THEN "clean" ELSE "update"
           r == [proc[a] EXCEPT !.todo = @ \ {k}, !.key = k, !.n = Drained(slot[k]), !.pc = p]
<1>2. k \in Keys /\ proc[a] \in Copies
  BY Zenon DEF Shape, Copies
<1>3. Drained(slot[k]) \in Nat
  BY <1>2, DrainedType, Zenon DEF Shape
<1>4. p \in Places
  BY PlaceNames, Zenon
<1>5. proc' = [proc EXCEPT ![a].todo = @ \ {k}, ![a].key = k, ![a].n = Drained(slot[k]), ![a].pc = p]
  BY <1>1, Zenon
<1> HIDE DEF p
<1>6. r \in Copies
  BY <1>2, <1>3, <1>4, Zenon DEF Copies
<1>7. proc' = [proc EXCEPT ![a] = r]
  BY <1>5, Zenon
<1>8. r.pc = p /\ r.key = k /\ r.n = Drained(slot[k]) /\ r.counter = proc[a].counter
  BY <1>2 DEF Copies
<1> HIDE DEF r
<1>9. Moves(a, r.pc, r.key, r.n, r.counter)
  BY <1>6, <1>7, Update, Zenon DEF Shape
<1> QED
  BY <1>1, <1>2, <1>8, <1>9, Zenon DEF p

LEMMA FlushUpdateEffect ==
  ASSUME Shape, NEW a \in Actors, FlushUpdate(a)
  PROVE  Moves(a, "clean", proc[a].key, proc[a].n, proc[a].counter)
<1> DEFINE k == proc[a].key
           p == [proc[a] EXCEPT !.pc = "clean"]
           q == [proc[a] EXCEPT !.pc = "clean", !.fresh = @ \ {k}]
<1>1. k \in Keys /\ proc[a] \in Copies
  BY DEF Shape, Copies
<1>2. /\ p \in Copies /\ q \in Copies
      /\ p.pc = "clean" /\ p.key = k /\ p.n = proc[a].n /\ p.counter = proc[a].counter
      /\ q.pc = "clean" /\ q.key = k /\ q.n = proc[a].n /\ q.counter = proc[a].counter
  BY <1>1, PlaceNames, Zenon DEF Copies
<1>3. CASE proc' = [proc EXCEPT ![a].pc = "clean"]
  <2>1. proc' = [proc EXCEPT ![a] = p]
    BY <1>3
  <2> HIDE DEF p
  <2>2. Moves(a, p.pc, p.key, p.n, p.counter)
    BY <1>2, <2>1, Update, Zenon DEF Shape
  <2> QED
    BY <1>2, <2>2
<1>4. CASE proc' = [Replace(proc, k) EXCEPT ![a].pc = "clean"]
  <2>1. proc' = [Replace(proc, k) EXCEPT ![a] = q]
    BY <1>1, <1>4, ReplaceType, ZenonT(60) DEF Shape, Copies
  <2> HIDE DEF q
  <2>2. Moves(a, q.pc, q.key, q.n, q.counter)
    BY <1>1, <1>2, <2>1, UpdateReplaced DEF Shape
  <2> QED
    BY <1>2, <2>2
<1> QED
  BY <1>3, <1>4 DEF FlushUpdate

LEMMA ItemsEffect ==
  ASSUME Shape, NEW a \in Actors, Items(a)
  PROVE  /\ Quiet(a, {"expire"}) /\ proc'[a].then = "expire"
         /\ proc'[a].judged \cup proc'[a].todo = Cached
<1>1. PICK expired \in SUBSET {k \in Keys : kind[k] \in {"none", "policy"}} :
        proc' = [proc EXCEPT ![a].pc = "expire", ![a].then = "expire", ![a].fresh = Cached,
                             ![a].todo = expired, ![a].judged = Cached \ expired]
  BY Zenon DEF Items
<1> DEFINE r == [proc[a] EXCEPT !.pc = "expire", !.then = "expire", !.fresh = Cached,
                                !.todo = expired, !.judged = Cached \ expired]
<1>2. /\ proc[a] \in Copies /\ Cached \subseteq Keys /\ expired \subseteq Cached
      /\ expired \subseteq Keys /\ Cached \ expired \subseteq Keys
  BY DEF Shape, Cached
<1>3. r \in Copies
  BY <1>2, PlaceNames, Zenon DEF Copies
<1>4. proc' = [proc EXCEPT ![a] = r]
  BY <1>1, Zenon
<1>5. /\ r.pc = "expire" /\ r.then = "expire"
      /\ r.judged = Cached \ expired /\ r.todo = expired
      /\ r.key = proc[a].key /\ r.n = proc[a].n /\ r.counter = proc[a].counter
  BY <1>2 DEF Copies
<1>6. (Cached \ expired) \cup expired = Cached
  BY <1>2
<1>7. proc[a].pc \in EmptyHanded
  BY DEF Items, At, EmptyHanded
<1> HIDE DEF r
<1>8. Quiet(a, {r.pc}) /\ proc'[a] = r
  BY <1>3, <1>4, <1>5, <1>7, QuietUpdate, Update, Zenon DEF Shape
<1> QED
  BY <1>5, <1>6, <1>8

LEMMA PartitionEffect ==
  ASSUME Shape, NEW a \in Actors, Partition(a)
  PROVE  /\ Quiet(a, {"evict"})
         /\ proc'[a].todo \subseteq proc[a].judged
         /\ Cardinality(proc'[a].todo) = EvictCount(Cardinality(proc[a].judged))
<1>1. PICK evicted \in SUBSET proc[a].judged :
        /\ Cardinality(evicted) = EvictCount(Cardinality(proc[a].judged))
        /\ proc' = [proc EXCEPT ![a].pc = "evict", ![a].todo = evicted]
  BY Zenon DEF Partition
<1> DEFINE r == [proc[a] EXCEPT !.pc = "evict", !.todo = evicted]
<1>2. proc[a] \in Copies /\ proc[a].judged \subseteq Keys
  BY DEF Shape, Copies
<1>3. evicted \subseteq Keys
  BY <1>2
<1>4. r \in Copies
  BY <1>2, <1>3, PlaceNames, Zenon DEF Copies
<1>5. proc' = [proc EXCEPT ![a] = r]
  BY <1>1, Zenon
<1>6. /\ r.pc = "evict" /\ r.todo = evicted
      /\ r.key = proc[a].key /\ r.n = proc[a].n /\ r.counter = proc[a].counter
  BY <1>2 DEF Copies
<1>7. proc[a].pc \in EmptyHanded
  BY DEF Partition, At, EmptyHanded
<1> HIDE DEF r
<1>8. Quiet(a, {r.pc}) /\ proc'[a] = r
  BY <1>4, <1>5, <1>6, <1>7, QuietUpdate, Update, Zenon DEF Shape
<1> QED
  BY <1>1, <1>6, <1>8, Zenon

(* What discardCachedPolicyStateIfCurrent does to the entry and counter of *)
(* k, and to the list: k leaves todo, and the entry leaves the list with   *)
(* it, or joins judged if it was replaced and is there.                    *)
LEMMA ExpireEffect ==
  ASSUME Shape, NEW a \in Actors, Expire(a)
  PROVE  \E k \in proc[a].todo :
           LET n == count[k] + Drained(slot[k]) IN
           /\ k \in Keys /\ n \in Nat
           /\ proc'[a].todo = proc[a].todo \ {k} /\ proc'[a].then = proc[a].then
           /\ \/ /\ Swap(slot[k])
                 /\ IF n = 0 THEN Remove(k) ELSE Put(k, "stats", n)
                 /\ Moves(a, "clean", k, proc[a].n, proc[a].counter)
                 /\ proc'[a].judged = proc[a].judged
              \/ /\ SameEntries /\ UNCHANGED value
                 /\ Moves(a, "expire", proc[a].key, proc[a].n, proc[a].counter)
                 /\ proc'[a].judged = proc[a].judged \cup ({k} \cap Cached)
<1>1. PICK k \in proc[a].todo :
       IF k \in proc[a].fresh
       THEN LET n == count[k] + Drained(slot[k]) IN
            /\ Swap(slot[k])
            /\ IF n = 0 THEN Remove(k) ELSE Put(k, "stats", n)
            /\ proc' = [Replace(proc, k) EXCEPT ![a].pc = "clean", ![a].key = k, ![a].todo = @ \ {k}]
       ELSE LET current == {k} \cap Cached IN
            /\ proc' = [proc EXCEPT ![a].todo = @ \ {k}, ![a].judged = @ \cup current,
                                    ![a].fresh = @ \cup current]
            /\ SameEntries /\ UNCHANGED value
  BY Zenon DEF Expire
<1> DEFINE n == count[k] + Drained(slot[k])
           q == [proc[a] EXCEPT !.fresh = @ \ {k}]
           p == [q EXCEPT !.pc = "clean", !.key = k, !.todo = @ \ {k}]
           r == [proc[a] EXCEPT !.todo = @ \ {k}, !.judged = @ \cup ({k} \cap Cached),
                                !.fresh = @ \cup ({k} \cap Cached)]
<1>2. k \in Keys /\ proc[a] \in Copies /\ proc[a].pc = "expire" /\ {k} \cap Cached \subseteq Keys
  BY Zenon DEF Expire, At, Shape, Copies, Cached
<1>3. slot[k] \in 0 .. MaxHits /\ count[k] \in Nat
  BY <1>2, Zenon DEF Shape
<1>4. n \in Nat
  BY <1>3, DrainedType
<1>5. CASE k \in proc[a].fresh
  <2>1. /\ Swap(slot[k])
        /\ IF n = 0 THEN Remove(k) ELSE Put(k, "stats", n)
        /\ proc' = [Replace(proc, k) EXCEPT ![a].pc = "clean", ![a].key = k, ![a].todo = @ \ {k}]
    BY <1>1, <1>5
  <2>2. q \in Copies /\ Replace(proc, k)[a] = q
    BY <1>2, ReplaceType, Zenon DEF Shape, Copies
  <2>3. /\ q.todo = proc[a].todo /\ q.judged = proc[a].judged /\ q.then = proc[a].then
        /\ q.n = proc[a].n /\ q.counter = proc[a].counter
    BY <1>2 DEF Copies
  <2> HIDE DEF q, n
  <2>4. p \in Copies
    BY <1>2, <2>2, PlaceNames, ZenonT(60) DEF Copies
  <2>5. /\ p.pc = "clean" /\ p.key = k /\ p.n = q.n /\ p.counter = q.counter
        /\ p.todo = q.todo \ {k} /\ p.judged = q.judged /\ p.then = q.then
    BY <1>2, <2>2 DEF Copies
  <2>6. proc' = [Replace(proc, k) EXCEPT ![a] = p]
    BY <2>1, <2>2, Zenon
  <2> HIDE DEF p
  <2>7. Moves(a, p.pc, p.key, p.n, p.counter) /\ proc'[a] = p
    BY <1>2, <2>4, <2>6, UpdateReplaced, Zenon DEF Shape
  <2> QED
    BY <1>2, <1>4, <2>1, <2>3, <2>5, <2>7, ZenonT(60) DEF n
<1>6. CASE k \notin proc[a].fresh
  <2>1. /\ SameEntries /\ UNCHANGED value
        /\ proc' = [proc EXCEPT ![a].todo = @ \ {k}, ![a].judged = @ \cup ({k} \cap Cached),
                                ![a].fresh = @ \cup ({k} \cap Cached)]
    BY <1>1, <1>6, Zenon
  <2>2. r \in Copies
    BY <1>2, Zenon DEF Copies
  <2>3. /\ r.pc = "expire" /\ r.key = proc[a].key /\ r.n = proc[a].n /\ r.counter = proc[a].counter
        /\ r.todo = proc[a].todo \ {k} /\ r.judged = proc[a].judged \cup ({k} \cap Cached)
        /\ r.then = proc[a].then
    BY <1>2 DEF Copies
  <2>4. proc' = [proc EXCEPT ![a] = r]
    BY <2>1, Zenon
  <2> HIDE DEF r, n
  <2>5. Moves(a, r.pc, r.key, r.n, r.counter) /\ proc'[a] = r
    BY <2>2, <2>4, Update, Zenon DEF Shape
  <2> QED
    BY <1>2, <1>4, <2>1, <2>3, <2>5, Zenon DEF n
<1> QED
  BY <1>5, <1>6

(* What removeCacheEntryIfCurrent does.                                    *)
LEMMA EvictEffect ==
  ASSUME Shape, NEW a \in Actors, Evict(a)
  PROVE  \E k \in proc[a].todo :
           /\ k \in Keys
           /\ proc'[a].todo = proc[a].todo \ {k}
           /\ Moves(a, "evict", proc[a].key, proc[a].n, proc[a].counter)
           /\ \/ Remove(k) /\ slot' = [slot EXCEPT ![k] = NoCounter]
              \/ /\ unseen' = IF Over THEN unseen \cup ({k} \cap Cached) ELSE {}
                 /\ UNCHANGED <<kind, count, slot>>
<1>1. PICK k \in proc[a].todo :
       IF k \in proc[a].fresh
       THEN /\ Remove(k)
            /\ slot' = [slot EXCEPT ![k] = NoCounter]
            /\ proc' = [Replace(proc, k) EXCEPT ![a].todo = @ \ {k}]
       ELSE /\ proc' = [proc EXCEPT ![a].todo = @ \ {k}]
            /\ unseen' = IF Over THEN unseen \cup ({k} \cap Cached) ELSE {}
            /\ UNCHANGED <<kind, count, slot>>
  BY Zenon DEF Evict
<1> DEFINE q == [proc[a] EXCEPT !.fresh = @ \ {k}]
           p == [q EXCEPT !.todo = @ \ {k}]
           r == [proc[a] EXCEPT !.todo = @ \ {k}]
<1>2. k \in Keys /\ proc[a] \in Copies /\ proc[a].pc = "evict"
  BY Zenon DEF Evict, At, Shape, Copies
<1>3. q \in Copies /\ p \in Copies /\ r \in Copies
  BY <1>2, Zenon DEF Copies
<1>4. /\ p.pc = "evict" /\ p.key = proc[a].key /\ p.n = proc[a].n
      /\ p.counter = proc[a].counter /\ p.todo = proc[a].todo \ {k}
  BY <1>2 DEF Copies
<1>5. /\ r.pc = "evict" /\ r.key = proc[a].key /\ r.n = proc[a].n
      /\ r.counter = proc[a].counter /\ r.todo = proc[a].todo \ {k}
  BY <1>2 DEF Copies
<1>6. CASE k \in proc[a].fresh
  <2>1. Replace(proc, k)[a] = q
    BY <1>2, ReplaceType DEF Shape
  <2> HIDE DEF q
  <2>2. proc' = [Replace(proc, k) EXCEPT ![a] = p]
    BY <1>1, <1>6, <2>1, Zenon
  <2> HIDE DEF p
  <2>3. Moves(a, p.pc, p.key, p.n, p.counter) /\ proc'[a] = p
    BY <1>2, <1>3, <2>2, UpdateReplaced, Zenon DEF Shape
  <2>4. Remove(k) /\ slot' = [slot EXCEPT ![k] = NoCounter]
    BY <1>1, <1>6
  <2> QED
    BY <1>2, <1>4, <2>3, <2>4, Zenon
<1>7. CASE k \notin proc[a].fresh
  <2>1. proc' = [proc EXCEPT ![a] = r]
    BY <1>1, <1>7
  <2> HIDE DEF r
  <2>2. Moves(a, r.pc, r.key, r.n, r.counter) /\ proc'[a] = r
    BY <1>3, <2>1, Update, Zenon DEF Shape
  <2>3. /\ unseen' = IF Over THEN unseen \cup ({k} \cap Cached) ELSE {}
        /\ UNCHANGED <<kind, count, slot>>
    BY <1>1, <1>7
  <2> QED
    BY <1>2, <1>5, <2>2, <2>3, Zenon
<1> QED
  BY <1>6, <1>7, Zenon

LEMMA RefreshEffect ==
  ASSUME Shape, NEW a \in Actors, Refresh(a)
  PROVE  \/ Moves(a, "idle", Idle.key, 0, NoCounter)
         \/ Moves(a, "discard", proc[a].key, proc[a].n, proc[a].counter)
<1> DEFINE k == proc[a].key
           q == [proc[a] EXCEPT !.fresh = @ \ {k}]
           p == [q EXCEPT !.pc = "discard"]
<1>1. k \in Keys /\ proc[a] \in Copies
  BY ActorCopies
<1>2. q \in Copies /\ p \in Copies
  BY <1>1, PlaceNames, Zenon DEF Copies
<1>3. p.pc = "discard" /\ p.key = k /\ p.n = proc[a].n /\ p.counter = proc[a].counter
  BY <1>1 DEF Copies
<1>4. Replace(proc, k)[a] = q
  BY <1>1, ReplaceType, Zenon DEF Shape
<1> HIDE DEF q
<1>5. \/ proc' = [Replace(proc, k) EXCEPT ![a] = Idle]
      \/ proc' = [Replace(proc, k) EXCEPT ![a] = p]
  BY <1>4 DEF Refresh
<1> HIDE DEF p, k
<1>6. \/ Moves(a, Idle.pc, Idle.key, Idle.n, Idle.counter)
      \/ Moves(a, p.pc, p.key, p.n, p.counter)
  BY <1>1, <1>2, <1>5, IdleType, UpdateReplaced DEF Shape
<1> QED
  BY <1>3, <1>6, IdleType DEF k

---------------------------------------------------------------------------
(* The shape is kept.                                                      *)

LEMMA HandsStep ==
  ASSUME Shape, NEW a \in Actors, NEW pc, NEW key, NEW n, NEW counter,
         Moves(a, pc, key, n, counter),
         made' \in Nat, made <= made', counter <= made',
         pc = "add" => counter # NoCounter,
         pc \in EmptyHanded => n = 0
  PROVE  proc' \in [Actors -> Copies] /\ Hands'
<1>1. ASSUME NEW b \in Actors
      PROVE  /\ proc'[b].counter <= made'
             /\ proc'[b].pc = "add" => proc'[b].counter # NoCounter
             /\ proc'[b].pc \in EmptyHanded => proc'[b].n = 0
  <2>1. CASE b = a
    BY <2>1 DEF Moves
  <2>2. CASE b # a
    <3>1. Kept(b)
      BY <2>2 DEF Moves
    <3>2. proc[b].counter \in Int /\ made \in Int
      BY LimitAssumption DEF Shape, Copies
    <3> QED
      BY <3>1, <3>2 DEF Shape, Hands, Kept
  <2> QED
    BY <2>1, <2>2, Zenon
<1> QED
  BY <1>1, Zenon DEF Moves, Hands

(* The entries keep their types, whatever is put or removed.               *)
Entries ==
  /\ kind \in [Keys -> {"absent", "stats", "none", "policy"}]
  /\ count \in [Keys -> Nat]
  /\ unseen \subseteq Cached

LEMMA PutEntries ==
  ASSUME Entries, NEW k \in Keys, NEW what \in {"stats", "none", "policy"}, NEW n \in Nat,
         Put(k, what, n)
  PROVE  Entries' /\ Cached' = Cached \cup {k}
<1>1. /\ kind' \in [Keys -> {"absent", "stats", "none", "policy"}]
      /\ count' \in [Keys -> Nat]
  BY Zenon DEF Entries, Put
<1>2. Cached' = Cached \cup {k}
  BY Zenon DEF Entries, Put, Cached
<1>3. unseen' \subseteq unseen \cup {k}
  BY Zenon DEF Put
<1> QED
  BY <1>1, <1>2, <1>3, Zenon DEF Entries

LEMMA RemoveEntries ==
  ASSUME Entries, NEW k \in Keys, Remove(k)
  PROVE  Entries' /\ Cached' = Cached \ {k}
<1>1. /\ kind' \in [Keys -> {"absent", "stats", "none", "policy"}]
      /\ count' \in [Keys -> Nat]
  BY Zenon DEF Entries, Remove
<1>2. Cached' = Cached \ {k}
  BY Zenon DEF Entries, Remove, Cached
<1>3. unseen' \subseteq unseen \ {k}
  BY Zenon DEF Remove
<1> QED
  BY <1>1, <1>2, <1>3, Zenon DEF Entries

LEMMA SameEntriesKept ==
  ASSUME Entries, SameEntries
  PROVE  Entries' /\ Cached' = Cached
  BY Zenon DEF Entries, SameEntries, Cached

(* counter.Swap leaves every other counter alone.                          *)
LEMMA SwapType ==
  ASSUME Shape, NEW c \in 0 .. MaxHits, Swap(c)
  PROVE  /\ value' \in [Counters -> Nat]
         /\ \A d \in Counters : value'[d] = IF d = c THEN 0 ELSE value[d]
<1>1. c # NoCounter => c \in Counters
  BY LimitAssumption DEF Counters, NoCounter
<1>2. NoCounter \notin Counters
  BY DEF Counters, NoCounter
<1> QED
  BY <1>1, <1>2, Zenon DEF Shape, Swap

LEMMA QuietHands ==
  ASSUME Shape, NEW a \in Actors, NEW places, Quiet(a, places), "add" \notin places, made' = made
  PROVE  proc' \in [Actors -> Copies] /\ Hands'
<1>1. made \in Nat /\ proc[a].counter <= made
  BY LimitAssumption DEF Shape, Hands
<1>2. PICK pc \in places : \/ Moves(a, pc, proc[a].key, 0, proc[a].counter)
                           \/ Moves(a, pc, Idle.key, 0, NoCounter)
  BY Zenon DEF Quiet
<1>3. NoCounter <= made
  BY <1>1 DEF NoCounter
<1> QED
  BY <1>1, <1>2, <1>3, HandsStep

(* The hit counters keep their types.                                      *)
Slots ==
  /\ slot \in [Keys -> 0 .. MaxHits] /\ \A k \in Keys : slot[k] <= made
  /\ value \in [Counters -> Nat]
  /\ made \in 0 .. MaxHits

LEMMA ShapeFrom ==
  Shape <=> /\ Entries /\ Slots
            /\ cast \in Casts /\ locked \in BOOLEAN
            /\ proc \in [Actors -> Copies] /\ Hands
            /\ added \in [hits : Nat, stores : Nat] /\ uses \in [Keys -> Nat]
  BY Zenon DEF Shape, Entries, Slots

LEMMA ConnectionShape ==
  ASSUME FiniteSetFacts, Shape, Counting, NEW a \in Actors, Connection(a)
  PROVE  Shape'
<1>1. /\ Entries /\ Slots /\ made \in Nat
      /\ cast \in Casts /\ locked \in BOOLEAN
      /\ added \in [hits : Nat, stores : Nat] /\ uses \in [Keys -> Nat]
      /\ proc[a].key \in Keys /\ proc[a].n \in Nat /\ proc[a].counter \in 0 .. MaxHits
      /\ proc[a].counter <= made /\ slot[proc[a].key] <= made /\ NoCounter <= made
  BY LimitAssumption, ShapeFrom, ActorCopies DEF Slots, Hands, NoCounter
<1>2. CASE Hit(a)
  <2>1. PICK k \in Keys : Moves(a, "hit", k, proc[a].n, proc[a].counter)
    BY <1>2, HitEffect, Zenon
  <2>2. proc[a].n = 0
    BY <1>2, Zenon DEF Hit, At, Shape, Hands, EmptyHanded
  <2>3. UNCHANGED <<cast, slot, value, made, locked, uses>> /\ SameEntries
    BY <1>2, Zenon DEF Hit, counters
  <2>4. proc' \in [Actors -> Copies] /\ Hands'
    BY <1>1, <2>1, <2>2, <2>3, HandsStep
  <2>5. added' \in [hits : Nat, stores : Nat]
    BY <1>1, <1>2 DEF Hit
  <2> QED
    BY <1>1, <2>3, <2>4, <2>5, SameEntriesKept, ShapeFrom, Zenon DEF Slots, Shape, Entries
<1>3. CASE LoadOrStore(a)
  <2>1. PICK c \in 1 .. MaxHits :
          /\ Moves(a, "add", proc[a].key, proc[a].n, c) /\ c <= made'
          /\ c = IF slot[proc[a].key] = NoCounter THEN made + 1 ELSE slot[proc[a].key]
    BY <1>3, LoadOrStoreEffect, Zenon
  <2>2. /\ UNCHANGED <<cast, value, locked, uses, added>> /\ SameEntries
        /\ slot' = [slot EXCEPT ![proc[a].key] = c]
        /\ made' = IF slot[proc[a].key] = NoCounter THEN made + 1 ELSE made
    BY <1>3, <2>1, Zenon DEF LoadOrStore
  <2>3. proc[a].n = 0 /\ c # NoCounter
    BY <1>3, <2>1 DEF LoadOrStore, At, Shape, Hands, EmptyHanded, NoCounter
  <2>4. made' \in 0 .. MaxHits /\ made' \in Nat /\ made <= made'
    BY <1>1, <2>1, <2>2, LimitAssumption DEF Slots
  <2>5. proc' \in [Actors -> Copies] /\ Hands'
    BY <1>1, <2>1, <2>3, <2>4, HandsStep
  <2>6. Slots'
    BY <1>1, <2>1, <2>2, <2>4, LimitAssumption DEF Slots
  <2> QED
    BY <1>1, <2>2, <2>5, <2>6, SameEntriesKept, Zenon DEF Slots, Shape, Entries
<1>4. CASE AddHit(a)
  <2>1. Moves(a, "idle", Idle.key, 0, NoCounter)
    BY <1>4, AddHitEffect, Zenon
  <2>2. UNCHANGED <<cast, slot, made, locked, added>> /\ SameEntries
    BY <1>4, Zenon DEF AddHit
  <2>3. proc' \in [Actors -> Copies] /\ Hands'
    BY <1>1, <2>1, <2>2, HandsStep
  <2>4. proc[a].counter \in Counters
    <3>1. proc[a].counter # NoCounter
      BY <1>4, Zenon DEF AddHit, At, Shape, Hands
    <3> QED
      BY <1>1, <3>1, LimitAssumption DEF NoCounter, Counters
  <2>5. value' \in [Counters -> Nat] /\ uses' \in [Keys -> Nat]
    BY <1>1, <1>4, <2>4 DEF AddHit, Slots
  <2> QED
    BY <1>1, <2>2, <2>3, <2>5, SameEntriesKept, Zenon DEF Slots, Shape, Entries
<1>5. CASE Miss(a)
  <2>1. PICK k \in Keys : Moves(a, "lookup", k, count[k], proc[a].counter)
    BY <1>5, MissEffect, Zenon
  <2>2. UNCHANGED <<cast, slot, value, made, locked, uses>> /\ SameEntries
    BY <1>5, Zenon DEF Miss, counters
  <2>3. proc' \in [Actors -> Copies] /\ Hands'
    BY <1>1, <2>1, <2>2, HandsStep DEF EmptyHanded
  <2>4. added' \in [hits : Nat, stores : Nat]
    BY <1>1, <1>5 DEF Miss
  <2> QED
    BY <1>1, <2>2, <2>3, <2>4, SameEntriesKept, Zenon DEF Slots, Shape, Entries
<1>6. CASE Load(a)
  <2>1. Moves(a, "drain", proc[a].key, proc[a].n, slot[proc[a].key])
    BY <1>6, LoadEffect, Zenon
  <2>2. UNCHANGED <<cast, slot, value, made, locked, added, uses>> /\ SameEntries
    BY <1>6, Zenon DEF Load, counters
  <2>3. proc' \in [Actors -> Copies] /\ Hands'
    BY <1>1, <2>1, <2>2, HandsStep DEF EmptyHanded
  <2> QED
    BY <1>1, <2>2, <2>3, SameEntriesKept, Zenon DEF Slots, Shape, Entries
<1>7. CASE Drain(a)
  <2>1. Moves(a, "set", proc[a].key, proc[a].n + Drained(proc[a].counter) + 1, proc[a].counter)
    BY <1>7, DrainEffect, Zenon
  <2>2. UNCHANGED <<cast, slot, made, locked, added, uses>> /\ SameEntries
    BY <1>7, Zenon DEF Drain
  <2>3. proc' \in [Actors -> Copies] /\ Hands'
    BY <1>1, <2>1, <2>2, HandsStep DEF EmptyHanded
  <2>4. value' \in [Counters -> Nat]
    BY <1>1, <1>7, SwapType, Zenon DEF Drain
  <2> QED
    BY <1>1, <2>2, <2>3, <2>4, SameEntriesKept, Zenon DEF Slots, Shape, Entries
<1>8. CASE Store(a)
  <2>1. Moves(a, "enforce", Idle.key, 0, NoCounter)
    BY <1>8, StoreEffect, Zenon
  <2>2. UNCHANGED <<cast, slot, value, made, locked, added>>
    BY <1>8, Zenon DEF Store, counters
  <2>3. proc' \in [Actors -> Copies] /\ Hands'
    BY <1>1, <2>1, <2>2, HandsStep
  <2>4. uses' \in [Keys -> Nat]
    BY <1>1, <1>8 DEF Store
  <2>5. Entries'
    BY <1>1, <1>8, PutEntries, ZenonT(60) DEF Store
  <2> QED
    BY <1>1, <2>2, <2>3, <2>4, <2>5, ZenonT(60) DEF Slots, Shape, Entries
<1>9. CASE Enforce(a) \/ TryLock(a)
  <2>1. proc' \in [Actors -> Copies] /\ Hands'
    BY <1>9, EnforceEffect, QuietHands, Zenon DEF Enforce, TryLock, counters
  <2>2. UNCHANGED <<cast, slot, value, made, added, uses>> /\ SameEntries /\ locked' \in BOOLEAN
    BY <1>1, <1>9, Zenon DEF Enforce, TryLock, counters
  <2> QED
    BY <1>1, <2>1, <2>2, SameEntriesKept, Zenon DEF Slots, Shape, Entries
<1>10. CASE Recheck(a)
  <2>1. proc' \in [Actors -> Copies] /\ Hands'
    BY <1>10, BeginFlushEffect, QuietHands, Zenon DEF Recheck, counters
  <2>2. UNCHANGED <<cast, slot, value, made, added, uses>> /\ SameEntries /\ locked' \in BOOLEAN
    BY <1>1, <1>10, Zenon DEF Recheck, Finish, counters
  <2> QED
    BY <1>1, <2>1, <2>2, SameEntriesKept DEF Slots, Shape, Entries
<1> QED
  BY <1>2, <1>3, <1>4, <1>5, <1>6, <1>7, <1>8, <1>9, <1>10, ZenonT(60) DEF Connection

LEMMA TidyShape ==
  ASSUME Shape, NEW a \in Actors, Tidy(a)
  PROVE  Shape'
<1>1. /\ Entries /\ Slots /\ made \in Nat
      /\ cast \in Casts /\ locked \in BOOLEAN
      /\ added \in [hits : Nat, stores : Nat] /\ uses \in [Keys -> Nat]
      /\ proc[a].key \in Keys /\ proc[a].n \in Nat
      /\ proc[a].counter <= made /\ NoCounter <= made
  BY LimitAssumption, ShapeFrom, ActorCopies DEF Slots, Hands, NoCounter
<1>2. CASE TidyCache(a) \/ FlushEnd(a) \/ TidyEnd(a)
  <2>1. UNCHANGED <<cast, slot, value, made, added, uses>> /\ SameEntries /\ locked' \in BOOLEAN
    BY <1>1, <1>2, Zenon DEF TidyCache, FlushEnd, TidyEnd, Finish, counters
  <2>2. proc' \in [Actors -> Copies] /\ Hands'
    BY <1>2, <2>1, BeginFlushEffect, QuietHands
  <2> QED
    BY <1>1, <2>1, <2>2, SameEntriesKept, Zenon DEF Slots, Shape, Entries
<1>3. CASE PurgeCache(a)
  <2>1. UNCHANGED <<cast, slot, value, made, locked, added, uses>>
    BY <1>3, Zenon DEF PurgeCache, counters
  <2>2. proc' \in [Actors -> Copies] /\ Hands'
    BY <1>3, <2>1, PurgeCacheEffect, QuietHands, Zenon
  <2>3. Entries'
    BY <1>1, <1>3, Zenon DEF PurgeCache, Entries
  <2> QED
    BY <1>1, <2>1, <2>2, <2>3 DEF Slots, Shape, Entries
<1>4. CASE FlushCacheHitCounters(a)
  <2>1. PICK k \in Keys : \E pc \in {"flush", "clean", "update"} :
          /\ Swap(slot[k]) /\ Moves(a, pc, k, Drained(slot[k]), proc[a].counter)
          /\ pc = "flush" => slot[k] = NoCounter
    BY <1>4, FlushCacheHitCountersEffect, Zenon
  <2>2. UNCHANGED <<cast, slot, made, locked, added, uses>> /\ SameEntries
    BY <1>4, Zenon DEF FlushCacheHitCounters
  <2>3. slot[k] = NoCounter => Drained(slot[k]) = 0
    BY Zenon DEF Drained
  <2>4. proc' \in [Actors -> Copies] /\ Hands'
    BY <1>1, <2>1, <2>2, <2>3, HandsStep DEF EmptyHanded
  <2>5. slot[k] \in 0 .. MaxHits
    BY <1>1, Zenon DEF Slots
  <2>6. value' \in [Counters -> Nat]
    BY <2>1, <2>5, SwapType, Zenon
  <2> QED
    BY <1>1, <2>2, <2>4, <2>6, SameEntriesKept, Zenon DEF Slots, Shape, Entries
<1>5. CASE FlushUpdate(a)
  <2>1. Moves(a, "clean", proc[a].key, proc[a].n, proc[a].counter)
    BY <1>5, FlushUpdateEffect, Zenon
  <2>2. UNCHANGED <<cast, slot, value, made, locked, added, uses>>
    BY <1>5, Zenon DEF FlushUpdate, counters
  <2>3. proc' \in [Actors -> Copies] /\ Hands'
    BY <1>1, <2>1, <2>2, HandsStep DEF EmptyHanded
  <2>4. Entries'
    <3>1. CASE kind[proc[a].key] = "absent"
      BY <1>1, <1>5, <3>1, SameEntriesKept, Zenon DEF FlushUpdate
    <3>2. CASE kind[proc[a].key] # "absent"
      <4>1. kind[proc[a].key] \in {"stats", "none", "policy"} /\ count[proc[a].key] + proc[a].n \in Nat
        BY <1>1, <3>2 DEF Entries
      <4> QED
        BY <1>1, <1>5, <3>2, <4>1, PutEntries, ZenonT(60) DEF FlushUpdate
    <3> QED
      BY <3>1, <3>2, Zenon
  <2> QED
    BY <1>1, <2>2, <2>3, <2>4 DEF Slots, Shape, Entries
<1>6. CASE CleanupCheck(a) \/ CleanupDelete(a)
  <2>1. \/ Moves(a, "delete", proc[a].key, proc[a].n, proc[a].counter)
        \/ Moves(a, AfterClean(proc[a]).pc, Idle.key, 0, proc[a].counter)
    BY <1>6, CleanupEffect, Zenon
  <2>2. /\ UNCHANGED <<cast, value, made, locked, added, uses>> /\ SameEntries
        /\ slot' = slot \/ slot' = [slot EXCEPT ![proc[a].key] = NoCounter]
    BY <1>6, Zenon DEF CleanupCheck, CleanupDelete, counters
  <2>3. AfterClean(proc[a]).pc # "add"
    BY ActorCopies, AfterCleanType, ZenonT(60)
  <2>4. proc' \in [Actors -> Copies] /\ Hands'
    BY <1>1, <2>1, <2>2, <2>3, HandsStep DEF EmptyHanded
  <2>5. Slots'
    BY <1>1, <2>2, LimitAssumption DEF Slots, NoCounter
  <2> QED
    BY <1>1, <2>2, <2>4, <2>5, SameEntriesKept, Zenon DEF Slots, Shape, Entries
<1>7. CASE Items(a)
  <2>1. UNCHANGED <<cast, kind, count, slot, value, made, locked, added, uses>> /\ unseen' = {}
    BY <1>7, Zenon DEF Items, counters
  <2>2. proc' \in [Actors -> Copies] /\ Hands'
    BY <1>7, <2>1, ItemsEffect, QuietHands, Zenon
  <2> QED
    BY <1>1, <2>1, <2>2, Zenon DEF Slots, Shape, Entries
<1>8. CASE Expire(a)
  <2>1. PICK k \in Keys :
           LET n == count[k] + Drained(slot[k]) IN
           /\ n \in Nat
           /\ \/ /\ Swap(slot[k])
                 /\ IF n = 0 THEN Remove(k) ELSE Put(k, "stats", n)
                 /\ Moves(a, "clean", k, proc[a].n, proc[a].counter)
              \/ /\ SameEntries /\ UNCHANGED value
                 /\ Moves(a, "expire", proc[a].key, proc[a].n, proc[a].counter)
    BY <1>8, ExpireEffect, Zenon
  <2>2. UNCHANGED <<cast, slot, made, locked, added, uses>> /\ proc[a].n = 0
    BY <1>8, Zenon DEF Expire, At, Shape, Hands, EmptyHanded
  <2>3. proc' \in [Actors -> Copies] /\ Hands'
    BY <1>1, <2>1, <2>2, HandsStep
  <2>4. Entries'
    BY <1>1, <2>1, PutEntries, RemoveEntries, SameEntriesKept, Zenon
  <2>5. slot[k] \in 0 .. MaxHits
    BY <1>1, Zenon DEF Slots
  <2>6. value' \in [Counters -> Nat]
    BY <1>1, <2>1, <2>5, SwapType, Zenon DEF Slots
  <2> QED
    BY <1>1, <2>2, <2>3, <2>4, <2>6, Zenon DEF Slots, Shape, Entries
<1>9. CASE Partition(a)
  <2>1. UNCHANGED <<cast, slot, value, made, locked, added, uses>> /\ SameEntries
    BY <1>9, Zenon DEF Partition, counters
  <2>2. proc' \in [Actors -> Copies] /\ Hands'
    BY <1>9, <2>1, PartitionEffect, QuietHands, Zenon
  <2> QED
    BY <1>1, <2>1, <2>2, SameEntriesKept, Zenon DEF Slots, Shape, Entries
<1>10. CASE Evict(a)
  <2>1. PICK k \in Keys :
          /\ Moves(a, "evict", proc[a].key, proc[a].n, proc[a].counter)
          /\ \/ Remove(k) /\ slot' = [slot EXCEPT ![k] = NoCounter]
             \/ /\ unseen' = IF Over THEN unseen \cup ({k} \cap Cached) ELSE {}
                /\ UNCHANGED <<kind, count, slot>>
    BY <1>10, EvictEffect, Zenon
  <2>2. UNCHANGED <<cast, value, made, locked, added, uses>> /\ proc[a].n = 0
    BY <1>10, Zenon DEF Evict, At, Shape, Hands, EmptyHanded
  <2>3. proc' \in [Actors -> Copies] /\ Hands'
    BY <1>1, <2>1, <2>2, HandsStep
  <2>4. CASE Remove(k) /\ slot' = [slot EXCEPT ![k] = NoCounter]
    <3>1. Entries'
      BY <1>1, <2>4, RemoveEntries, Zenon
    <3>2. Slots'
      BY <1>1, <2>2, <2>4, LimitAssumption DEF Slots, NoCounter
    <3> QED
      BY <1>1, <2>2, <2>3, <3>1, <3>2, Zenon DEF Slots, Shape, Entries
  <2>5. CASE /\ unseen' = IF Over THEN unseen \cup ({k} \cap Cached) ELSE {}
             /\ UNCHANGED <<kind, count, slot>>
    <3>1. unseen' \subseteq Cached /\ Cached' = Cached
      BY <1>1, <2>5, Zenon DEF Entries, Cached
    <3> QED
      BY <1>1, <2>2, <2>3, <2>5, <3>1, Zenon DEF Slots, Shape, Entries
  <2> QED
    BY <2>1, <2>4, <2>5, Zenon
<1> QED
  BY <1>2, <1>3, <1>4, <1>5, <1>6, <1>7, <1>8, <1>9, <1>10, ZenonT(60) DEF Tidy

LEMMA PrefetchShape ==
  ASSUME Shape, NEW a \in Actors, Prefetch(a)
  PROVE  Shape'
<1>1. /\ Entries /\ Slots /\ made \in Nat
      /\ cast \in Casts /\ locked \in BOOLEAN
      /\ added \in [hits : Nat, stores : Nat] /\ uses \in [Keys -> Nat]
      /\ proc[a].key \in Keys /\ proc[a].n \in Nat
      /\ proc[a].counter <= made /\ NoCounter <= made
      /\ slot[proc[a].key] \in 0 .. MaxHits
  BY LimitAssumption, ShapeFrom, ActorCopies DEF Slots, Hands, NoCounter
<1>2. CASE Get(a)
  <2>1. PICK k \in Keys : Moves(a, "holding", k, count[k], proc[a].counter)
    BY <1>2, GetEffect, Zenon
  <2>2. UNCHANGED <<cast, slot, value, made, locked, added, uses>> /\ SameEntries
    BY <1>2, Zenon DEF Get, counters
  <2>3. proc' \in [Actors -> Copies] /\ Hands'
    BY <1>1, <2>1, <2>2, HandsStep DEF EmptyHanded
  <2> QED
    BY <1>1, <2>2, <2>3, SameEntriesKept, Zenon DEF Slots, Shape, Entries
<1>3. CASE Refresh(a)
  <2>1. \/ Moves(a, "idle", Idle.key, 0, NoCounter)
        \/ Moves(a, "discard", proc[a].key, proc[a].n, proc[a].counter)
    BY <1>3, RefreshEffect, Zenon
  <2>2. UNCHANGED <<cast, slot, value, made, locked, added, uses>>
    BY <1>3, Zenon DEF Refresh, counters
  <2>3. proc' \in [Actors -> Copies] /\ Hands'
    BY <1>1, <2>1, <2>2, HandsStep DEF EmptyHanded
  <2>4. Entries'
    BY <1>1, <1>3, PutEntries DEF Refresh
  <2> QED
    BY <1>1, <2>2, <2>3, <2>4, Zenon DEF Slots, Shape, Entries
<1>4. CASE Discard(a)
  <2>1. Moves(a, "keep", proc[a].key, proc[a].n + Drained(slot[proc[a].key]), proc[a].counter)
    BY <1>4, DiscardEffect, Zenon
  <2>2. UNCHANGED <<cast, slot, made, locked, added, uses>> /\ SameEntries
    BY <1>4, Zenon DEF Discard
  <2>3. proc' \in [Actors -> Copies] /\ Hands'
    BY <1>1, <2>1, <2>2, HandsStep DEF EmptyHanded
  <2>4. value' \in [Counters -> Nat]
    BY <1>1, <1>4, SwapType, Zenon DEF Discard
  <2> QED
    BY <1>1, <2>2, <2>3, <2>4, SameEntriesKept, Zenon DEF Slots, Shape, Entries
<1>5. CASE KeepCounter(a)
  <2>1. Moves(a, "clean", proc[a].key, 0, NoCounter)
    BY <1>5, KeepCounterEffect, Zenon
  <2>2. UNCHANGED <<cast, slot, value, made, locked, added, uses>>
    BY <1>5, Zenon DEF KeepCounter, counters
  <2>3. proc' \in [Actors -> Copies] /\ Hands'
    BY <1>1, <2>1, <2>2, HandsStep
  <2>4. Entries'
    BY <1>1, <1>5, PutEntries, RemoveEntries, Zenon DEF KeepCounter
  <2> QED
    BY <1>1, <2>2, <2>3, <2>4 DEF Slots, Shape, Entries
<1>6. CASE CleanupEnd(a)
  <2>1. UNCHANGED <<cast, slot, value, made, locked, added, uses>> /\ SameEntries
    BY <1>6, Zenon DEF CleanupEnd, counters
  <2>2. proc' \in [Actors -> Copies] /\ Hands'
    BY <1>6, <2>1, EnforceEffect, QuietHands, Zenon
  <2> QED
    BY <1>1, <2>1, <2>2, SameEntriesKept, Zenon DEF Slots, Shape, Entries
<1> QED
  BY <1>2, <1>3, <1>4, <1>5, <1>6, ZenonT(60) DEF Prefetch

---------------------------------------------------------------------------
(* The counting is kept.                                                   *)

LEMMA WithinCount ==
  ASSUME FiniteSetFacts, NEW places
  PROVE  IsFiniteSet(Within(places)) /\ Cardinality(Within(places)) \in Nat
  BY LimitAssumption, SubsetCount, CountType, Zenon DEF Within

LEMMA WithinSame ==
  ASSUME NEW places, NEW a \in Actors, NEW pc, NEW key, NEW n, NEW counter,
         Moves(a, pc, key, n, counter), pc \in places <=> proc[a].pc \in places
  PROVE  Within(places)' = Within(places)
  BY Zenon DEF Within, Moves, Kept

LEMMA WithinEnter ==
  ASSUME FiniteSetFacts, NEW places, NEW a \in Actors, NEW pc, NEW key, NEW n, NEW counter,
         Moves(a, pc, key, n, counter), pc \in places, proc[a].pc \notin places
  PROVE  Cardinality(Within(places)') = Cardinality(Within(places)) + 1
<1>1. Within(places)' = Within(places) \cup {a} /\ a \notin Within(places)
  BY DEF Within, Moves, Kept
<1> QED
  BY <1>1, WithinCount, ElementCount, Zenon

LEMMA WithinLeave ==
  ASSUME FiniteSetFacts, NEW places, NEW a \in Actors, NEW pc, NEW key, NEW n, NEW counter,
         Moves(a, pc, key, n, counter), pc \notin places, proc[a].pc \in places
  PROVE  Cardinality(Within(places)') = Cardinality(Within(places)) - 1
<1>1. Within(places)' = Within(places) \ {a} /\ a \in Within(places)
  BY DEF Within, Moves, Kept
<1>2. Cardinality(Within(places) \ {a}) = Cardinality(Within(places)) - 1
  BY <1>1, WithinCount, ElementCount, Zenon
<1> QED
  BY <1>1, <1>2, Zenon

(* A step of somebody who does not begin or end a hit or a lookup.         *)
Askers == {"hit", "add", "lookup", "drain", "set"}

LEMMA CountingSame ==
  ASSUME FiniteSetFacts,
         Shape, Shape', Counting, NEW a \in Actors, NEW pc, NEW key, NEW n, NEW counter,
         Moves(a, pc, key, n, counter),
         \/ proc[a].pc \notin Askers /\ pc \notin Askers
         \/ proc[a].pc \in {"lookup", "drain", "set"} /\ pc \in {"lookup", "drain", "set"},
         UNCHANGED <<cast, made, added, uses>>,
         \A c \in Counters : value'[c] <= value[c]
  PROVE  Counting'
<1>1. Making' = Making
  BY WithinSame, Zenon DEF Making, Askers
<1>2. Hitting' = Hitting
  BY WithinSame, Zenon DEF Hitting, Askers
<1>3. Asking' = Asking
  BY WithinSame, Zenon DEF Asking, Askers
<1>4. Cardinality(Hitting) \in Nat
  BY WithinCount DEF Hitting
<1>5. \A c \in Counters : value[c] \in Nat /\ value'[c] \in Nat
  BY DEF Shape
<1>6. added.hits \in Nat
  BY DEF Shape
<1>7. ASSUME NEW c \in Counters
      PROVE  /\ value'[c] + Cardinality(Hitting) <= added.hits
             /\ c > made => value'[c] = 0
  BY <1>4, <1>5, <1>6 DEF Counting
<1> QED
  BY <1>1, <1>2, <1>3, <1>7 DEF Counting

LEMMA CountingQuiet ==
  ASSUME FiniteSetFacts, Shape, Shape', Counting, NEW a \in Actors, NEW places, Quiet(a, places),
         proc[a].pc \notin Askers, places \cap Askers = {},
         UNCHANGED <<cast, made, added, uses, value>>
  PROVE  Counting'
<1>1. PICK pc \in places : \/ Moves(a, pc, proc[a].key, 0, proc[a].counter)
                           \/ Moves(a, pc, Idle.key, 0, NoCounter)
  BY Zenon DEF Quiet
<1>2. pc \notin Askers
  BY <1>1, Zenon
<1>3. \A c \in Counters : value'[c] <= value[c]
  BY DEF Shape
<1> QED
  BY <1>1, <1>2, <1>3, CountingSame

LEMMA SwapLess ==
  ASSUME Shape, NEW c \in 0 .. MaxHits, Swap(c)
  PROVE  \A d \in Counters : value'[d] <= value[d]
  BY SwapType DEF Shape

LEMMA ConnectionCounting ==
  ASSUME FiniteSetFacts, Shape, Shape', Counting, NEW a \in Actors, Connection(a)
  PROVE  Counting'
<1>1. /\ made \in Nat /\ added.hits \in Nat /\ added.stores \in Nat
      /\ added \in [hits : Nat, stores : Nat]
      /\ cast.hits \in Nat /\ cast.stores \in Nat
      /\ \A c \in Counters : value[c] \in Nat
      /\ \A k \in Keys : uses[k] \in Nat
      /\ proc[a].key \in Keys /\ proc[a].counter \in 0 .. MaxHits
  BY CastType, ActorCopies DEF Shape
<1>2. /\ Cardinality(Making) \in Nat /\ Cardinality(Hitting) \in Nat /\ Cardinality(Asking) \in Nat
  BY WithinCount, Zenon DEF Making, Hitting, Asking
<1>3. \A c \in Counters : value[c] <= value[c]
  BY <1>1
<1>4. CASE Hit(a)
  <2>1. PICK k \in Keys : Moves(a, "hit", k, proc[a].n, proc[a].counter)
    BY <1>4, HitEffect, Zenon
  <2>2. proc[a].pc = "idle"
    BY <1>4, Zenon DEF Hit, At
  <2>3. /\ Cardinality(Making') = Cardinality(Making) + 1
        /\ Cardinality(Hitting') = Cardinality(Hitting) + 1
        /\ Cardinality(Asking') = Cardinality(Asking) + 1
    BY <2>1, <2>2, WithinEnter, Zenon DEF Making, Hitting, Asking
  <2>4. /\ added'.hits = added.hits + 1 /\ added'.stores = added.stores
        /\ added.hits < cast.hits /\ UNCHANGED <<cast, made, value, uses>>
    BY <1>1, <1>4, Zenon DEF Hit, counters
  <2> QED
    BY <1>1, <1>2, <2>3, <2>4 DEF Counting
<1>5. CASE LoadOrStore(a)
  <2>1. PICK c \in 1 .. MaxHits : Moves(a, "add", proc[a].key, proc[a].n, c)
    BY <1>5, LoadOrStoreEffect
  <2>2. proc[a].pc = "hit"
    BY <1>5 DEF LoadOrStore, At
  <2>3. Cardinality(Making') = Cardinality(Making) - 1
    BY <2>1, <2>2, WithinLeave DEF Making
  <2>4. Hitting' = Hitting /\ Asking' = Asking
    BY <2>1, <2>2, WithinSame, Zenon DEF Hitting, Asking
  <2>5. /\ UNCHANGED <<cast, value, added, uses>>
        /\ made' = IF slot[proc[a].key] = NoCounter THEN made + 1 ELSE made
    BY <1>5, Zenon DEF LoadOrStore
  <2>6. made' \in Nat /\ made <= made' /\ made' <= made + 1
    BY <1>1, <2>5
  <2>7. made' + Cardinality(Making') <= added.hits
    BY <1>1, <1>2, <2>3, <2>6 DEF Counting
  <2>8. \A c1 \in Counters : c1 > made' => value[c1] = 0
    BY <1>1, <2>6 DEF Counting, Counters
  <2> QED
    BY <2>4, <2>5, <2>7, <2>8, ZenonT(60) DEF Counting
<1>6. CASE AddHit(a)
  <2>1. Moves(a, "idle", Idle.key, 0, NoCounter)
    BY <1>6, AddHitEffect, Zenon
  <2>2. proc[a].pc = "add"
    BY <1>6, Zenon DEF AddHit, At
  <2>3. Making' = Making
    BY <2>1, <2>2, WithinSame, ZenonT(60) DEF Making
  <2>4. /\ Cardinality(Hitting') = Cardinality(Hitting) - 1
        /\ Cardinality(Asking') = Cardinality(Asking) - 1
    BY <2>1, <2>2, WithinLeave DEF Hitting, Asking
  <2>5. proc[a].counter \in Counters /\ proc[a].counter <= made
    <3>1. proc[a].counter # NoCounter /\ proc[a].counter <= made
      BY <2>2, Zenon DEF Shape, Hands
    <3> QED
      BY <1>1, <3>1, LimitAssumption DEF Counters, NoCounter
  <2>6. /\ UNCHANGED <<cast, made, added>>
        /\ value' = [value EXCEPT ![proc[a].counter] = @ + 1]
        /\ uses' = [uses EXCEPT ![proc[a].key] = @ + 1]
    BY <1>6, ZenonT(60) DEF AddHit
  <2>7. ASSUME NEW c \in Counters
        PROVE  /\ value'[c] <= value[c] + 1 /\ value'[c] \in Nat
               /\ c > made => value'[c] = value[c]
    <3>1. value'[c] = IF c = proc[a].counter THEN value[c] + 1 ELSE value[c]
      BY <2>5, <2>6, ZenonT(60) DEF Shape
    <3>2. c > made => c # proc[a].counter
      BY <1>1, <2>5 DEF Counters
    <3> QED
      BY <1>1, <3>1, <3>2
  <2>8. \A k \in Keys : uses'[k] <= uses[k] + 1 /\ uses'[k] \in Nat
    BY <1>1, <2>6 DEF Shape
  <2> QED
    BY <1>1, <1>2, <2>3, <2>4, <2>6, <2>7, <2>8 DEF Counting
<1>7. CASE Miss(a)
  <2>1. PICK k \in Keys : Moves(a, "lookup", k, count[k], proc[a].counter)
    BY <1>7, MissEffect, Zenon
  <2>2. proc[a].pc = "idle"
    BY <1>7, Zenon DEF Miss, At
  <2>3. Cardinality(Asking') = Cardinality(Asking) + 1
    BY <2>1, <2>2, WithinEnter, Zenon DEF Asking
  <2>4. Making' = Making /\ Hitting' = Hitting
    BY <2>1, <2>2, WithinSame, Zenon DEF Making, Hitting
  <2>5. /\ added'.stores = added.stores + 1 /\ added'.hits = added.hits
        /\ added.stores < cast.stores /\ UNCHANGED <<cast, made, value, uses>>
    BY <1>1, <1>7 DEF Miss, counters
  <2> QED
    BY <1>1, <1>2, <2>3, <2>4, <2>5 DEF Counting
<1>8. CASE Load(a)
  BY <1>3, <1>8, LoadEffect, CountingSame, Zenon DEF Load, At, counters
<1>9. CASE Drain(a)
  <2>1. \A c \in Counters : value'[c] <= value[c]
    BY <1>1, <1>9, SwapLess, Zenon DEF Drain
  <2> QED
    BY <1>9, <2>1, DrainEffect, CountingSame, Zenon DEF Drain, At
<1>10. CASE Store(a)
  <2>1. Moves(a, "enforce", Idle.key, 0, NoCounter)
    BY <1>10, StoreEffect, Zenon
  <2>2. proc[a].pc = "set"
    BY <1>10, Zenon DEF Store, At
  <2>3. Making' = Making /\ Hitting' = Hitting
    BY <2>1, <2>2, WithinSame, ZenonT(60) DEF Making, Hitting
  <2>4. Cardinality(Asking') = Cardinality(Asking) - 1
    BY <2>1, <2>2, WithinLeave DEF Asking
  <2>5. /\ UNCHANGED <<cast, made, added, value>>
        /\ uses' = [uses EXCEPT ![proc[a].key] = @ + 1]
    BY <1>10 DEF Store, counters
  <2>6. \A k \in Keys : uses'[k] <= uses[k] + 1 /\ uses'[k] \in Nat
    BY <1>1, <2>5 DEF Shape
  <2> QED
    BY <1>1, <1>2, <2>3, <2>4, <2>5, <2>6 DEF Counting
<1>11. CASE Enforce(a) \/ TryLock(a)
  BY <1>11, EnforceEffect, CountingQuiet, ZenonT(60) DEF Enforce, TryLock, At, Askers, counters
<1>12. CASE Recheck(a)
  BY <1>12, BeginFlushEffect, CountingQuiet DEF Recheck, At, Askers, counters
<1> QED
  BY <1>4, <1>5, <1>6, <1>7, <1>8, <1>9, <1>10, <1>11, <1>12, ZenonT(60) DEF Connection

LEMMA OtherCounting ==
  ASSUME FiniteSetFacts, Shape, Shape', Counting, NEW a \in Actors, Tidy(a) \/ Prefetch(a)
  PROVE  Counting'
<1>1. proc[a].key \in Keys /\ slot[proc[a].key] \in 0 .. MaxHits
  BY ActorCopies, Zenon
<1>2. \A c \in Counters : value[c] <= value[c]
  BY DEF Shape
<1>3. \A k \in Keys : slot[k] \in 0 .. MaxHits
  BY Zenon DEF Shape
<1>4. CASE TidyCache(a) \/ FlushEnd(a) \/ TidyEnd(a)
  BY <1>4, BeginFlushEffect, CountingQuiet, Zenon DEF TidyCache, FlushEnd, TidyEnd, At, Askers,
                                                      counters
<1>5. CASE PurgeCache(a)
  BY <1>5, PurgeCacheEffect, CountingQuiet, Zenon DEF PurgeCache, At, Askers, counters
<1>6. CASE FlushCacheHitCounters(a)
  <2>1. PICK k \in Keys : \E pc \in {"flush", "clean", "update"} :
          Swap(slot[k]) /\ Moves(a, pc, k, Drained(slot[k]), proc[a].counter)
    BY <1>6, FlushCacheHitCountersEffect, Zenon
  <2>2. \A c \in Counters : value'[c] <= value[c]
    BY <1>3, <2>1, SwapLess, Zenon
  <2> QED
    BY <1>6, <2>1, <2>2, CountingSame, Zenon DEF FlushCacheHitCounters, At, Askers
<1>7. CASE FlushUpdate(a)
  BY <1>2, <1>7, FlushUpdateEffect, CountingSame, Zenon DEF FlushUpdate, At, Askers, counters
<1>8. CASE CleanupCheck(a) \/ CleanupDelete(a)
  <2>1. AfterClean(proc[a]).pc \notin Askers /\ proc[a].pc \notin Askers
    BY <1>8, ActorCopies, AfterCleanType, Zenon DEF CleanupCheck, CleanupDelete, At, Askers
  <2>2. UNCHANGED <<cast, made, added, uses, value>>
    BY <1>8, Zenon DEF CleanupCheck, CleanupDelete, counters
  <2>3. "delete" \notin Askers
    BY Zenon DEF Askers
  <2> QED
    BY <1>2, <1>8, <2>1, <2>2, <2>3, CleanupEffect, CountingSame, ZenonT(60)
<1>9. CASE Items(a)
  BY <1>9, ItemsEffect, CountingQuiet, Zenon DEF Items, At, Askers, counters
<1>10. CASE Expire(a)
  <2>1. PICK k \in Keys : \E pc \in {"clean", "expire"}, key \in Keys :
          /\ Moves(a, pc, key, proc[a].n, proc[a].counter)
          /\ Swap(slot[k]) \/ UNCHANGED value
    BY <1>1, <1>10, ExpireEffect, Zenon
  <2>2. \A c \in Counters : value'[c] <= value[c]
    BY <1>2, <1>3, <2>1, SwapLess, Zenon
  <2> QED
    BY <1>10, <2>1, <2>2, CountingSame, Zenon DEF Expire, At, Askers
<1>11. CASE Partition(a)
  BY <1>11, PartitionEffect, CountingQuiet, Zenon DEF Partition, At, Askers, counters
<1>12. CASE Evict(a)
  BY <1>2, <1>12, EvictEffect, CountingSame, Zenon DEF Evict, At, Askers
<1>13. CASE Get(a)
  BY <1>2, <1>13, GetEffect, CountingSame, Zenon DEF Get, At, Askers, counters
<1>14. CASE Refresh(a)
  BY <1>2, <1>14, RefreshEffect, CountingSame, Zenon DEF Refresh, At, Askers, counters
<1>15. CASE Discard(a)
  <2>1. \A c \in Counters : value'[c] <= value[c]
    BY <1>1, <1>15, SwapLess DEF Discard
  <2> QED
    BY <1>15, <2>1, DiscardEffect, CountingSame, Zenon DEF Discard, At, Askers
<1>16. CASE KeepCounter(a)
  BY <1>2, <1>16, KeepCounterEffect, CountingSame, Zenon DEF KeepCounter, At, Askers, counters
<1>17. CASE CleanupEnd(a)
  BY <1>17, EnforceEffect, CountingQuiet, Zenon DEF CleanupEnd, At, Askers, counters
<1> QED
  BY <1>4, <1>5, <1>6, <1>7, <1>8, <1>9, <1>10, <1>11, <1>12, <1>13, <1>14,
     <1>15, <1>16, <1>17, ZenonT(60)
     DEF Tidy, Prefetch

---------------------------------------------------------------------------
(* The limit. The entries that somebody has judged, or is about to, are    *)
(* few enough, or there is a prune that still has to get rid of some: it   *)
(* has all of them in its list, or it has all but few enough in its todo.  *)

Seen == Cached \ unseen

Responsible(a) ==
  \/ /\ proc[a].pc \in {"expire", "clean", "delete"} /\ proc[a].then = "expire"
     /\ Seen \subseteq proc[a].judged \cup proc[a].todo
  \/ /\ proc[a].pc = "evict"
     /\ \E kept \in SUBSET Keys :
          Cardinality(kept) <= CACHE_MAX_ENTRIES /\ Seen \subseteq kept \cup proc[a].todo

FewSeen == Cardinality(Seen) <= CACHE_MAX_ENTRIES

Pruned == FewSeen \/ \E a \in Actors : Responsible(a)

LEMMA KeysFinite ==
  ASSUME FiniteSetFacts, NEW S \in SUBSET Keys
  PROVE  /\ IsFiniteSet(S) /\ Cardinality(S) \in Nat
         /\ \A T \in SUBSET S : Cardinality(T) \in Nat /\ Cardinality(T) <= Cardinality(S)
  BY LimitAssumption, SubsetCount, CountType

LEMMA CachedKeys == Cached \subseteq Keys /\ Seen \subseteq Keys
  BY DEF Cached, Seen

(* Putting an entry adds none to the judged ones, unless the cache is      *)
(* within its limit; an entry that is discarded from a list is none.       *)
LEMMA PutSeen ==
  ASSUME Entries, NEW k \in Keys, NEW what \in {"stats", "none", "policy"}, NEW n \in Nat,
         Put(k, what, n)
  PROVE  /\ FewSeen' \/ Seen' \subseteq Seen
         /\ Unjudged(k) => FewSeen' \/ Seen' \subseteq Seen \ {k}
<1>1. Cached' = Cached \cup {k}
  BY PutEntries, Zenon
<1>2. CASE Cardinality(Cached \cup {k}) <= CACHE_MAX_ENTRIES
  <2>1. Seen' = Cached \cup {k}
    BY <1>1, <1>2, Zenon DEF Put, Seen
  <2> QED
    BY <1>2, <2>1, Zenon DEF FewSeen
<1>3. CASE ~(Cardinality(Cached \cup {k}) <= CACHE_MAX_ENTRIES)
  <2>1. unseen' = IF Unjudged(k) THEN unseen \cup {k} ELSE unseen
    BY <1>3, Zenon DEF Put
  <2>2. ~Unjudged(k) => k \in Cached
    BY Zenon DEF Unjudged, Cached
  <2> QED
    BY <1>1, <2>1, <2>2, Zenon DEF Seen
<1> QED
  BY <1>2, <1>3, Zenon

LEMMA RemoveSeen ==
  ASSUME Entries, NEW k \in Keys, Remove(k)
  PROVE  FewSeen' \/ Seen' \subseteq Seen \ {k}
<1>1. Cached' = Cached \ {k}
  BY RemoveEntries, Zenon
<1>2. CASE Cardinality(Cached \ {k}) <= CACHE_MAX_ENTRIES
  <2>1. Seen' = Cached \ {k}
    BY <1>1, <1>2, Zenon DEF Remove, Seen
  <2> QED
    BY <1>2, <2>1, Zenon DEF FewSeen
<1>3. CASE ~(Cardinality(Cached \ {k}) <= CACHE_MAX_ENTRIES)
  BY <1>1, <1>3, Zenon DEF Remove, Seen
<1> QED
  BY <1>2, <1>3, Zenon

LEMMA SameSeen ==
  ASSUME SameEntries
  PROVE  Seen' = Seen
  BY Zenon DEF SameEntries, Seen, Cached

(* Who is responsible stays so while others step, and it is enough that    *)
(* the actor of a step does, too, or ends with few enough.                 *)
LEMMA PrunedStep ==
  ASSUME FiniteSetFacts, Shape, Shape', Pruned, NEW a \in Actors, \A b \in Actors \ {a} : Kept(b),
         FewSeen' \/ Seen' \subseteq Seen,
         Responsible(a) /\ Seen' \subseteq Seen => FewSeen' \/ Responsible(a)'
  PROVE  Pruned'
<1>1. CASE FewSeen'
  BY <1>1, ZenonT(60) DEF Pruned
<1>2. CASE FewSeen /\ Seen' \subseteq Seen
  BY <1>2, KeysFinite, CachedKeys, LimitAssumption DEF FewSeen, Pruned
<1>3. ASSUME NEW b \in Actors, Responsible(b), Seen' \subseteq Seen
      PROVE  Pruned'
  <2>1. CASE b = a
    BY <1>3, <2>1, Zenon DEF Pruned
  <2>2. CASE b # a
    <3>1. Kept(b)
      BY <2>2, Zenon
    <3>2. Responsible(b)'
      BY <1>3, <3>1, Zenon DEF Responsible, Kept
    <3> QED
      BY <3>2, Zenon DEF Pruned
  <2> QED
    BY <2>1, <2>2, Zenon
<1> QED
  BY <1>1, <1>2, <1>3, Zenon DEF Pruned

LEMMA QuietKept ==
  ASSUME NEW a, NEW places, Quiet(a, places)
  PROVE  \A b \in Actors \ {a} : Kept(b)
  BY Zenon DEF Quiet, Moves

(* Somebody outside of these places is not responsible.                    *)
Pruning == {"expire", "clean", "delete", "evict"}

LEMMA ConnectionPruned ==
  ASSUME FiniteSetFacts, Shape, Shape', Counting, Pruned, NEW a \in Actors, Connection(a)
  PROVE  Pruned'
<1>1. proc[a].pc \notin Pruning
  BY Zenon DEF Connection, Hit, LoadOrStore, AddHit, Miss, Load, Drain, Store, Enforce, TryLock,
         Recheck, At, Pruning
<1>2. ~Responsible(a)
  BY <1>1, Zenon DEF Responsible, Pruning
<1>3. Entries /\ proc[a].key \in Keys /\ proc[a].n \in Nat
  BY ShapeFrom, ActorCopies, Zenon
<1>4. \A b \in Actors \ {a} : Kept(b)
  BY HitEffect, LoadOrStoreEffect, AddHitEffect, MissEffect, LoadEffect, DrainEffect,
     StoreEffect, EnforceEffect, BeginFlushEffect, QuietKept, ZenonT(60) DEF Connection, Moves
<1>5. FewSeen' \/ Seen' \subseteq Seen
  <2>1. CASE Store(a)
    BY <1>3, <2>1, PutSeen, Zenon DEF Store
  <2>2. CASE ~Store(a)
    BY <2>2, SameSeen, Zenon DEF Connection, Hit, LoadOrStore, AddHit, Miss, Load, Drain, Enforce,
       TryLock, Recheck
  <2> QED
    BY <2>1, <2>2, Zenon
<1> QED
  BY <1>2, <1>4, <1>5, PrunedStep, Zenon

LEMMA PrefetchPruned ==
  ASSUME FiniteSetFacts, Shape, Shape', Pruned, NEW a \in Actors, Prefetch(a)
  PROVE  Pruned'
<1>1. proc[a].pc \notin Pruning
  BY Zenon DEF Prefetch, Get, Refresh, Discard, KeepCounter, CleanupEnd, At, Pruning
<1>2. ~Responsible(a)
  BY <1>1, Zenon DEF Responsible, Pruning
<1>3. Entries /\ proc[a].key \in Keys /\ proc[a].n \in Nat
  BY ShapeFrom, ActorCopies, Zenon
<1>4. \A b \in Actors \ {a} : Kept(b)
  BY GetEffect, RefreshEffect, DiscardEffect, KeepCounterEffect, EnforceEffect, QuietKept, Zenon
     DEF Prefetch, Moves
<1>5. FewSeen' \/ Seen' \subseteq Seen
  <2>1. CASE Refresh(a)
    BY <1>3, <2>1, PutSeen, Zenon DEF Refresh
  <2>2. CASE KeepCounter(a)
    BY <1>3, <2>2, PutSeen, RemoveSeen, Zenon DEF KeepCounter
  <2>3. CASE Get(a) \/ Discard(a) \/ CleanupEnd(a)
    BY <2>3, SameSeen, Zenon DEF Get, Discard, CleanupEnd
  <2> QED
    BY <2>1, <2>2, <2>3, Zenon DEF Prefetch
<1> QED
  BY <1>2, <1>4, <1>5, PrunedStep, Zenon

(* partitionCacheEntriesForLimit leaves few enough.                        *)
LEMMA PartitionKeeps ==
  ASSUME FiniteSetFacts, NEW S \in SUBSET Keys, NEW T \in SUBSET S,
         Cardinality(T) = EvictCount(Cardinality(S))
  PROVE  Cardinality(S \ T) <= CACHE_MAX_ENTRIES
<1>1. IsFiniteSet(S) /\ Cardinality(S) \in Nat /\ IsFiniteSet(T)
  BY KeysFinite, Zenon
<1>2. Cardinality(S \ T) = Cardinality(S) - Cardinality(S \cap T)
  BY <1>1, UnionCount, Zenon
<1>3. S \cap T = T
  OBVIOUS
<1> QED
  BY <1>1, <1>2, <1>3, LimitAssumption DEF EvictCount

LEMMA TidyPruned ==
  ASSUME FiniteSetFacts, Shape, Shape', Pruned, NEW a \in Actors, Tidy(a)
  PROVE  Pruned'
<1>1. Entries /\ proc[a].key \in Keys /\ proc[a].n \in Nat
  BY ShapeFrom, ActorCopies
<1>2. CASE TidyCache(a) \/ FlushEnd(a)
  <2>1. proc[a].pc \notin Pruning /\ Seen' = Seen
    BY <1>2, SameSeen DEF TidyCache, FlushEnd, At, Pruning
  <2>2. ~Responsible(a)
    BY <2>1, Zenon DEF Responsible, Pruning
  <2> QED
    BY <1>2, <2>1, <2>2, BeginFlushEffect, QuietKept, PrunedStep
<1>3. CASE PurgeCache(a)
  <2>1. Seen' = {}
    BY <1>3, Zenon DEF PurgeCache, Seen, Cached
  <2> QED
    BY <2>1, EmptyCount, LimitAssumption DEF Pruned, FewSeen
<1>4. CASE FlushCacheHitCounters(a)
  <2>1. proc[a].pc \notin Pruning /\ Seen' = Seen
    BY <1>4, SameSeen, Zenon DEF FlushCacheHitCounters, At, Pruning
  <2>2. ~Responsible(a)
    BY <2>1 DEF Responsible, Pruning
  <2>3. \A b \in Actors \ {a} : Kept(b)
    BY <1>4, FlushCacheHitCountersEffect, Zenon DEF Moves
  <2> QED
    BY <2>1, <2>2, <2>3, PrunedStep, Zenon
<1>5. CASE FlushUpdate(a)
  <2>1. proc[a].pc \notin Pruning
    BY <1>5, Zenon DEF FlushUpdate, At, Pruning
  <2>2. ~Responsible(a)
    BY <2>1 DEF Responsible, Pruning
  <2>3. \A b \in Actors \ {a} : Kept(b)
    BY <1>5, FlushUpdateEffect, Zenon DEF Moves
  <2>4. FewSeen' \/ Seen' \subseteq Seen
    <3>1. CASE kind[proc[a].key] = "absent"
      BY <1>5, <3>1, SameSeen, Zenon DEF FlushUpdate
    <3>2. CASE kind[proc[a].key] # "absent"
      <4>1. kind[proc[a].key] \in {"stats", "none", "policy"} /\ count[proc[a].key] + proc[a].n \in Nat
        BY <1>1, <3>2 DEF Entries
      <4> QED
        BY <1>1, <1>5, <3>2, <4>1, PutSeen, ZenonT(60) DEF FlushUpdate
    <3> QED
      BY <3>1, <3>2, Zenon
  <2> QED
    BY <2>2, <2>3, <2>4, PrunedStep
<1>6. CASE CleanupCheck(a) \/ CleanupDelete(a)
  <2>1. Seen' = Seen /\ proc[a].pc \in {"clean", "delete"}
    BY <1>6, SameSeen, Zenon DEF CleanupCheck, CleanupDelete, At
  <2>2. /\ ListKept(a) /\ \A b \in Actors \ {a} : Kept(b)
        /\ proc'[a].pc = "delete" \/ proc'[a].pc = AfterClean(proc[a]).pc
    BY <1>6, CleanupEffect, Zenon DEF Moves
  <2>3. proc[a].then = "expire" => proc'[a].pc \in {"delete", "expire"}
    BY <2>2, ActorCopies, AfterCleanType, Zenon
  <2>4. Responsible(a) => Responsible(a)'
    BY <2>1, <2>2, <2>3, Zenon DEF Responsible, ListKept
  <2> QED
    BY <2>1, <2>2, <2>4, PrunedStep, Zenon
<1>7. CASE Items(a)
  <2>1. Seen' = Cached
    BY <1>7, Zenon DEF Items, Seen, Cached
  <2>2. proc'[a].pc = "expire" /\ proc'[a].then = "expire"
        /\ proc'[a].judged \cup proc'[a].todo = Cached
    BY <1>7, ItemsEffect, Zenon DEF Quiet, Moves
  <2> QED
    BY <2>1, <2>2, Zenon DEF Pruned, Responsible
<1>8. CASE Expire(a)
  <2>1. PICK k \in proc[a].todo :
           LET n == count[k] + Drained(slot[k]) IN
           /\ k \in Keys /\ n \in Nat
           /\ proc'[a].todo = proc[a].todo \ {k} /\ proc'[a].then = proc[a].then
           /\ \/ /\ Swap(slot[k])
                 /\ IF n = 0 THEN Remove(k) ELSE Put(k, "stats", n)
                 /\ Moves(a, "clean", k, proc[a].n, proc[a].counter)
                 /\ proc'[a].judged = proc[a].judged
              \/ /\ SameEntries /\ UNCHANGED value
                 /\ Moves(a, "expire", proc[a].key, proc[a].n, proc[a].counter)
                 /\ proc'[a].judged = proc[a].judged \cup ({k} \cap Cached)
    BY <1>8, ExpireEffect, Zenon
  <2>2. proc[a].pc = "expire"
    BY <1>8, Zenon DEF Expire, At
  <2>3. Unjudged(k)
    BY <2>2, Zenon DEF Unjudged
  <2>4. \A b \in Actors \ {a} : Kept(b)
    BY <2>1, Zenon DEF Moves
  <2>5. CASE Moves(a, "clean", k, proc[a].n, proc[a].counter) /\ proc'[a].judged = proc[a].judged
             /\ (Remove(k) \/ Put(k, "stats", count[k] + Drained(slot[k])))
    <3>1. FewSeen' \/ Seen' \subseteq Seen \ {k}
      BY <1>1, <2>1, <2>3, <2>5, PutSeen, RemoveSeen, ZenonT(60)
    <3>2. proc'[a].pc = "clean"
      BY <2>5, Zenon DEF Moves
    <3>3. Responsible(a) => FewSeen' \/ Responsible(a)'
      BY <2>1, <2>2, <2>5, <3>1, <3>2, ZenonT(60) DEF Responsible
    <3> QED
      BY <2>4, <3>1, <3>3, PrunedStep, ZenonT(60)
  <2>6. CASE SameEntries /\ Moves(a, "expire", proc[a].key, proc[a].n, proc[a].counter)
             /\ proc'[a].judged = proc[a].judged \cup ({k} \cap Cached)
    <3>1. Seen' = Seen /\ Seen \subseteq Cached
      BY <2>6, SameSeen, Zenon DEF Seen
    <3>2. proc'[a].pc = "expire"
      BY <2>6, Zenon DEF Moves
    <3>3. Responsible(a) => Responsible(a)'
      BY <2>1, <2>2, <2>6, <3>1, <3>2, Zenon DEF Responsible
    <3> QED
      BY <2>4, <3>1, <3>3, PrunedStep, ZenonT(60)
  <2> QED
    BY <2>1, <2>5, <2>6, Zenon
<1>9. CASE Partition(a)
  <2>1. Seen' = Seen /\ proc[a].pc = "expire" /\ proc[a].todo = {}
    BY <1>9, SameSeen, Zenon DEF Partition, At
  <2>2. /\ proc'[a].pc = "evict" /\ \A b \in Actors \ {a} : Kept(b)
        /\ proc'[a].todo \subseteq proc[a].judged
        /\ Cardinality(proc'[a].todo) = EvictCount(Cardinality(proc[a].judged))
    BY <1>9, PartitionEffect, Zenon DEF Quiet, Moves
  <2> DEFINE kept == proc[a].judged \ proc'[a].todo
  <2>3. proc[a].judged \subseteq Keys
    BY Zenon DEF Shape, Copies
  <2>4. kept \in SUBSET Keys /\ Cardinality(kept) <= CACHE_MAX_ENTRIES
    BY <2>2, <2>3, PartitionKeeps, Zenon
  <2>5. Responsible(a) => Seen' \subseteq kept \cup proc'[a].todo
    BY <2>1, Zenon DEF Responsible
  <2> HIDE DEF kept
  <2>6. Responsible(a) => Responsible(a)'
    BY <2>2, <2>4, <2>5, Zenon DEF Responsible
  <2> QED
    BY <2>1, <2>2, <2>6, PrunedStep, Zenon
<1>10. CASE Evict(a)
  <2>1. PICK k \in proc[a].todo :
           /\ k \in Keys
           /\ proc'[a].todo = proc[a].todo \ {k}
           /\ Moves(a, "evict", proc[a].key, proc[a].n, proc[a].counter)
           /\ \/ Remove(k) /\ slot' = [slot EXCEPT ![k] = NoCounter]
              \/ /\ unseen' = IF Over THEN unseen \cup ({k} \cap Cached) ELSE {}
                 /\ UNCHANGED <<kind, count, slot>>
    BY <1>10, EvictEffect, Zenon
  <2>2. proc[a].pc = "evict" /\ proc'[a].pc = "evict" /\ \A b \in Actors \ {a} : Kept(b)
    BY <1>10, <2>1, Zenon DEF Evict, At, Moves
  <2>3. FewSeen' \/ Seen' \subseteq Seen \ {k}
    <3>1. CASE Remove(k)
      BY <1>1, <2>1, <3>1, RemoveSeen, Zenon
    <3>2. CASE UNCHANGED kind /\ unseen' = IF Over THEN unseen \cup ({k} \cap Cached) ELSE {}
      <4>1. Cached' = Cached
        BY <3>2, Zenon DEF Cached
      <4>2. CASE Over
        BY <3>2, <4>1, <4>2, ZenonT(60) DEF Seen
      <4>3. CASE ~Over
        <5>1. Seen' = Cached
          BY <3>2, <4>1, <4>3, Zenon DEF Seen
        <5>2. Cardinality(Cached) \in Nat
          BY CachedKeys, KeysFinite, Zenon
        <5> QED
          BY <4>3, <5>1, <5>2, LimitAssumption DEF Over, FewSeen
      <4> QED
        BY <4>2, <4>3, Zenon
    <3> QED
      BY <2>1, <3>1, <3>2, Zenon
  <2>4. Responsible(a) => FewSeen' \/ Responsible(a)'
    <3>1. SUFFICES ASSUME Responsible(a), ~FewSeen'
                   PROVE  Responsible(a)'
      BY Zenon
    <3>2. PICK kept \in SUBSET Keys :
            Cardinality(kept) <= CACHE_MAX_ENTRIES /\ Seen \subseteq kept \cup proc[a].todo
      BY <2>2, <3>1, Zenon DEF Responsible
    <3>3. Seen' \subseteq kept \cup proc'[a].todo
      BY <2>1, <2>3, <3>1, <3>2, Zenon
    <3> QED
      BY <2>2, <3>2, <3>3, Zenon DEF Responsible
  <2> QED
    BY <2>2, <2>3, <2>4, PrunedStep, Zenon
<1>11. CASE TidyEnd(a)
  <2>1. Seen' = Seen /\ proc[a].pc = "evict" /\ proc[a].todo = {}
    BY <1>11, SameSeen, ZenonT(60) DEF TidyEnd, At
  <2>2. Responsible(a) => FewSeen'
    <3>1. SUFFICES ASSUME Responsible(a) PROVE FewSeen'
      BY Zenon
    <3>2. PICK kept \in SUBSET Keys :
            Cardinality(kept) <= CACHE_MAX_ENTRIES /\ Seen \subseteq kept \cup proc[a].todo
      BY <2>1, <3>1, Zenon DEF Responsible
    <3>3. Cardinality(Seen) <= Cardinality(kept) /\ Cardinality(Seen) \in Nat
          /\ Cardinality(kept) \in Nat
      BY <2>1, <3>2, KeysFinite, Zenon
    <3> QED
      BY <2>1, <3>2, <3>3, LimitAssumption DEF FewSeen
  <2> QED
    BY <1>11, <2>1, <2>2, BeginFlushEffect, QuietKept, PrunedStep, ZenonT(60)
<1> QED
  BY <1>2, <1>3, <1>4, <1>5, <1>6, <1>7, <1>8, <1>9, <1>10, <1>11, ZenonT(60) DEF Tidy

---------------------------------------------------------------------------
(* The inductive invariant of the limit.                                   *)

Limited == Shape /\ Counting /\ Pruned

LEMMA InitShape ==
  ASSUME Init
  PROVE  Shape
<1>1. cast \in Casts /\ proc = [a \in Actors |-> Idle]
  BY Zenon DEF Init
<1>2. /\ kind \in [Keys -> {"absent", "stats", "none", "policy"}]
      /\ count \in [Keys -> Nat] /\ uses \in [Keys -> Nat] /\ value \in [Counters -> Nat]
      /\ unseen \subseteq Cached
  BY Zenon DEF Init
<1>3. /\ slot \in [Keys -> 0 .. MaxHits] /\ \A k \in Keys : slot[k] <= made
      /\ made \in 0 .. MaxHits /\ locked \in BOOLEAN /\ added \in [hits : Nat, stores : Nat]
  <2>1. made = 0 /\ slot = [k \in Keys |-> 0] /\ 0 \in 0 .. MaxHits
    BY LimitAssumption DEF Init, NoCounter
  <2>2. locked \in BOOLEAN /\ added \in [hits : Nat, stores : Nat]
    BY ZenonT(60) DEF Init
  <2> QED
    BY <2>1, <2>2
<1>4. proc \in [Actors -> Copies] /\ Hands
  BY <1>1, IdleType DEF Hands, EmptyHanded, Init, NoCounter
<1> QED
  BY <1>1, <1>2, <1>3, <1>4, ZenonT(60) DEF Shape

LEMMA InitLimited ==
  ASSUME FiniteSetFacts, Init
  PROVE  Limited
<1>1. Shape
  BY InitShape, Zenon
<1>2. \A a \in Actors : proc[a].pc = "idle" /\ proc[a].n = 0 /\ proc[a].counter = NoCounter
  BY IdleType, ZenonT(60) DEF Init
<1>3. Counting
  <2>1. Making = {} /\ Hitting = {} /\ Asking = {}
    BY <1>2, Zenon DEF Making, Hitting, Asking, Within
  <2>2. Cardinality(Making) = 0 /\ Cardinality(Hitting) = 0 /\ Cardinality(Asking) = 0
    BY <2>1, EmptyCount, ZenonT(60)
  <2>3. cast.hits \in Nat /\ cast.stores \in Nat
    BY <1>1, CastType, LimitAssumption DEF Shape
  <2> QED
    BY <2>2, <2>3 DEF Init, Counting
<1>4. Pruned
  <2>1. Seen = cast.loaded
    BY LimitAssumption, Zenon DEF Init, Seen, Cached
  <2> QED
    BY <2>1, LimitAssumption, Zenon DEF Init, Pruned, FewSeen
<1> QED
  BY <1>1, <1>3, <1>4, Zenon DEF Limited

LEMMA NextLimited ==
  ASSUME FiniteSetFacts, Limited, [Next]_vars
  PROVE  Limited'
<1>1. CASE UNCHANGED vars
  <2>1. Shape'
    BY <1>1, Zenon DEF Limited, vars, counters, Shape, Hands, Cached
  <2>2. Counting'
    BY <1>1, Zenon DEF Limited, vars, counters, Counting, Making, Hitting, Asking, Within
  <2>3. Pruned'
    BY <1>1, ZenonT(60) DEF Limited, vars, Pruned, FewSeen, Responsible, Seen, Cached
  <2> QED
    BY <2>1, <2>2, <2>3, Zenon DEF Limited
<1>2. ASSUME NEW a \in Actors, Connection(a)
      PROVE  Limited'
  <2>1. Shape'
    BY <1>2, ConnectionShape, Zenon DEF Limited
  <2>2. Counting'
    BY <1>2, <2>1, ConnectionCounting, Zenon DEF Limited
  <2>3. Pruned'
    BY <1>2, <2>1, ConnectionPruned, ZenonT(60) DEF Limited
  <2> QED
    BY <2>1, <2>2, <2>3, Zenon DEF Limited
<1>3. ASSUME NEW a \in Actors, Tidy(a)
      PROVE  Limited'
  <2>1. Shape'
    BY <1>3, TidyShape, Zenon DEF Limited
  <2>2. Counting'
    BY <1>3, <2>1, OtherCounting, ZenonT(60) DEF Limited
  <2>3. Pruned'
    BY <1>3, <2>1, TidyPruned, ZenonT(60) DEF Limited
  <2> QED
    BY <2>1, <2>2, <2>3, Zenon DEF Limited
<1>4. ASSUME NEW a \in Actors, Prefetch(a)
      PROVE  Limited'
  <2>1. Shape'
    BY <1>4, PrefetchShape, Zenon DEF Limited
  <2>2. Counting'
    BY <1>4, <2>1, OtherCounting, ZenonT(60) DEF Limited
  <2>3. Pruned'
    BY <1>4, <2>1, PrefetchPruned, Zenon DEF Limited
  <2> QED
    BY <2>1, <2>2, <2>3, Zenon DEF Limited
<1> QED
  BY <1>1, <1>2, <1>3, <1>4, Zenon DEF Next

---------------------------------------------------------------------------
(* No use is counted twice. The uses of a domain are numbered, and every   *)
(* number in the state stands for a set of them: held, the value of a      *)
(* counter; stored, the Counter of an entry; share, the count an actor     *)
(* carries. A counter belongs to one domain for good (its owner), although *)
(* its slot may have been given to another counter. Sets that may end up   *)
(* added are disjoint: those of two counters of a domain, those of a       *)
(* counter and the entry, those of a counter and of a copy of the entry,   *)
(* and what a flush moves and anything else. Copies of an entry may        *)
(* overlap, for storing one of them replaces the other.                    *)

Carrying == {"lookup", "drain", "set", "holding", "discard", "keep", "update"}

(* The lookup that is about to be stored has been added to n already.      *)
Owed(a) == IF proc[a].pc = "set" THEN proc[a].n - 1 ELSE proc[a].n

Units(owner, held, share, stored) ==
  /\ \A c \in Counters : held[c] \subseteq 1 .. uses[owner[c]] /\ Cardinality(held[c]) = value[c]
  /\ \A k \in Keys : stored[k] \subseteq 1 .. uses[k] /\ Cardinality(stored[k]) = count[k]
  /\ \A a \in Actors :
       share[a] \subseteq 1 .. uses[proc[a].key] /\ Cardinality(share[a]) = Owed(a)

CountersApart(owner, held) ==
  \A c, d \in Counters : c # d /\ owner[c] = owner[d] => held[c] \cap held[d] = {}

EntryApart(owner, held, stored) ==
  \A c \in Counters : held[c] \cap stored[owner[c]] = {}

CopyApart(owner, held, share) ==
  \A c \in Counters, a \in Actors :
    proc[a].pc \in Carrying /\ proc[a].key = owner[c] => held[c] \cap share[a] = {}

FlushApart(share, stored) ==
  \A a \in Actors : proc[a].pc = "update" => share[a] \cap stored[proc[a].key] = {}

MoversApart(share) ==
  \A a, b \in Actors :
    a # b /\ proc[a].pc = "update" /\ proc[b].pc \in Carrying /\ proc[a].key = proc[b].key
    => share[a] \cap share[b] = {}

Apart(owner, held, share, stored) ==
  /\ CountersApart(owner, held) /\ EntryApart(owner, held, stored)
  /\ CopyApart(owner, held, share)
  /\ FlushApart(share, stored) /\ MoversApart(share)

Owned(owner) ==
  /\ \A k \in Keys : slot[k] # NoCounter => owner[slot[k]] = k
  /\ \A a \in Actors :
       proc[a].pc \in {"add", "drain"} /\ proc[a].counter # NoCounter
       => owner[proc[a].counter] = proc[a].key

Ledger ==
  \E owner \in [Counters -> Keys], held \in [Counters -> SUBSET Nat],
     share \in [Actors -> SUBSET Nat], stored \in [Keys -> SUBSET Nat] :
    /\ Units(owner, held, share, stored)
    /\ Apart(owner, held, share, stored)
    /\ Owned(owner)

(* Sets of uses.                                                           *)
LEMMA Pile ==
  ASSUME FiniteSetFacts, NEW m \in Nat, NEW S, S \subseteq 1 .. m
  PROVE  IsFiniteSet(S) /\ Cardinality(S) \in Nat /\ Cardinality(S) <= m
<1>1. IsFiniteSet(1 .. m) /\ Cardinality(1 .. m) = m
  BY IntervalCount
<1> QED
  BY <1>1, SubsetCount, CountType, ZenonT(60)

LEMMA PileUnion ==
  ASSUME FiniteSetFacts,
         NEW m \in Nat, NEW S, S \subseteq 1 .. m, NEW T, T \subseteq 1 .. m, S \cap T = {}
  PROVE  /\ S \cup T \subseteq 1 .. m
         /\ Cardinality(S \cup T) = Cardinality(S) + Cardinality(T)
<1>1. IsFiniteSet(S) /\ IsFiniteSet(T) /\ Cardinality(S) \in Nat /\ Cardinality(T) \in Nat
  BY Pile, Zenon
<1>2. Cardinality(S \cup T) = Cardinality(S) + Cardinality(T) - Cardinality(S \cap T)
  BY <1>1, UnionCount, Zenon
<1>3. Cardinality(S \cap T) = 0
  BY EmptyCount, Zenon
<1> QED
  BY <1>1, <1>2, <1>3

LEMMA PileAdd ==
  ASSUME FiniteSetFacts, NEW m \in Nat, NEW S, S \subseteq 1 .. m
  PROVE  /\ S \cup {m + 1} \subseteq 1 .. m + 1 /\ m + 1 \notin S
         /\ Cardinality(S \cup {m + 1}) = Cardinality(S) + 1
         /\ S \subseteq 1 .. m + 1
<1>1. m + 1 \notin S
  OBVIOUS
<1>2. IsFiniteSet(S)
  BY Pile, Zenon
<1>3. Cardinality(S \cup {m + 1}) = Cardinality(S) + 1
  BY <1>1, <1>2, ElementCount
<1> QED
  BY <1>1, <1>3

LEMMA PileZero ==
  ASSUME FiniteSetFacts, NEW m \in Nat, NEW S, S \subseteq 1 .. m, Cardinality(S) = 0
  PROVE  S = {}
  BY Pile, EmptyCount, Zenon

(* Steps after which their actor carries no count that could be added, and *)
(* that add nothing to any number.                                         *)
LEMMA LedgerCalm ==
  ASSUME FiniteSetFacts,
         Shape, Shape', Ledger, NEW a \in Actors, NEW pc, NEW key, NEW n, NEW counter,
         Moves(a, pc, key, n, counter),
         pc \notin Carrying, pc # "add",
         n = 0 \/ (n = proc[a].n /\ key = proc[a].key /\ proc[a].pc # "set"),
         UNCHANGED <<uses, value>>,
         \A k \in Keys : slot'[k] \in {slot[k], NoCounter},
         \A k \in Keys : count'[k] \in {count[k], 0}
  PROVE  Ledger'
<1>1. PICK owner \in [Counters -> Keys], held \in [Counters -> SUBSET Nat],
           share \in [Actors -> SUBSET Nat], stored \in [Keys -> SUBSET Nat] :
             /\ Units(owner, held, share, stored)
             /\ Apart(owner, held, share, stored)
             /\ Owned(owner)
  BY DEF Ledger
<1>2. PICK share2 \in [Actors -> SUBSET Nat] :
             \A b \in Actors : share2[b] = IF b = a /\ n = 0 THEN {} ELSE share[b]
  <2> DEFINE f == [b \in Actors |-> IF b = a /\ n = 0 THEN {} ELSE share[b]]
  <2>1. f \in [Actors -> SUBSET Nat]
    OBVIOUS
  <2> QED
    BY <2>1, ZenonT(60)
<1>3. PICK stored2 \in [Keys -> SUBSET Nat] :
             \A k \in Keys : stored2[k] = IF count'[k] = 0 THEN {} ELSE stored[k]
  <2> DEFINE f == [k \in Keys |-> IF count'[k] = 0 THEN {} ELSE stored[k]]
  <2>1. f \in [Keys -> SUBSET Nat]
    BY Zenon
  <2> QED
    BY <2>1, ZenonT(60)
<1>4. /\ proc'[a].pc = pc /\ proc'[a].key = key /\ proc'[a].n = n
      /\ \A b \in Actors \ {a} : Kept(b)
  BY ZenonT(60) DEF Moves
<1>5. Units(owner, held, share2, stored2)'
  <2>1. \A b \in Actors : /\ share2[b] \subseteq 1 .. uses'[proc'[b].key]
                          /\ Cardinality(share2[b]) = Owed(b)'
    <3>1. ASSUME NEW b \in Actors, b # a
          PROVE  /\ share2[b] \subseteq 1 .. uses'[proc'[b].key]
                 /\ Cardinality(share2[b]) = Owed(b)'
      BY <1>1, <1>2, <1>4, <3>1, ZenonT(120) DEF Units, Owed, Kept
    <3>2. share2[a] \subseteq 1 .. uses'[proc'[a].key] /\ Cardinality(share2[a]) = Owed(a)'
      BY <1>1, <1>2, <1>4, EmptyCount, ZenonT(60) DEF Units, Owed, Carrying
    <3> QED
      BY <3>1, <3>2, ZenonT(60)
  <2>2. \A k \in Keys : stored2[k] \subseteq 1 .. uses'[k] /\ Cardinality(stored2[k]) = count'[k]
    BY <1>1, <1>3, EmptyCount, ZenonT(60) DEF Units
  <2>3. \A c \in Counters : /\ held[c] \subseteq 1 .. uses'[owner[c]]
                            /\ Cardinality(held[c]) = value'[c]
    BY <1>1, Zenon DEF Units
  <2> QED
    BY <2>1, <2>2, <2>3, ZenonT(60) DEF Units
<1>6. Apart(owner, held, share2, stored2)'
  <2>1. CountersApart(owner, held)'
    BY <1>1, Zenon DEF Apart, CountersApart
  <2>2. EntryApart(owner, held, stored2)'
    BY <1>1, <1>3, ZenonT(60) DEF Apart, EntryApart
  <2>3. CopyApart(owner, held, share2)'
    BY <1>1, <1>2, <1>4, ZenonT(60) DEF Apart, CopyApart, Kept
  <2>4. FlushApart(share2, stored2)'
    <3>1. ASSUME NEW b \in Actors, proc'[b].pc = "update"
          PROVE  share2[b] \cap stored2[proc'[b].key] = {}
      <4>1. b # a
        BY <1>4, <3>1, Zenon DEF Carrying
      <4>2. proc[b].pc = "update" /\ proc'[b].key = proc[b].key /\ proc[b].key \in Keys
        BY <1>4, <3>1, <4>1, ActorCopies, ZenonT(60) DEF Kept
      <4> QED
        BY <1>1, <1>2, <1>3, <4>1, <4>2, ZenonT(60) DEF Apart, FlushApart
    <3> QED
      BY <3>1, Zenon DEF FlushApart
  <2>5. MoversApart(share2)'
    BY <1>1, <1>2, <1>4, ZenonT(60) DEF Apart, MoversApart, Kept, Carrying
  <2> QED
    BY <2>1, <2>2, <2>3, <2>4, <2>5, Zenon DEF Apart
<1>7. Owned(owner)'
  BY <1>1, <1>4, ZenonT(60) DEF Owned, Kept, Carrying
<1> QED
  BY <1>5, <1>6, <1>7, ZenonT(60) DEF Ledger

LEMMA RealCounter ==
  ASSUME NEW c \in 0 .. MaxHits, c # NoCounter
  PROVE  c \in Counters
  BY LimitAssumption DEF Counters, NoCounter

(* The counter an actor loads is the one of its key, made for it or not.   *)
LEMMA SameBooks ==
  ASSUME Shape, NEW a \in Actors, NEW pc, NEW counter,
         NEW owner, NEW held, NEW share, NEW stored,
         Units(owner, held, share, stored), Apart(owner, held, share, stored),
         Moves(a, pc, proc[a].key, proc[a].n, counter),
         pc \notin {"set", "update"}, proc[a].pc \notin {"set", "update"},
         pc \in Carrying => proc[a].pc \in Carrying,
         UNCHANGED <<uses, value, count>>
  PROVE  Units(owner, held, share, stored)' /\ Apart(owner, held, share, stored)'
<1>1. /\ proc'[a].pc = pc /\ proc'[a].key = proc[a].key /\ proc'[a].n = proc[a].n
      /\ \A b \in Actors \ {a} : Kept(b)
  BY Zenon DEF Moves
<1>2. ASSUME NEW b \in Actors
      PROVE  /\ proc'[b].key = proc[b].key /\ Owed(b)' = Owed(b)
             /\ proc'[b].pc = "update" <=> proc[b].pc = "update"
             /\ proc'[b].pc \in Carrying => proc[b].pc \in Carrying
  <2>1. CASE b = a
    BY <1>1, <2>1, Zenon DEF Owed
  <2>2. CASE b # a
    BY <1>1, <2>2, Zenon DEF Owed, Kept
  <2> QED
    BY <2>1, <2>2, Zenon
<1>3. Units(owner, held, share, stored)'
  BY <1>2, ZenonT(60) DEF Units
<1>4. /\ CountersApart(owner, held)' /\ EntryApart(owner, held, stored)'
      /\ FlushApart(share, stored)'
  BY <1>2, Zenon DEF Apart, CountersApart, EntryApart, FlushApart
<1>5. CopyApart(owner, held, share)'
  BY <1>2, Zenon DEF Apart, CopyApart
<1>6. MoversApart(share)'
  BY <1>2, Zenon DEF Apart, MoversApart
<1> QED
  BY <1>3, <1>4, <1>5, <1>6, Zenon DEF Apart

LEMMA LoadLedger ==
  ASSUME Shape, Shape', Ledger, NEW a \in Actors, Load(a)
  PROVE  Ledger'
<1>1. PICK owner \in [Counters -> Keys], held \in [Counters -> SUBSET Nat],
           share \in [Actors -> SUBSET Nat], stored \in [Keys -> SUBSET Nat] :
             /\ Units(owner, held, share, stored)
             /\ Apart(owner, held, share, stored)
             /\ Owned(owner)
  BY Zenon DEF Ledger
<1>2. Moves(a, "drain", proc[a].key, proc[a].n, slot[proc[a].key])
  BY LoadEffect, Zenon
<1>3. UNCHANGED <<uses, value, count, slot>> /\ proc[a].pc = "lookup" /\ proc[a].key \in Keys
  BY ActorCopies, ZenonT(60) DEF Load, At, SameEntries, counters
<1>4. Units(owner, held, share, stored)' /\ Apart(owner, held, share, stored)'
  <2>1. /\ "drain" \notin {"set", "update"} /\ proc[a].pc \notin {"set", "update"}
        /\ "drain" \in Carrying => proc[a].pc \in Carrying
    BY <1>3, ZenonT(60) DEF Carrying
  <2> QED
    BY <1>1, <1>2, <1>3, <2>1, SameBooks, ZenonT(60)
<1>5. Owned(owner)'
  BY <1>1, <1>2, <1>3 DEF Owned, Moves, Kept
<1> QED
  BY <1>4, <1>5, Zenon DEF Ledger

LEMMA LoadOrStoreLedger ==
  ASSUME FiniteSetFacts, Shape, Shape', Counting, Ledger, NEW a \in Actors, LoadOrStore(a)
  PROVE  Ledger'
<1>1. PICK owner \in [Counters -> Keys], held \in [Counters -> SUBSET Nat],
           share \in [Actors -> SUBSET Nat], stored \in [Keys -> SUBSET Nat] :
             /\ Units(owner, held, share, stored)
             /\ Apart(owner, held, share, stored)
             /\ Owned(owner)
  BY Zenon DEF Ledger
<1>2. PICK k \in Keys : k = proc[a].key
  BY ActorCopies, Zenon
<1>3. PICK c \in Counters :
        /\ Moves(a, "add", proc[a].key, proc[a].n, c)
        /\ c = IF slot[k] = NoCounter THEN made + 1 ELSE slot[k]
  BY <1>2, LoadOrStoreEffect, Zenon DEF Counters
<1>4. /\ UNCHANGED <<uses, value, count>> /\ proc[a].pc = "hit"
      /\ slot' = [slot EXCEPT ![k] = c]
  BY <1>2, <1>3, Zenon DEF LoadOrStore, At, SameEntries
<1>5. PICK owner2 \in [Counters -> Keys] :
        \A d \in Counters : owner2[d] = IF d = c THEN k ELSE owner[d]
  <2> DEFINE f == [d \in Counters |-> IF d = c THEN k ELSE owner[d]]
  <2>1. f \in [Counters -> Keys]
    OBVIOUS
  <2> QED
    BY <2>1, Zenon
<1>6. owner[c] = k \/ (c = made + 1 /\ held[c] = {})
  <2>1. CASE slot[k] # NoCounter
    BY <1>1, <1>3, <2>1, Zenon DEF Owned
  <2>2. CASE slot[k] = NoCounter
    <3>1. c = made + 1 /\ value[c] = 0
      BY <1>3, <2>2, LimitAssumption DEF Counting, Shape, Counters
    <3>2. held[c] \subseteq 1 .. uses[owner[c]] /\ Cardinality(held[c]) = 0 /\ uses[owner[c]] \in Nat
      BY <1>1, <3>1, ZenonT(60) DEF Units, Shape
    <3> QED
      BY <3>1, <3>2, PileZero, Zenon
  <2> QED
    BY <2>1, <2>2, Zenon
<1>7. Units(owner2, held, share, stored)
  BY <1>1, <1>5, <1>6, Zenon DEF Units
<1>8. Apart(owner2, held, share, stored)
  <2>1. CountersApart(owner2, held)
    BY <1>1, <1>5, <1>6, Zenon DEF Apart, CountersApart
  <2>2. EntryApart(owner2, held, stored)
    BY <1>1, <1>5, <1>6, Zenon DEF Apart, EntryApart
  <2>3. CopyApart(owner2, held, share)
    BY <1>1, <1>5, <1>6, Zenon DEF Apart, CopyApart
  <2> QED
    BY <1>1, <2>1, <2>2, <2>3, Zenon DEF Apart
<1>9. Units(owner2, held, share, stored)' /\ Apart(owner2, held, share, stored)'
  <2>1. /\ "add" \notin {"set", "update"} /\ proc[a].pc \notin {"set", "update"}
        /\ "add" \in Carrying => proc[a].pc \in Carrying
    BY <1>4, ZenonT(60) DEF Carrying
  <2>2. Moves(a, "add", proc[a].key, proc[a].n, c) /\ UNCHANGED <<uses, value, count>>
    BY <1>3, <1>4
  <2> QED
    BY <1>7, <1>8, <2>1, <2>2, SameBooks, ZenonT(60)
<1>10. Owned(owner2)'
  <2>1. ASSUME NEW j \in Keys, slot'[j] # NoCounter
        PROVE  owner2[slot'[j]] = j
    <3>1. CASE j = k
      BY <1>3, <1>4, <1>5, <3>1, Zenon DEF Shape
    <3>2. CASE j # k
      <4>1. slot'[j] = slot[j] /\ slot[j] # NoCounter /\ slot[j] \in Counters /\ slot[j] <= made
        <5>1. slot'[j] = slot[j] /\ slot[j] \in 0 .. MaxHits /\ slot[j] <= made
          BY <1>4, <3>2, Zenon DEF Shape
        <5> QED
          BY <2>1, <5>1, RealCounter, Zenon
      <4>2. owner[slot[j]] = j
        BY <1>1, <4>1, Zenon DEF Owned
      <4>3. slot[j] # c
        BY <1>6, <3>2, <4>1, <4>2 DEF Shape, Counters
      <4> QED
        BY <1>5, <4>1, <4>2, <4>3, Zenon
    <3> QED
      BY <3>1, <3>2, Zenon
  <2>2. ASSUME NEW b \in Actors, proc'[b].pc \in {"add", "drain"}, proc'[b].counter # NoCounter
        PROVE  owner2[proc'[b].counter] = proc'[b].key
    <3>1. CASE b = a
      BY <1>2, <1>3, <1>5, <3>1, Zenon DEF Moves
    <3>2. CASE b # a
      <4>1. Kept(b)
        BY <1>3, <3>2, Zenon DEF Moves
      <4>2. proc[b].counter \in Counters /\ proc[b].counter <= made
        BY <2>2, <4>1, ActorCopies, RealCounter, ZenonT(60) DEF Kept, Shape, Hands
      <4>3. owner[proc[b].counter] = proc[b].key
        BY <1>1, <2>2, <4>1, ZenonT(60) DEF Owned, Kept
      <4>4. proc[b].counter # c \/ owner[c] = k
        BY <1>6, <4>2 DEF Shape, Counters
      <4> QED
        BY <1>5, <4>1, <4>2, <4>3, <4>4, ZenonT(60) DEF Kept
    <3> QED
      BY <3>1, <3>2, Zenon
  <2> QED
    BY <2>1, <2>2, Zenon DEF Owned
<1> QED
  BY <1>9, <1>10, Zenon DEF Ledger

LEMMA AddHitLedger ==
  ASSUME FiniteSetFacts, Shape, Shape', Ledger, NEW a \in Actors, AddHit(a)
  PROVE  Ledger'
<1>1. PICK owner \in [Counters -> Keys], held \in [Counters -> SUBSET Nat],
           share \in [Actors -> SUBSET Nat], stored \in [Keys -> SUBSET Nat] :
             /\ Units(owner, held, share, stored)
             /\ Apart(owner, held, share, stored)
             /\ Owned(owner)
  BY Zenon DEF Ledger
<1>2. PICK k \in Keys, c \in Counters, m \in Nat :
        k = proc[a].key /\ c = proc[a].counter /\ m = uses[k]
  <2>1. proc[a].counter # NoCounter
    BY Zenon DEF AddHit, At, Shape, Hands
  <2>2. /\ proc[a].key \in Keys /\ proc[a].counter \in Counters
        /\ uses[proc[a].key] \in Nat
    BY <2>1, ActorCopies, RealCounter, ZenonT(60) DEF Shape
  <2> QED
    BY <2>2, Zenon
<1>3. /\ Moves(a, "idle", Idle.key, 0, NoCounter) /\ proc[a].pc = "add"
      /\ UNCHANGED <<count, slot>>
      /\ value' = [value EXCEPT ![c] = @ + 1] /\ uses' = [uses EXCEPT ![k] = m + 1]
  BY <1>2, AddHitEffect, ZenonT(60) DEF AddHit, At, SameEntries
<1>4. owner[c] = k
  <2>1. c # NoCounter
    BY DEF Counters, NoCounter
  <2> QED
    BY <1>1, <1>2, <1>3, <2>1, ZenonT(60) DEF Owned
<1>5. PICK held2 \in [Counters -> SUBSET Nat] :
        \A d \in Counters : held2[d] = IF d = c THEN held[c] \cup {m + 1} ELSE held[d]
  <2> DEFINE f == [d \in Counters |-> IF d = c THEN held[c] \cup {m + 1} ELSE held[d]]
  <2>1. f \in [Counters -> SUBSET Nat]
    OBVIOUS
  <2> QED
    BY <2>1, Zenon
<1>6. PICK share2 \in [Actors -> SUBSET Nat] :
        \A b \in Actors : share2[b] = IF b = a THEN {} ELSE share[b]
  <2> DEFINE f == [b \in Actors |-> IF b = a THEN {} ELSE share[b]]
  <2>1. f \in [Actors -> SUBSET Nat]
    OBVIOUS
  <2> QED
    BY <2>1, Zenon
<1>7. /\ proc'[a].pc = "idle" /\ proc'[a].n = 0
      /\ \A b \in Actors \ {a} : Kept(b)
  BY <1>3 DEF Moves
<1>8. /\ \A j \in Keys : uses'[j] = IF j = k THEN m + 1 ELSE uses[j]
      /\ \A j \in Keys : uses[j] \in Nat
      /\ \A d \in Counters : value'[d] = IF d = c THEN value[c] + 1 ELSE value[d]
  BY <1>3, Zenon DEF Shape
(* the new use is none of those of k that were there                       *)
<1>9. /\ \A j \in Keys : \A S : S \subseteq 1 .. uses[j] => S \subseteq 1 .. uses'[j]
      /\ \A S : S \subseteq 1 .. uses[k] => m + 1 \notin S
  BY <1>2, <1>8
<1>10. Units(owner, held2, share2, stored)'
  <2>1. ASSUME NEW d \in Counters
        PROVE  held2[d] \subseteq 1 .. uses'[owner[d]] /\ Cardinality(held2[d]) = value'[d]
    <3>1. held[d] \subseteq 1 .. uses[owner[d]] /\ Cardinality(held[d]) = value[d] /\ owner[d] \in Keys
      BY <1>1, ZenonT(60) DEF Units
    <3>2. CASE d = c
      BY <1>2, <1>4, <1>5, <1>8, <3>1, <3>2, PileAdd
    <3>3. CASE d # c
      BY <1>5, <1>8, <1>9, <3>1, <3>3, ZenonT(60)
    <3> QED
      BY <3>2, <3>3, Zenon
  <2>2. ASSUME NEW b \in Actors
        PROVE  share2[b] \subseteq 1 .. uses'[proc'[b].key] /\ Cardinality(share2[b]) = Owed(b)'
    <3>1. CASE b = a
      BY <1>6, <1>7, <3>1, EmptyCount, ZenonT(60) DEF Owed
    <3>2. CASE b # a
      <4>1. Kept(b) /\ proc[b].key \in Keys
        BY <1>7, <3>2, ActorCopies
      <4>2. share[b] \subseteq 1 .. uses[proc[b].key] /\ Cardinality(share[b]) = Owed(b)
        BY <1>1, Zenon DEF Units
      <4>3. share[b] \subseteq 1 .. uses'[proc[b].key]
        BY <1>9, <4>1, <4>2, ZenonT(60)
      <4> QED
        BY <1>6, <3>2, <4>1, <4>2, <4>3, Zenon DEF Kept, Owed
    <3> QED
      BY <3>1, <3>2, Zenon
  <2>3. ASSUME NEW j \in Keys
        PROVE  stored[j] \subseteq 1 .. uses'[j] /\ Cardinality(stored[j]) = count'[j]
    BY <1>1, <1>3, <1>9 DEF Units
  <2> QED
    BY <2>1, <2>2, <2>3, Zenon DEF Units
<1>11. Apart(owner, held2, share2, stored)'
  <2>1. CountersApart(owner, held2)'
    <3>1. ASSUME NEW d \in Counters, NEW e \in Counters, d # e, owner[d] = owner[e]
          PROVE  held2[d] \cap held2[e] = {}
      <4>1. held[d] \cap held[e] = {}
        BY <1>1, <3>1, Zenon DEF Apart, CountersApart
      <4>2. owner[d] = k => m + 1 \notin held[d] /\ m + 1 \notin held[e]
        BY <1>1, <1>9, <3>1, ZenonT(60) DEF Units
      <4> QED
        BY <1>4, <1>5, <3>1, <4>1, <4>2, ZenonT(60)
    <3> QED
      BY <3>1, Zenon DEF CountersApart
  <2>2. EntryApart(owner, held2, stored)'
    <3>1. m + 1 \notin stored[k]
      BY <1>1, <1>9 DEF Units
    <3> QED
      BY <1>1, <1>4, <1>5, <3>1, ZenonT(60) DEF Apart, EntryApart
  <2>3. CopyApart(owner, held2, share2)'
    <3>1. ASSUME NEW d \in Counters, NEW b \in Actors, b # a,
                 proc[b].pc \in Carrying, proc[b].key = owner[d]
          PROVE  held2[d] \cap share[b] = {}
      <4>1. held[d] \cap share[b] = {}
        BY <1>1, <3>1, Zenon DEF Apart, CopyApart
      <4>2. owner[d] = k => m + 1 \notin share[b]
        BY <1>1, <1>9, <3>1, Zenon DEF Units
      <4> QED
        BY <1>4, <1>5, <4>1, <4>2, Zenon
    <3> QED
      BY <1>6, <1>7, <3>1, ZenonT(60) DEF CopyApart, Kept
  <2>4. FlushApart(share2, stored)'
    BY <1>1, <1>6, <1>7 DEF Apart, FlushApart, Kept
  <2>5. MoversApart(share2)'
    BY <1>1, <1>6, <1>7, ZenonT(60) DEF Apart, MoversApart, Kept
  <2> QED
    BY <2>1, <2>2, <2>3, <2>4, <2>5, ZenonT(60) DEF Apart
<1>12. Owned(owner)'
  BY <1>1, <1>3, <1>7, ZenonT(60) DEF Owned, Kept
<1> QED
  BY <1>10, <1>11, <1>12, Zenon DEF Ledger

(* An entry is read: its copy may overlap with nothing the entry does not. *)
LEMMA CopyLedger ==
  ASSUME Shape, Shape', Ledger, NEW a \in Actors, NEW k \in Keys,
         NEW pc \in {"lookup", "holding"},
         Moves(a, pc, k, count[k], proc[a].counter),
         UNCHANGED <<uses, value, count, slot>>
  PROVE  Ledger'
<1>1. PICK owner \in [Counters -> Keys], held \in [Counters -> SUBSET Nat],
           share \in [Actors -> SUBSET Nat], stored \in [Keys -> SUBSET Nat] :
             /\ Units(owner, held, share, stored)
             /\ Apart(owner, held, share, stored)
             /\ Owned(owner)
  BY Zenon DEF Ledger
<1>2. PICK share2 \in [Actors -> SUBSET Nat] :
        \A b \in Actors : share2[b] = IF b = a THEN stored[k] ELSE share[b]
  <2> DEFINE f == [b \in Actors |-> IF b = a THEN stored[k] ELSE share[b]]
  <2>1. f \in [Actors -> SUBSET Nat]
    OBVIOUS
  <2> QED
    BY <2>1, Zenon
<1>3. /\ proc'[a].pc = pc /\ proc'[a].key = k /\ proc'[a].n = count[k]
      /\ \A b \in Actors \ {a} : Kept(b)
  BY DEF Moves
<1>4. Units(owner, held, share2, stored)'
  <2>1. ASSUME NEW b \in Actors
        PROVE  share2[b] \subseteq 1 .. uses[proc'[b].key] /\ Cardinality(share2[b]) = Owed(b)'
    <3>1. CASE b = a
      BY <1>1, <1>2, <1>3, <3>1, ZenonT(60) DEF Units, Owed
    <3>2. CASE b # a
      BY <1>1, <1>2, <1>3, <3>2, ZenonT(60) DEF Units, Owed, Kept
    <3> QED
      BY <3>1, <3>2, Zenon
  <2> QED
    BY <1>1, <2>1 DEF Units
<1>5. Apart(owner, held, share2, stored)'
  <2>1. CountersApart(owner, held)' /\ EntryApart(owner, held, stored)'
    BY <1>1, Zenon DEF Apart, CountersApart, EntryApart
  <2>2. CopyApart(owner, held, share2)'
    <3>1. ASSUME NEW c \in Counters, NEW b \in Actors,
                 proc'[b].pc \in Carrying, proc'[b].key = owner[c]
          PROVE  held[c] \cap share2[b] = {}
      <4>1. CASE b = a
        <5>1. share2[b] = stored[k] /\ owner[c] = k
          BY <1>2, <1>3, <3>1, <4>1, ZenonT(60)
        <5> QED
          BY <1>1, <3>1, <5>1, ZenonT(60) DEF Apart, EntryApart
      <4>2. CASE b # a
        <5>1. share2[b] = share[b] /\ proc[b].pc \in Carrying /\ proc[b].key = owner[c]
          BY <1>2, <1>3, <3>1, <4>2, ZenonT(60) DEF Kept
        <5> QED
          BY <1>1, <3>1, <5>1, ZenonT(60) DEF Apart, CopyApart
      <4> QED
        BY <4>1, <4>2, Zenon
    <3> QED
      BY <3>1, ZenonT(60) DEF CopyApart
  <2>3. FlushApart(share2, stored)'
    BY <1>1, <1>2, <1>3, ZenonT(60) DEF Apart, FlushApart, Kept
  <2>4. MoversApart(share2)'
    <3>1. ASSUME NEW b \in Actors, NEW d \in Actors, b # d, proc'[b].pc = "update",
                 proc'[d].pc \in Carrying, proc'[b].key = proc'[d].key
          PROVE  share2[b] \cap share2[d] = {}
      <4>1. b # a
        BY <1>3, <3>1, ZenonT(60)
      <4>2. share2[b] = share[b] /\ proc[b].pc = "update" /\ proc[b].key = proc'[d].key
        BY <1>2, <1>3, <3>1, <4>1, ZenonT(60) DEF Kept
      <4>3. CASE d = a
        <5>1. share2[d] = stored[k] /\ proc[b].key = k
          BY <1>2, <1>3, <4>2, <4>3, ZenonT(60)
        <5> QED
          BY <1>1, <4>2, <5>1, ZenonT(60) DEF Apart, FlushApart
      <4>4. CASE d # a
        <5>1. share2[d] = share[d] /\ proc[d].pc \in Carrying /\ proc[d].key = proc'[d].key
          BY <1>2, <1>3, <3>1, <4>4, ZenonT(60) DEF Kept
        <5> QED
          BY <1>1, <3>1, <4>2, <5>1, ZenonT(60) DEF Apart, MoversApart
      <4> QED
        BY <4>3, <4>4, Zenon
    <3> QED
      BY <3>1, ZenonT(60) DEF MoversApart
  <2> QED
    BY <2>1, <2>2, <2>3, <2>4, Zenon DEF Apart
<1>6. Owned(owner)'
  BY <1>1, <1>3, ZenonT(60) DEF Owned, Kept
<1> QED
  BY <1>4, <1>5, <1>6, Zenon DEF Ledger

(* A counter is drained into a copy of the entry of its key.               *)
LEMMA DrainLedger ==
  ASSUME FiniteSetFacts, Shape, Shape', Ledger, NEW a \in Actors,
         Drain(a) \/ Discard(a)
  PROVE  Ledger'
<1>1. PICK owner \in [Counters -> Keys], held \in [Counters -> SUBSET Nat],
           share \in [Actors -> SUBSET Nat], stored \in [Keys -> SUBSET Nat] :
             /\ Units(owner, held, share, stored)
             /\ Apart(owner, held, share, stored)
             /\ Owned(owner)
  BY Zenon DEF Ledger
<1>2. PICK k \in Keys : k = proc[a].key
  BY ActorCopies, Zenon
<1>3. PICK c \in 0 .. MaxHits, pc \in {"set", "keep"} :
        /\ Swap(c) /\ proc'[a].pc = pc /\ proc'[a].key = k
        /\ proc'[a].n = proc[a].n + Drained(c) + (IF pc = "set" THEN 1 ELSE 0)
        /\ \A b \in Actors \ {a} : Kept(b)
        /\ proc[a].pc \in {"drain", "holding", "discard"}
        /\ c # NoCounter => owner[c] = k
  <2>1. CASE Drain(a)
    <3>1. proc[a].counter \in 0 .. MaxHits /\ proc[a].pc = "drain"
      BY <2>1, ActorCopies, Zenon DEF Drain, At
    <3>2. proc[a].counter # NoCounter => owner[proc[a].counter] = k
      BY <1>1, <1>2, <3>1, Zenon DEF Owned
    <3>3. Moves(a, "set", k, proc[a].n + Drained(proc[a].counter) + 1, proc[a].counter)
          /\ Swap(proc[a].counter)
      BY <1>2, <2>1, DrainEffect, ZenonT(60) DEF Drain
    <3> QED
      BY <3>1, <3>2, <3>3, Zenon DEF Moves
  <2>2. CASE Discard(a)
    <3>1. slot[k] \in 0 .. MaxHits /\ proc[a].pc \in {"holding", "discard"}
      BY <1>2, <2>2, ActorCopies, ZenonT(60) DEF Discard, At
    <3>2. slot[k] # NoCounter => owner[slot[k]] = k
      BY <1>1, <1>2, <3>1 DEF Owned
    <3>3. Moves(a, "keep", k, proc[a].n + Drained(slot[k]), proc[a].counter) /\ Swap(slot[k])
      BY <1>2, <2>2, DiscardEffect, ZenonT(60) DEF Discard
    <3>4. proc[a].n + Drained(slot[k]) = proc[a].n + Drained(slot[k]) + 0
      BY <3>1, DrainedType, ActorCopies
    <3> QED
      BY <3>1, <3>2, <3>3, <3>4, ZenonT(60) DEF Moves
  <2> QED
    BY <2>1, <2>2, Zenon
<1>4. UNCHANGED <<uses, count, slot>>
  BY DEF Drain, Discard, SameEntries
<1>5. PICK gained \in SUBSET Nat : gained = IF c = NoCounter THEN {} ELSE held[c]
  <2>1. c # NoCounter => held[c] \in SUBSET Nat
    BY RealCounter
  <2> QED
    BY <2>1, Zenon
<1>6. /\ gained \subseteq 1 .. uses[k] /\ Cardinality(gained) = Drained(c)
      /\ share[a] \subseteq 1 .. uses[k] /\ Cardinality(share[a]) = proc[a].n
      /\ share[a] \cap gained = {} /\ uses[k] \in Nat
  <2>1. CASE c = NoCounter
    BY <1>1, <1>2, <1>3, <1>5, <2>1, EmptyCount, ZenonT(60) DEF Drained, Units, Owed, Shape
  <2>2. CASE c # NoCounter
    <3>1. c \in Counters
      BY <2>2, RealCounter, Zenon
    <3> QED
      BY <1>1, <1>2, <1>3, <1>5, <2>2, <3>1, ZenonT(60) DEF Drained, Units, Owed, Apart, CopyApart,
                                                       Carrying, Shape
  <2> QED
    BY <2>1, <2>2, Zenon
<1>7. /\ share[a] \cup gained \subseteq 1 .. uses[k]
      /\ Cardinality(share[a] \cup gained) = proc[a].n + Drained(c)
  <2>1. uses[k] \in Nat
    BY <1>6, Zenon
  <2>2. share[a] \subseteq 1 .. uses[k] /\ gained \subseteq 1 .. uses[k]
    BY <1>6, Zenon
  <2>3. share[a] \cap gained = {}
    BY <1>6, Zenon
  <2>4. Cardinality(share[a] \cup gained) = Cardinality(share[a]) + Cardinality(gained)
    BY <2>1, <2>2, <2>3, PileUnion, Zenon
  <2> QED
    BY <1>6, <2>2, <2>4, Zenon
<1>8. PICK share2 \in [Actors -> SUBSET Nat] :
        \A b \in Actors : share2[b] = IF b = a THEN share[a] \cup gained ELSE share[b]
  <2> DEFINE f == [b \in Actors |-> IF b = a THEN share[a] \cup gained ELSE share[b]]
  <2>1. f \in [Actors -> SUBSET Nat]
    BY Zenon
  <2> QED
    BY <2>1, Zenon
<1>9. PICK held2 \in [Counters -> SUBSET Nat] :
        \A d \in Counters : held2[d] = IF d = c THEN {} ELSE held[d]
  <2> DEFINE f == [d \in Counters |-> IF d = c THEN {} ELSE held[d]]
  <2>1. f \in [Counters -> SUBSET Nat]
    BY Zenon
  <2> QED
    BY <2>1, Zenon
<1>10. \A d \in Counters : value'[d] = IF d = c THEN 0 ELSE value[d]
  BY <1>3, SwapType
<1>11. Units(owner, held2, share2, stored)'
  <2>1. ASSUME NEW d \in Counters
        PROVE  held2[d] \subseteq 1 .. uses[owner[d]] /\ Cardinality(held2[d]) = value'[d]
    BY <1>1, <1>9, <1>10, EmptyCount, Zenon DEF Units
  <2>2. ASSUME NEW b \in Actors
        PROVE  share2[b] \subseteq 1 .. uses[proc'[b].key] /\ Cardinality(share2[b]) = Owed(b)'
    <3>1. CASE b = a
      <4>1. Owed(a)' = proc[a].n + Drained(c)
        <5>1. proc[a].n \in Nat /\ Drained(c) \in Nat
          BY <1>3, ActorCopies, DrainedType, ZenonT(60)
        <5>2. /\ (proc[a].n + Drained(c) + 1) - 1 = proc[a].n + Drained(c)
              /\ proc[a].n + Drained(c) + 0 = proc[a].n + Drained(c)
          <6>1. \A x, y \in Nat : (x + y + 1) - 1 = x + y /\ x + y + 0 = x + y
            OBVIOUS
          <6> QED
            BY <5>1, <6>1, Zenon
        <5>3. CASE pc = "set"
          <6>1. proc'[a].n = proc[a].n + Drained(c) + 1 /\ Owed(a)' = proc'[a].n - 1
            BY <1>3, <5>3, ZenonT(60) DEF Owed
          <6> QED
            BY <5>2, <6>1, Zenon
        <5>4. CASE pc = "keep"
          <6>1. proc'[a].n = proc[a].n + Drained(c) + 0 /\ Owed(a)' = proc'[a].n
            BY <1>3, <5>4, ZenonT(60) DEF Owed
          <6> QED
            BY <5>2, <6>1, Zenon
        <5> QED
          BY <5>3, <5>4, Zenon
      <4> QED
        BY <1>3, <1>7, <1>8, <3>1, <4>1, ZenonT(60)
    <3>2. CASE b # a
      BY <1>1, <1>3, <1>8, <3>2 DEF Units, Owed, Kept
    <3> QED
      BY <3>1, <3>2, Zenon
  <2> QED
    BY <1>1, <1>4, <2>1, <2>2, Zenon DEF Units
<1>12. Apart(owner, held2, share2, stored)'
  <2>1. CountersApart(owner, held2)' /\ EntryApart(owner, held2, stored)'
    BY <1>1, <1>9, Zenon DEF Apart, CountersApart, EntryApart
  <2>2. CopyApart(owner, held2, share2)'
    <3>1. ASSUME NEW d \in Counters, owner[d] = k
          PROVE  held2[d] \cap share2[a] = {}
      <4>1. CASE d = c
        BY <1>9, <4>1, Zenon
      <4>2. CASE d # c
        <5>1. held[d] \cap share[a] = {}
          BY <1>1, <1>2, <1>3, <3>1, Zenon DEF Apart, CopyApart, Carrying
        <5>2. held[d] \cap gained = {}
          BY <1>1, <1>3, <1>5, <3>1, <4>2, RealCounter, Zenon DEF Apart, CountersApart
        <5> QED
          BY <1>8, <1>9, <4>2, <5>1, <5>2, Zenon
      <4> QED
        BY <4>1, <4>2, Zenon
    <3>2. ASSUME NEW d \in Counters, NEW b \in Actors \ {a},
                 proc'[b].pc \in Carrying, proc'[b].key = owner[d]
          PROVE  held2[d] \cap share2[b] = {}
      BY <1>1, <1>3, <1>8, <1>9, <3>2, ZenonT(60) DEF Apart, CopyApart, Kept
    <3> QED
      BY <1>3, <3>1, <3>2, Zenon DEF CopyApart
  <2>3. FlushApart(share2, stored)'
    BY <1>1, <1>3, <1>8, ZenonT(60) DEF Apart, FlushApart, Kept
  <2>4. MoversApart(share2)'
    <3>1. ASSUME NEW b \in Actors \ {a}, proc[b].pc = "update", proc[b].key = k
          PROVE  share2[b] \cap share2[a] = {}
      <4>1. share[b] \cap share[a] = {}
        BY <1>1, <1>2, <1>3, <3>1, Zenon DEF Apart, MoversApart, Carrying
      <4>2. share[b] \cap gained = {}
        BY <1>1, <1>3, <1>5, <3>1, RealCounter, Zenon DEF Apart, CopyApart, Carrying
      <4> QED
        BY <1>8, <4>1, <4>2, Zenon
    <3> QED
      BY <1>1, <1>3, <1>8, <3>1, ZenonT(60) DEF Apart, MoversApart, Kept
  <2> QED
    BY <2>1, <2>2, <2>3, <2>4, Zenon DEF Apart
<1>13. Owned(owner)'
  BY <1>1, <1>3, <1>4, Zenon DEF Owned, Kept
<1> QED
  BY <1>11, <1>12, <1>13, Zenon DEF Ledger

(* A lookup stores its copy, with the counter it drained and with itself.  *)
LEMMA StoreLedger ==
  ASSUME FiniteSetFacts, Shape, Shape', Ledger, NEW a \in Actors, Store(a)
  PROVE  Ledger'
<1>1. PICK owner \in [Counters -> Keys], held \in [Counters -> SUBSET Nat],
           share \in [Actors -> SUBSET Nat], stored \in [Keys -> SUBSET Nat] :
             /\ Units(owner, held, share, stored)
             /\ Apart(owner, held, share, stored)
             /\ Owned(owner)
  BY Zenon DEF Ledger
<1>2. PICK k \in Keys, m \in Nat : k = proc[a].key /\ m = uses[k]
  <2>1. proc[a].key \in Keys /\ uses[proc[a].key] \in Nat
    BY ActorCopies, Zenon DEF Shape
  <2> QED
    BY <2>1, Zenon
<1>3. /\ Moves(a, "enforce", Idle.key, 0, NoCounter) /\ proc[a].pc = "set"
      /\ UNCHANGED <<value, slot>>
      /\ count' = [count EXCEPT ![k] = proc[a].n] /\ uses' = [uses EXCEPT ![k] = m + 1]
  BY <1>2, StoreEffect, ZenonT(60) DEF Store, At, Put, counters
<1>4. /\ proc'[a].pc = "enforce" /\ proc'[a].n = 0
      /\ \A b \in Actors \ {a} : Kept(b)
  BY <1>3 DEF Moves
<1>5. /\ \A j \in Keys : uses'[j] = IF j = k THEN m + 1 ELSE uses[j]
      /\ \A j \in Keys : uses[j] \in Nat
      /\ \A j \in Keys : count'[j] = IF j = k THEN proc[a].n ELSE count[j]
  BY <1>3, ZenonT(60) DEF Shape
<1>6. /\ \A j \in Keys : \A S : S \subseteq 1 .. uses[j] => S \subseteq 1 .. uses'[j]
      /\ \A S : S \subseteq 1 .. uses[k] => m + 1 \notin S
  BY <1>2, <1>5
<1>7. share[a] \subseteq 1 .. m /\ Cardinality(share[a]) = proc[a].n - 1 /\ proc[a].n \in Nat
  BY <1>1, <1>2, <1>3, ActorCopies, Zenon DEF Units, Owed
<1>8. PICK share2 \in [Actors -> SUBSET Nat] :
        \A b \in Actors : share2[b] = IF b = a THEN {} ELSE share[b]
  <2> DEFINE f == [b \in Actors |-> IF b = a THEN {} ELSE share[b]]
  <2>1. f \in [Actors -> SUBSET Nat]
    OBVIOUS
  <2> QED
    BY <2>1, Zenon
<1>9. PICK stored2 \in [Keys -> SUBSET Nat] :
        \A j \in Keys : stored2[j] = IF j = k THEN share[a] \cup {m + 1} ELSE stored[j]
  <2> DEFINE f == [j \in Keys |-> IF j = k THEN share[a] \cup {m + 1} ELSE stored[j]]
  <2>1. f \in [Keys -> SUBSET Nat]
    OBVIOUS
  <2> QED
    BY <2>1, Zenon
<1>10. Units(owner, held, share2, stored2)'
  <2>1. ASSUME NEW d \in Counters
        PROVE  held[d] \subseteq 1 .. uses'[owner[d]] /\ Cardinality(held[d]) = value'[d]
    BY <1>1, <1>3, <1>6, Zenon DEF Units
  <2>2. ASSUME NEW b \in Actors
        PROVE  share2[b] \subseteq 1 .. uses'[proc'[b].key] /\ Cardinality(share2[b]) = Owed(b)'
    <3>1. CASE b = a
      BY <1>8, <1>4, <3>1, EmptyCount, Zenon DEF Owed
    <3>2. CASE b # a
      <4>1. Kept(b) /\ proc[b].key \in Keys
        BY <1>4, <3>2, ActorCopies, Zenon
      <4>2. share[b] \subseteq 1 .. uses[proc[b].key] /\ Cardinality(share[b]) = Owed(b)
        BY <1>1, Zenon DEF Units
      <4>3. share[b] \subseteq 1 .. uses'[proc[b].key]
        BY <1>6, <4>1, <4>2, Zenon
      <4> QED
        BY <1>8, <3>2, <4>1, <4>2, <4>3, Zenon DEF Kept, Owed
    <3> QED
      BY <3>1, <3>2, Zenon
  <2>3. ASSUME NEW j \in Keys
        PROVE  stored2[j] \subseteq 1 .. uses'[j] /\ Cardinality(stored2[j]) = count'[j]
    <3>1. CASE j = k
      <4>1. Cardinality(share[a] \cup {m + 1}) = Cardinality(share[a]) + 1
        BY <1>7, PileAdd, Zenon
      <4>2. share[a] \cup {m + 1} \subseteq 1 .. m + 1
        BY <1>7, PileAdd, Zenon
      <4>3. stored2[j] = share[a] \cup {m + 1} /\ uses'[j] = m + 1 /\ count'[j] = proc[a].n
        BY <1>5, <1>9, <3>1, ZenonT(60)
      <4>4. Cardinality(share[a] \cup {m + 1}) = proc[a].n
        BY <1>7, <4>1
      <4> QED
        BY <4>2, <4>3, <4>4, Zenon
    <3>2. CASE j # k
      BY <1>1, <1>5, <1>6, <1>9, <3>2, ZenonT(60) DEF Units
    <3> QED
      BY <3>1, <3>2, Zenon
  <2> QED
    BY <2>1, <2>2, <2>3, Zenon DEF Units
<1>11. Apart(owner, held, share2, stored2)'
  <2>1. CountersApart(owner, held)'
    BY <1>1, Zenon DEF Apart, CountersApart
  <2>2. EntryApart(owner, held, stored2)'
    <3>1. ASSUME NEW d \in Counters, owner[d] = k
          PROVE  held[d] \cap stored2[k] = {}
      <4>1. held[d] \cap share[a] = {}
        BY <1>1, <1>2, <1>3, <3>1, Zenon DEF Apart, CopyApart, Carrying
      <4>2. m + 1 \notin held[d]
        BY <1>1, <1>6, <3>1, Zenon DEF Units
      <4> QED
        BY <1>9, <4>1, <4>2, Zenon
    <3> QED
      BY <1>1, <1>9, <3>1, Zenon DEF Apart, EntryApart
  <2>3. CopyApart(owner, held, share2)'
    BY <1>1, <1>4, <1>8, ZenonT(60) DEF Apart, CopyApart, Kept
  <2>4. FlushApart(share2, stored2)'
    <3>1. ASSUME NEW b \in Actors \ {a}, proc[b].pc = "update"
          PROVE  share[b] \cap stored2[proc[b].key] = {}
      <4>1. CASE proc[b].key = k
        <5>1. share[b] \cap share[a] = {}
          BY <1>1, <1>2, <1>3, <3>1, <4>1, Zenon DEF Apart, MoversApart, Carrying
        <5>2. m + 1 \notin share[b]
          BY <1>1, <1>6, <4>1, Zenon DEF Units
        <5> QED
          BY <1>9, <4>1, <5>1, <5>2, Zenon
      <4>2. CASE proc[b].key # k
        BY <1>1, <1>9, <3>1, <4>2, ActorCopies, Zenon DEF Apart, FlushApart
      <4> QED
        BY <4>1, <4>2, Zenon
    <3> QED
      BY <1>4, <1>8, <3>1, Zenon DEF FlushApart, Kept
  <2>5. MoversApart(share2)'
    BY <1>1, <1>4, <1>8, ZenonT(60) DEF Apart, MoversApart, Kept
  <2> QED
    BY <2>1, <2>2, <2>3, <2>4, <2>5, Zenon DEF Apart
<1>12. Owned(owner)'
  BY <1>1, <1>3, <1>4, ZenonT(60) DEF Owned, Kept
<1> QED
  BY <1>10, <1>11, <1>12, Zenon DEF Ledger

(* A prefetch stores its copy, with a new policy or as mere counts.        *)
LEMMA KeepLedger ==
  ASSUME FiniteSetFacts, Shape, Shape', Ledger, NEW a \in Actors,
         Refresh(a) \/ KeepCounter(a)
  PROVE  Ledger'
<1>1. PICK owner \in [Counters -> Keys], held \in [Counters -> SUBSET Nat],
           share \in [Actors -> SUBSET Nat], stored \in [Keys -> SUBSET Nat] :
             /\ Units(owner, held, share, stored)
             /\ Apart(owner, held, share, stored)
             /\ Owned(owner)
  BY Zenon DEF Ledger
<1>2. PICK k \in Keys : k = proc[a].key
  BY ActorCopies, Zenon
<1>3. /\ UNCHANGED <<value, slot, uses>> /\ proc[a].pc \in {"holding", "keep"}
      /\ count' = [count EXCEPT ![k] = proc[a].n]
  BY <1>2, Zenon DEF Refresh, KeepCounter, At, Put, Remove, counters
<1>4. /\ \A j \in Keys : count'[j] = IF j = k THEN proc[a].n ELSE count[j]
      /\ share[a] \subseteq 1 .. uses[k] /\ Cardinality(share[a]) = proc[a].n
  BY <1>1, <1>2, <1>3, Zenon DEF Shape, Units, Owed
<1>5. PICK rest \in SUBSET Nat :
        /\ rest \subseteq share[a] /\ rest \subseteq 1 .. uses'[proc'[a].key]
        /\ Cardinality(rest) = proc'[a].n
        /\ proc'[a].pc \in {"idle", "discard", "clean"}
        /\ proc'[a].pc = "discard" => proc'[a].key = k
        /\ \A b \in Actors \ {a} : Kept(b)
  <2>1. CASE proc'[a].n = 0 /\ proc'[a].pc \in {"idle", "clean"} /\ \A b \in Actors \ {a} : Kept(b)
    BY <2>1, EmptyCount
  <2>2. CASE Moves(a, "discard", proc[a].key, proc[a].n, proc[a].counter)
    BY <1>2, <1>3, <1>4, <2>2, Zenon DEF Moves
  <2>3. \/ Moves(a, "idle", Idle.key, 0, NoCounter)
        \/ Moves(a, "discard", proc[a].key, proc[a].n, proc[a].counter)
        \/ Moves(a, "clean", proc[a].key, 0, NoCounter)
    BY RefreshEffect, KeepCounterEffect, Zenon
  <2> QED
    BY <2>1, <2>2, <2>3, Zenon DEF Moves
<1>6. PICK share2 \in [Actors -> SUBSET Nat] :
        \A b \in Actors : share2[b] = IF b = a THEN rest ELSE share[b]
  <2> DEFINE f == [b \in Actors |-> IF b = a THEN rest ELSE share[b]]
  <2>1. f \in [Actors -> SUBSET Nat]
    BY Zenon
  <2> QED
    BY <2>1, Zenon
<1>7. PICK stored2 \in [Keys -> SUBSET Nat] :
        \A j \in Keys : stored2[j] = IF j = k THEN share[a] ELSE stored[j]
  <2> DEFINE f == [j \in Keys |-> IF j = k THEN share[a] ELSE stored[j]]
  <2>1. f \in [Keys -> SUBSET Nat]
    BY Zenon
  <2> QED
    BY <2>1, Zenon
<1>8. Units(owner, held, share2, stored2)'
  <2>1. ASSUME NEW b \in Actors
        PROVE  share2[b] \subseteq 1 .. uses'[proc'[b].key] /\ Cardinality(share2[b]) = Owed(b)'
    <3>1. CASE b = a
      BY <1>5, <1>6, <3>1, Zenon DEF Owed
    <3>2. CASE b # a
      BY <1>1, <1>3, <1>5, <1>6, <3>2, ZenonT(60) DEF Units, Owed, Kept
    <3> QED
      BY <3>1, <3>2, Zenon
  <2>2. ASSUME NEW j \in Keys
        PROVE  stored2[j] \subseteq 1 .. uses'[j] /\ Cardinality(stored2[j]) = count'[j]
    BY <1>1, <1>3, <1>4, <1>7, Zenon DEF Units
  <2> QED
    BY <1>1, <1>3, <2>1, <2>2, Zenon DEF Units
<1>9. Apart(owner, held, share2, stored2)'
  <2>1. CountersApart(owner, held)'
    BY <1>1, Zenon DEF Apart, CountersApart
  <2>2. \A d \in Counters : owner[d] = k => held[d] \cap share[a] = {}
    BY <1>1, <1>2, <1>3, Zenon DEF Apart, CopyApart, Carrying
  <2>3. \A b \in Actors \ {a} :
          proc[b].pc = "update" /\ proc[b].key = k => share[b] \cap share[a] = {}
    BY <1>1, <1>2, <1>3, Zenon DEF Apart, MoversApart, Carrying
  <2>4. EntryApart(owner, held, stored2)'
    BY <1>1, <1>7, <2>2, Zenon DEF Apart, EntryApart
  <2>5. CopyApart(owner, held, share2)'
    <3>1. ASSUME NEW d \in Counters, NEW b \in Actors,
                 proc'[b].pc \in Carrying, proc'[b].key = owner[d]
          PROVE  held[d] \cap share2[b] = {}
      <4>1. CASE b = a
        BY <1>5, <1>6, <2>2, <3>1, <4>1, Zenon DEF Carrying
      <4>2. CASE b # a
        BY <1>1, <1>5, <1>6, <3>1, <4>2, ZenonT(60) DEF Apart, CopyApart, Kept
      <4> QED
        BY <4>1, <4>2, Zenon
    <3> QED
      BY <3>1, Zenon DEF CopyApart
  <2>6. FlushApart(share2, stored2)'
    <3>1. ASSUME NEW b \in Actors, proc'[b].pc = "update"
          PROVE  share2[b] \cap stored2[proc'[b].key] = {}
      <4>1. b # a
        BY <1>5, <3>1, Zenon
      <4>2. proc[b].pc = "update" /\ proc'[b].key = proc[b].key /\ proc[b].key \in Keys
        BY <1>5, <3>1, <4>1, ActorCopies, Zenon DEF Kept
      <4> QED
        BY <1>1, <1>6, <1>7, <2>3, <4>1, <4>2, ZenonT(60) DEF Apart, FlushApart
    <3> QED
      BY <3>1, Zenon DEF FlushApart
  <2>7. MoversApart(share2)'
    <3>1. ASSUME NEW b \in Actors, NEW e \in Actors, b # e, proc'[b].pc = "update",
                 proc'[e].pc \in Carrying, proc'[b].key = proc'[e].key
          PROVE  share2[b] \cap share2[e] = {}
      <4>1. b # a /\ Kept(b) /\ share2[b] = share[b]
        BY <1>5, <1>6, <3>1, Zenon
      <4>2. proc[b].pc = "update" /\ proc'[b].key = proc[b].key
        BY <3>1, <4>1, Zenon DEF Kept
      <4>3. CASE e = a
        <5>1. proc'[e].key = k
          BY <1>5, <3>1, <4>3, Zenon DEF Carrying
        <5>2. share[b] \cap share[a] = {}
          BY <2>3, <3>1, <4>1, <4>2, <5>1, Zenon
        <5>3. share2[e] \subseteq share[a]
          BY <1>5, <1>6, <4>3, Zenon
        <5> QED
          BY <4>1, <5>2, <5>3, Zenon
      <4>4. CASE e # a
        <5>1. Kept(e) /\ share2[e] = share[e]
          BY <1>5, <1>6, <4>4, Zenon
        <5>2. proc[e].pc \in Carrying /\ proc[b].key = proc[e].key
          BY <3>1, <4>2, <5>1, Zenon DEF Kept
        <5>3. share[b] \cap share[e] = {}
          BY <1>1, <3>1, <4>2, <5>2, Zenon DEF Apart, MoversApart
        <5> QED
          BY <4>1, <5>1, <5>3, Zenon
      <4> QED
        BY <4>3, <4>4, Zenon
    <3> QED
      BY <3>1, Zenon DEF MoversApart
  <2> QED
    BY <2>1, <2>4, <2>5, <2>6, <2>7, Zenon DEF Apart
<1>10. Owned(owner)'
  BY <1>1, <1>3, <1>5, ZenonT(60) DEF Owned, Kept
<1> QED
  BY <1>8, <1>9, <1>10, Zenon DEF Ledger

(* A flush takes a counter, and carries it to the entry of its key.        *)
LEMMA FlushLedger ==
  ASSUME FiniteSetFacts, Shape, Shape', Ledger, NEW a \in Actors, FlushCacheHitCounters(a)
  PROVE  Ledger'
<1>1. PICK owner \in [Counters -> Keys], held \in [Counters -> SUBSET Nat],
           share \in [Actors -> SUBSET Nat], stored \in [Keys -> SUBSET Nat] :
             /\ Units(owner, held, share, stored)
             /\ Apart(owner, held, share, stored)
             /\ Owned(owner)
  BY Zenon DEF Ledger
<1>2. PICK k \in Keys : \E pc \in {"flush", "clean", "update"} :
         Swap(slot[k]) /\ Moves(a, pc, k, Drained(slot[k]), proc[a].counter)
  BY FlushCacheHitCountersEffect, Zenon
<1>3. PICK c \in 0 .. MaxHits : c = slot[k]
  BY Zenon DEF Shape
<1>4. /\ UNCHANGED <<uses, count, slot>>
      /\ proc'[a].pc \in {"flush", "clean", "update"} /\ proc'[a].key = k
      /\ proc'[a].n = Drained(c)
      /\ \A b \in Actors \ {a} : Kept(b)
  BY <1>2, <1>3, Zenon DEF Moves, FlushCacheHitCounters, SameEntries
<1>5. \A d \in Counters : value'[d] = IF d = c THEN 0 ELSE value[d]
  BY <1>2, <1>3, SwapType, Zenon
<1>6. PICK gained \in SUBSET Nat : gained = IF c = NoCounter THEN {} ELSE held[c]
  <2>1. c # NoCounter => held[c] \in SUBSET Nat
    BY RealCounter, Zenon
  <2> QED
    BY <2>1, Zenon
<1>7. /\ gained \subseteq 1 .. uses[k] /\ Cardinality(gained) = Drained(c)
      /\ gained \cap stored[k] = {}
      /\ \A d \in Counters : d # c /\ owner[d] = k => held[d] \cap gained = {}
      /\ \A b \in Actors : proc[b].pc \in Carrying /\ proc[b].key = k => gained \cap share[b] = {}
  <2>1. CASE c = NoCounter
    BY <1>6, <2>1, EmptyCount DEF Drained
  <2>2. CASE c # NoCounter
    <3>1. c \in Counters /\ owner[c] = k /\ gained = held[c]
      BY <1>1, <1>3, <1>6, <2>2, RealCounter DEF Owned
    <3>2. gained \subseteq 1 .. uses[k] /\ Cardinality(gained) = Drained(c)
      BY <1>1, <2>2, <3>1, Zenon DEF Units, Drained
    <3>3. /\ gained \cap stored[k] = {}
          /\ \A d \in Counters : d # c /\ owner[d] = k => held[d] \cap gained = {}
      BY <1>1, <3>1, Zenon DEF Apart, EntryApart, CountersApart
    <3>4. \A b \in Actors :
            proc[b].pc \in Carrying /\ proc[b].key = k => gained \cap share[b] = {}
      BY <1>1, <3>1, Zenon DEF Apart, CopyApart
    <3> QED
      BY <3>2, <3>3, <3>4, ZenonT(60)
  <2> QED
    BY <2>1, <2>2
<1>8. PICK share2 \in [Actors -> SUBSET Nat] :
        \A b \in Actors : share2[b] = IF b = a THEN gained ELSE share[b]
  <2> DEFINE f == [b \in Actors |-> IF b = a THEN gained ELSE share[b]]
  <2>1. f \in [Actors -> SUBSET Nat]
    OBVIOUS
  <2> QED
    BY <2>1, Zenon
<1>9. PICK held2 \in [Counters -> SUBSET Nat] :
        \A d \in Counters : held2[d] = IF d = c THEN {} ELSE held[d]
  <2> DEFINE f == [d \in Counters |-> IF d = c THEN {} ELSE held[d]]
  <2>1. f \in [Counters -> SUBSET Nat]
    BY ZenonT(60)
  <2> QED
    BY <2>1, Zenon
<1>10. Units(owner, held2, share2, stored)'
  <2>1. ASSUME NEW d \in Counters
        PROVE  held2[d] \subseteq 1 .. uses[owner[d]] /\ Cardinality(held2[d]) = value'[d]
    BY <1>1, <1>9, <1>5, EmptyCount, ZenonT(60) DEF Units
  <2>2. ASSUME NEW b \in Actors
        PROVE  share2[b] \subseteq 1 .. uses[proc'[b].key] /\ Cardinality(share2[b]) = Owed(b)'
    <3>1. CASE b = a
      BY <1>4, <1>7, <1>8, <3>1, ZenonT(60) DEF Owed
    <3>2. CASE b # a
      BY <1>1, <1>4, <1>8, <3>2 DEF Units, Owed, Kept
    <3> QED
      BY <3>1, <3>2, Zenon
  <2> QED
    BY <1>1, <1>4, <2>1, <2>2 DEF Units
<1>11. Apart(owner, held2, share2, stored)'
  <2>1. CountersApart(owner, held2)' /\ EntryApart(owner, held2, stored)'
    BY <1>1, <1>9, Zenon DEF Apart, CountersApart, EntryApart
  <2>2. CopyApart(owner, held2, share2)'
    <3>1. ASSUME NEW d \in Counters, NEW b \in Actors,
                 proc'[b].pc \in Carrying, proc'[b].key = owner[d]
          PROVE  held2[d] \cap share2[b] = {}
      <4>1. CASE b = a
        BY <1>4, <1>7, <1>8, <1>9, <3>1, <4>1, ZenonT(60)
      <4>2. CASE b # a
        BY <1>1, <1>4, <1>8, <1>9, <3>1, <4>2, ZenonT(60) DEF Apart, CopyApart, Kept
      <4> QED
        BY <4>1, <4>2, Zenon
    <3> QED
      BY <3>1, Zenon DEF CopyApart
  <2>3. FlushApart(share2, stored)'
    BY <1>1, <1>4, <1>7, <1>8, ZenonT(60) DEF Apart, FlushApart, Kept
  <2>4. MoversApart(share2)'
    <3>1. ASSUME NEW b \in Actors, b # a, proc'[b].pc \in Carrying, proc'[b].key = k
          PROVE  gained \cap share[b] = {}
      BY <1>4, <1>7, <3>1, Zenon DEF Kept
    <3>2. ASSUME NEW b \in Actors, NEW e \in Actors, b # e, proc'[b].pc = "update",
                 proc'[e].pc \in Carrying, proc'[b].key = proc'[e].key
          PROVE  share2[b] \cap share2[e] = {}
      <4>1. CASE b = a
        BY <1>4, <1>8, <3>1, <3>2, <4>1, ZenonT(60)
      <4>2. CASE e = a
        BY <1>4, <1>8, <3>1, <3>2, <4>2, ZenonT(60) DEF Carrying
      <4>3. CASE b # a /\ e # a
        <5>1. Kept(b) /\ Kept(e) /\ share2[b] = share[b] /\ share2[e] = share[e]
          BY <1>4, <1>8, <4>3, Zenon
        <5>2. proc[b].pc = "update" /\ proc[e].pc \in Carrying /\ proc[b].key = proc[e].key
          BY <3>2, <5>1, Zenon DEF Kept
        <5> QED
          BY <1>1, <3>2, <5>1, <5>2, Zenon DEF Apart, MoversApart
      <4> QED
        BY <4>1, <4>2, <4>3, Zenon
    <3> QED
      BY <3>2, Zenon DEF MoversApart
  <2> QED
    BY <2>1, <2>2, <2>3, <2>4, Zenon DEF Apart
<1>12. Owned(owner)'
  BY <1>1, <1>4, ZenonT(60) DEF Owned, Kept
<1> QED
  BY <1>10, <1>11, <1>12, Zenon DEF Ledger

(* What a flush carries, or a counter that is drained into the entry under *)
(* the cache's lock, is added to the entry.                                *)
Adds(a, k, c, gained, rest, owner, held, share, stored) ==
  /\ gained \subseteq 1 .. uses[k] /\ gained \cap stored[k] = {}
  /\ rest \subseteq 1 .. uses[k] /\ Cardinality(rest) = proc[a].n
  /\ \A d \in Counters : d # c /\ owner[d] = k => held[d] \cap gained = {}
  /\ \A b \in Actors \ {a} :
       proc[b].pc = "update" /\ proc[b].key = k => gained \cap share[b] = {}
  /\ \A j \in Keys : count'[j] = IF j = k THEN count[k] + Cardinality(gained) ELSE count[j]
  /\ \A d \in Counters : value'[d] = IF d = c THEN 0 ELSE value[d]
  /\ Moves(a, "clean", k, proc[a].n, proc[a].counter)
  /\ UNCHANGED <<uses, slot>>

LEMMA AddedLedger ==
  ASSUME FiniteSetFacts, Shape, Shape', NEW a \in Actors, NEW k \in Keys,
         NEW c, NEW gained \in SUBSET Nat, NEW rest \in SUBSET Nat,
         NEW owner \in [Counters -> Keys], NEW held \in [Counters -> SUBSET Nat],
         NEW share \in [Actors -> SUBSET Nat], NEW stored \in [Keys -> SUBSET Nat],
         Units(owner, held, share, stored), Apart(owner, held, share, stored), Owned(owner),
         Adds(a, k, c, gained, rest, owner, held, share, stored)
  PROVE  Ledger'
<1>1. /\ gained \cap stored[k] = {}
      /\ \A d \in Counters : d # c /\ owner[d] = k => held[d] \cap gained = {}
      /\ \A b \in Actors \ {a} :
           proc[b].pc = "update" /\ proc[b].key = k => gained \cap share[b] = {}
      /\ \A j \in Keys : count'[j] = IF j = k THEN count[k] + Cardinality(gained) ELSE count[j]
      /\ \A d \in Counters : value'[d] = IF d = c THEN 0 ELSE value[d]
      /\ UNCHANGED <<uses, slot>>
      /\ rest \subseteq 1 .. uses[k] /\ Cardinality(rest) = proc[a].n
  BY Zenon DEF Adds
<1>2. /\ proc'[a].pc = "clean" /\ proc'[a].key = k /\ proc'[a].n = proc[a].n
      /\ \A b \in Actors \ {a} : Kept(b)
  BY Zenon DEF Moves, Adds
<1>3. /\ stored[k] \cup gained \subseteq 1 .. uses[k]
      /\ Cardinality(stored[k] \cup gained) = count[k] + Cardinality(gained)
  <2>1. uses[k] \in Nat
    BY Zenon DEF Shape
  <2>2. stored[k] \subseteq 1 .. uses[k] /\ Cardinality(stored[k]) = count[k]
    BY Zenon DEF Units
  <2>3. stored[k] \cap gained = {} /\ gained \subseteq 1 .. uses[k]
    BY Zenon DEF Adds
  <2>4. Cardinality(stored[k] \cup gained) = Cardinality(stored[k]) + Cardinality(gained)
    BY <2>1, <2>2, <2>3, PileUnion, Zenon
  <2> QED
    BY <2>2, <2>3, <2>4, Zenon
<1>4. PICK share2 \in [Actors -> SUBSET Nat] :
        \A b \in Actors : share2[b] = IF b = a THEN rest ELSE share[b]
  <2> DEFINE f == [b \in Actors |-> IF b = a THEN rest ELSE share[b]]
  <2>1. f \in [Actors -> SUBSET Nat]
    OBVIOUS
  <2> QED
    BY <2>1, Zenon
<1>5. PICK held2 \in [Counters -> SUBSET Nat] :
        \A d \in Counters : held2[d] = IF d = c THEN {} ELSE held[d]
  <2> DEFINE f == [d \in Counters |-> IF d = c THEN {} ELSE held[d]]
  <2>1. f \in [Counters -> SUBSET Nat]
    OBVIOUS
  <2> QED
    BY <2>1, Zenon
<1>6. PICK stored2 \in [Keys -> SUBSET Nat] :
        \A j \in Keys : stored2[j] = IF j = k THEN stored[k] \cup gained ELSE stored[j]
  <2> DEFINE f == [j \in Keys |-> IF j = k THEN stored[k] \cup gained ELSE stored[j]]
  <2>1. f \in [Keys -> SUBSET Nat]
    BY Zenon
  <2> QED
    BY <2>1, Zenon
<1>7. Units(owner, held2, share2, stored2)'
  <2>1. ASSUME NEW d \in Counters
        PROVE  held2[d] \subseteq 1 .. uses[owner[d]] /\ Cardinality(held2[d]) = value'[d]
    BY <1>1, <1>5, EmptyCount, Zenon DEF Units
  <2>2. ASSUME NEW b \in Actors
        PROVE  share2[b] \subseteq 1 .. uses[proc'[b].key] /\ Cardinality(share2[b]) = Owed(b)'
    <3>1. CASE b = a
      BY <1>1, <1>2, <1>4, <3>1, ZenonT(60) DEF Owed
    <3>2. CASE b # a
      BY <1>2, <1>4, <3>2, ZenonT(60) DEF Units, Owed, Kept
    <3> QED
      BY <3>1, <3>2, Zenon
  <2>3. ASSUME NEW j \in Keys
        PROVE  stored2[j] \subseteq 1 .. uses[j] /\ Cardinality(stored2[j]) = count'[j]
    BY <1>1, <1>3, <1>6, ZenonT(60) DEF Units
  <2> QED
    BY <1>1, <2>1, <2>2, <2>3, Zenon DEF Units
<1>8. Apart(owner, held2, share2, stored2)'
  <2>1. CountersApart(owner, held2)'
    BY <1>5, Zenon DEF Apart, CountersApart
  <2>2. EntryApart(owner, held2, stored2)'
    BY <1>1, <1>5, <1>6, ZenonT(60) DEF Apart, EntryApart
  <2>3. CopyApart(owner, held2, share2)'
    BY <1>2, <1>4, <1>5, ZenonT(60) DEF Apart, CopyApart, Kept, Carrying
  <2>4. FlushApart(share2, stored2)'
    <3>1. ASSUME NEW b \in Actors, proc'[b].pc = "update"
          PROVE  share2[b] \cap stored2[proc'[b].key] = {}
      <4>1. b # a
        BY <1>2, <3>1, Zenon
      <4>2. proc[b].pc = "update" /\ proc'[b].key = proc[b].key /\ proc[b].key \in Keys
        BY <1>2, <3>1, <4>1, ActorCopies, Zenon DEF Kept
      <4>3. share2[b] = share[b] /\ share[b] \cap stored[proc[b].key] = {}
        BY <1>4, <4>1, <4>2, Zenon DEF Apart, FlushApart
      <4> QED
        <5>1. CASE proc[b].key = k
          <6>1. stored2[proc'[b].key] = stored[proc[b].key] \cup gained
            BY <1>6, <4>2, <5>1, ZenonT(60)
          <6>2. gained \cap share[b] = {}
            BY <1>1, <4>1, <4>2, <5>1, ZenonT(60)
          <6> QED
            BY <4>3, <6>1, <6>2, ZenonT(60)
        <5>2. CASE proc[b].key # k
          BY <1>6, <4>2, <4>3, <5>2, ZenonT(60)
        <5> QED
          BY <5>1, <5>2, Zenon
    <3> QED
      BY <3>1, Zenon DEF FlushApart
  <2>5. MoversApart(share2)'
    BY <1>2, <1>4, ZenonT(60) DEF Apart, MoversApart, Kept, Carrying
  <2> QED
    BY <2>1, <2>2, <2>3, <2>4, <2>5 DEF Apart
<1>9. Owned(owner)'
  BY <1>1, <1>2, ZenonT(60) DEF Owned, Kept
<1> QED
  BY <1>7, <1>8, <1>9, Zenon DEF Ledger

LEMMA FlushUpdateLedger ==
  ASSUME FiniteSetFacts, Shape, Shape', Ledger, NEW a \in Actors, FlushUpdate(a)
  PROVE  Ledger'
<1>1. PICK k \in Keys : k = proc[a].key
  BY ActorCopies, Zenon
<1>2. /\ Moves(a, "clean", k, proc[a].n, proc[a].counter) /\ proc[a].pc = "update"
      /\ UNCHANGED <<uses, slot, value>>
  BY <1>1, FlushUpdateEffect, Zenon DEF FlushUpdate, At, counters
<1>3. CASE kind[k] = "absent"
  <2>1. count' = count
    BY <1>1, <1>3, Zenon DEF FlushUpdate, SameEntries
  <2> QED
    BY <1>1, <1>2, <2>1, LedgerCalm, Zenon DEF Carrying
<1>4. CASE kind[k] # "absent"
  <2>1. PICK owner \in [Counters -> Keys], held \in [Counters -> SUBSET Nat],
             share \in [Actors -> SUBSET Nat], stored \in [Keys -> SUBSET Nat] :
               /\ Units(owner, held, share, stored)
               /\ Apart(owner, held, share, stored)
               /\ Owned(owner)
    BY Zenon DEF Ledger
  <2>2. PICK moved \in SUBSET Nat : moved = share[a]
    BY Zenon
  <2>3. moved \subseteq 1 .. uses[k] /\ Cardinality(moved) = proc[a].n
    BY <1>1, <1>2, <2>1, <2>2, Zenon DEF Units, Owed
  <2>4. moved \cap stored[k] = {}
    BY <1>1, <1>2, <2>1, <2>2, ZenonT(60) DEF Apart, FlushApart
  <2>5. NoCounter \in 0 .. MaxHits /\ NoCounter \notin Counters
    BY LimitAssumption DEF NoCounter, Counters
  <2>6. \A d \in Counters : d # NoCounter /\ owner[d] = k => held[d] \cap moved = {}
    BY <1>1, <1>2, <2>1, <2>2, Zenon DEF Apart, CopyApart, Carrying
  <2>7. \A b \in Actors \ {a} :
          proc[b].pc = "update" /\ proc[b].key = k => moved \cap share[b] = {}
    BY <1>1, <1>2, <2>1, <2>2, ZenonT(60) DEF Apart, MoversApart, Carrying
  <2>8. \A j \in Keys : count'[j] = IF j = k THEN count[k] + Cardinality(moved) ELSE count[j]
    BY <1>1, <1>4, <2>3 DEF FlushUpdate, Put, Shape
  <2>9. \A d \in Counters : value'[d] = IF d = NoCounter THEN 0 ELSE value[d]
    BY <1>2, <2>5, Zenon
  <2>10. Adds(a, k, NoCounter, moved, moved, owner, held, share, stored)
    BY <1>2, <2>3, <2>4, <2>6, <2>7, <2>8, <2>9, ZenonT(60) DEF Adds
  <2> QED
    BY <2>1, <2>10, AddedLedger, Zenon
<1> QED
  BY <1>3, <1>4, Zenon

LEMMA ExpireLedger ==
  ASSUME FiniteSetFacts, Shape, Shape', Ledger, NEW a \in Actors, Expire(a)
  PROVE  Ledger'
<1>1. proc[a].n = 0 /\ proc[a].pc = "expire" /\ UNCHANGED <<uses, slot>>
  BY DEF Expire, At, Shape, Hands, EmptyHanded
<1>2. PICK k \in Keys :
        \/ /\ Swap(slot[k]) /\ \A j \in Keys :
                count'[j] = IF j = k THEN count[k] + Drained(slot[k]) ELSE count[j]
           /\ Moves(a, "clean", k, proc[a].n, proc[a].counter)
        \/ /\ UNCHANGED <<value, count>>
           /\ Moves(a, "expire", proc[a].key, proc[a].n, proc[a].counter)
  <2>1. PICK k \in proc[a].todo :
           LET n == count[k] + Drained(slot[k]) IN
           /\ k \in Keys /\ n \in Nat
           /\ \/ /\ Swap(slot[k])
                 /\ IF n = 0 THEN Remove(k) ELSE Put(k, "stats", n)
                 /\ Moves(a, "clean", k, proc[a].n, proc[a].counter)
              \/ /\ SameEntries /\ UNCHANGED value
                 /\ Moves(a, "expire", proc[a].key, proc[a].n, proc[a].counter)
    BY ExpireEffect, Zenon
  <2>2. ASSUME IF count[k] + Drained(slot[k]) = 0 THEN Remove(k)
               ELSE Put(k, "stats", count[k] + Drained(slot[k]))
        PROVE  \A j \in Keys : count'[j] = IF j = k THEN count[k] + Drained(slot[k]) ELSE count[j]
    BY <2>1, <2>2, Zenon DEF Put, Remove, Shape
  <2> QED
    BY <2>1, <2>2, Zenon DEF SameEntries
<1>3. CASE /\ UNCHANGED <<value, count>>
           /\ Moves(a, "expire", proc[a].key, proc[a].n, proc[a].counter)
  BY <1>1, <1>3, LedgerCalm, Zenon DEF Carrying
<1>4. CASE /\ Swap(slot[k]) /\ \A j \in Keys :
                count'[j] = IF j = k THEN count[k] + Drained(slot[k]) ELSE count[j]
           /\ Moves(a, "clean", k, proc[a].n, proc[a].counter)
  <2>1. PICK owner \in [Counters -> Keys], held \in [Counters -> SUBSET Nat],
             share \in [Actors -> SUBSET Nat], stored \in [Keys -> SUBSET Nat] :
               /\ Units(owner, held, share, stored)
               /\ Apart(owner, held, share, stored)
               /\ Owned(owner)
    BY Zenon DEF Ledger
  <2>2. PICK c \in 0 .. MaxHits : c = slot[k]
    BY Zenon DEF Shape
  <2>3. PICK gained \in SUBSET Nat : gained = IF c = NoCounter THEN {} ELSE held[c]
    <3>1. c # NoCounter => held[c] \in SUBSET Nat
      BY RealCounter
    <3> QED
      BY <3>1, Zenon
  <2>4. PICK rest \in SUBSET Nat : rest = {}
    BY ZenonT(60)
  <2>5. rest \subseteq 1 .. uses[k] /\ Cardinality(rest) = proc[a].n
    BY <1>1, <2>4, EmptyCount
  <2>6. CASE c = NoCounter
    <3>1. gained \subseteq 1 .. uses[k] /\ gained \cap stored[k] = {}
          /\ Cardinality(gained) = Drained(c)
      BY <2>3, <2>6, EmptyCount, Zenon DEF Drained
    <3>2. \A d \in Counters : d # c /\ owner[d] = k => held[d] \cap gained = {}
      BY <2>3, <2>6, Zenon
    <3>3. \A b \in Actors \ {a} :
            proc[b].pc = "update" /\ proc[b].key = k => gained \cap share[b] = {}
      BY <2>3, <2>6, Zenon
    <3>4. \A j \in Keys : count'[j] = IF j = k THEN count[k] + Cardinality(gained) ELSE count[j]
      BY <1>4, <2>2, <3>1, Zenon
    <3>5. \A d \in Counters : value'[d] = IF d = c THEN 0 ELSE value[d]
      BY <1>4, <2>2, SwapType, Zenon
    <3>6. Adds(a, k, c, gained, rest, owner, held, share, stored)
      BY <1>1, <1>4, <2>5, <3>1, <3>2, <3>3, <3>4, <3>5, ZenonT(60) DEF Adds
    <3> QED
      BY <2>1, <3>6, AddedLedger, Zenon
  <2>7. CASE c # NoCounter
    <3>0. c \in Counters /\ owner[c] = k /\ gained = held[c]
      BY <2>1, <2>2, <2>3, <2>7, RealCounter, ZenonT(60) DEF Owned
    <3>1. gained \subseteq 1 .. uses[k] /\ gained \cap stored[k] = {}
          /\ Cardinality(gained) = Drained(c)
      BY <2>1, <2>7, <3>0, Zenon DEF Units, Drained, Apart, EntryApart
    <3>2. \A d \in Counters : d # c /\ owner[d] = k => held[d] \cap gained = {}
      BY <2>1, <3>0, Zenon DEF Apart, CountersApart
    <3>3. \A b \in Actors \ {a} :
            proc[b].pc = "update" /\ proc[b].key = k => gained \cap share[b] = {}
      BY <2>1, <3>0, ZenonT(60) DEF Apart, CopyApart, Carrying
    <3>4. \A j \in Keys : count'[j] = IF j = k THEN count[k] + Cardinality(gained) ELSE count[j]
      BY <1>4, <2>2, <3>1, Zenon
    <3>5. \A d \in Counters : value'[d] = IF d = c THEN 0 ELSE value[d]
      BY <1>4, <2>2, SwapType, Zenon
    <3>6. Adds(a, k, c, gained, rest, owner, held, share, stored)
      BY <1>1, <1>4, <2>5, <3>1, <3>2, <3>3, <3>4, <3>5, Zenon DEF Adds
    <3> QED
      BY <2>1, <3>6, AddedLedger
  <2> QED
    BY <2>6, <2>7, Zenon
<1> QED
  BY <1>2, <1>3, <1>4, ZenonT(60)

(* The other steps move nothing.                                           *)
LEMMA QuietLedger ==
  ASSUME FiniteSetFacts, Shape, Shape', Ledger, NEW a \in Actors, NEW places, Quiet(a, places),
         places \cap (Carrying \cup {"add", "set"}) = {}, proc[a].pc # "set",
         UNCHANGED <<uses, value>>,
         \A k \in Keys : slot'[k] \in {slot[k], NoCounter},
         \A k \in Keys : count'[k] \in {count[k], 0}
  PROVE  Ledger'
<1>1. PICK pc \in places : \E key, counter : Moves(a, pc, key, 0, counter)
  BY Zenon DEF Quiet
<1>2. pc \notin Carrying /\ pc # "add"
  BY Zenon
<1> QED
  BY <1>1, <1>2, LedgerCalm, Zenon

LEMMA ConnectionLedger ==
  ASSUME FiniteSetFacts, Shape, Shape', Counting, Ledger, NEW a \in Actors, Connection(a)
  PROVE  Ledger'
<1>1. CASE Hit(a)
  <2>1. PICK k \in Keys : Moves(a, "hit", k, proc[a].n, proc[a].counter)
    BY <1>1, HitEffect, Zenon
  <2>2. proc[a].n = 0 /\ UNCHANGED <<uses, value, slot, count>>
    BY <1>1, Zenon DEF Hit, At, Shape, Hands, EmptyHanded, SameEntries, counters
  <2> QED
    BY <2>1, <2>2, LedgerCalm, Zenon DEF Carrying
<1>2. CASE LoadOrStore(a)
  BY <1>2, LoadOrStoreLedger, Zenon
<1>3. CASE AddHit(a)
  BY <1>3, AddHitLedger, Zenon
<1>4. CASE Miss(a)
  <2>1. PICK k \in Keys : Moves(a, "lookup", k, count[k], proc[a].counter)
    BY <1>4, MissEffect, Zenon
  <2>2. UNCHANGED <<uses, value, count, slot>>
    BY <1>4, Zenon DEF Miss, SameEntries, counters
  <2> QED
    BY <2>1, <2>2, CopyLedger, Zenon
<1>5. CASE Load(a)
  BY <1>5, LoadLedger, Zenon
<1>6. CASE Drain(a)
  BY <1>6, DrainLedger, Zenon
<1>7. CASE Store(a)
  BY <1>7, StoreLedger
<1>8. CASE Enforce(a) \/ TryLock(a)
  <2>1. Quiet(a, {"idle", "trylock", "recheck"}) /\ proc[a].pc # "set"
    BY <1>8, EnforceEffect, Zenon DEF Enforce, TryLock, At
  <2>2. UNCHANGED <<uses, value, count, slot>>
    BY <1>8, Zenon DEF Enforce, TryLock, SameEntries, counters
  <2> QED
    BY <2>1, <2>2, QuietLedger, Zenon DEF Carrying
<1>9. CASE Recheck(a)
  <2>1. Quiet(a, {"idle", "flush", "items"}) /\ proc[a].pc # "set"
    BY <1>9, BeginFlushEffect, Zenon DEF Recheck, At
  <2>2. UNCHANGED <<uses, value, count, slot>>
    BY <1>9, Zenon DEF Recheck, SameEntries, counters
  <2> QED
    BY <2>1, <2>2, QuietLedger DEF Carrying
<1> QED
  BY <1>1, <1>2, <1>3, <1>4, <1>5, <1>6, <1>7, <1>8, <1>9, ZenonT(60) DEF Connection

LEMMA TidyLedger ==
  ASSUME FiniteSetFacts, Shape, Shape', Ledger, NEW a \in Actors, Tidy(a)
  PROVE  Ledger'
<1>1. CASE TidyCache(a) \/ FlushEnd(a) \/ TidyEnd(a)
  <2>1. Quiet(a, {"idle", "flush", "items"}) /\ proc[a].pc # "set"
    BY <1>1, BeginFlushEffect, Zenon DEF TidyCache, FlushEnd, TidyEnd, At
  <2>2. UNCHANGED <<uses, value, count, slot>>
    BY <1>1, Zenon DEF TidyCache, FlushEnd, TidyEnd, SameEntries, counters
  <2> QED
    BY <2>1, <2>2, QuietLedger, Zenon DEF Carrying
<1>2. CASE PurgeCache(a)
  <2>1. Quiet(a, {"flush"}) /\ proc[a].pc # "set"
    BY <1>2, PurgeCacheEffect, Zenon DEF PurgeCache, At
  <2>2. UNCHANGED <<uses, value, slot>> /\ \A k \in Keys : count'[k] = 0
    BY <1>2, Zenon DEF PurgeCache, counters
  <2> QED
    BY <2>1, <2>2, QuietLedger, Zenon DEF Carrying
<1>3. CASE FlushCacheHitCounters(a)
  BY <1>3, FlushLedger, Zenon
<1>4. CASE FlushUpdate(a)
  BY <1>4, FlushUpdateLedger, Zenon
<1>5. CASE CleanupCheck(a) \/ CleanupDelete(a)
  <2>1. /\ UNCHANGED <<uses, value, count>> /\ proc[a].pc # "set"
        /\ \A k \in Keys : slot'[k] \in {slot[k], NoCounter}
    BY <1>5, Zenon DEF CleanupCheck, CleanupDelete, At, SameEntries, counters, Shape
  <2>2. AfterClean(proc[a]).pc \in {"flush", "expire", "done"}
    BY AfterCleanType, ActorCopies, Zenon
  <2>3. CASE Moves(a, "delete", proc[a].key, proc[a].n, proc[a].counter)
    BY <2>1, <2>3, LedgerCalm, Zenon DEF Carrying
  <2>4. CASE Moves(a, AfterClean(proc[a]).pc, Idle.key, 0, proc[a].counter)
    BY <2>1, <2>2, <2>4, LedgerCalm, Zenon DEF Carrying
  <2> QED
    BY <1>5, <2>3, <2>4, CleanupEffect, Zenon
<1>6. CASE Items(a)
  <2>1. Quiet(a, {"expire"}) /\ proc[a].pc # "set"
    BY <1>6, ItemsEffect, Zenon DEF Items, At
  <2>2. UNCHANGED <<uses, value, count, slot>>
    BY <1>6, Zenon DEF Items, counters
  <2> QED
    BY <2>1, <2>2, QuietLedger, Zenon DEF Carrying
<1>7. CASE Expire(a)
  BY <1>7, ExpireLedger
<1>8. CASE Partition(a)
  <2>1. Quiet(a, {"evict"}) /\ proc[a].pc # "set"
    BY <1>8, PartitionEffect, Zenon DEF Partition, At
  <2>2. UNCHANGED <<uses, value, count, slot>>
    BY <1>8, ZenonT(60) DEF Partition, SameEntries, counters
  <2> QED
    BY <2>1, <2>2, QuietLedger, Zenon DEF Carrying
<1>9. CASE Evict(a)
  <2>1. Moves(a, "evict", proc[a].key, proc[a].n, proc[a].counter)
    BY <1>9, EvictEffect, Zenon
  <2>2. proc[a].pc # "set" /\ UNCHANGED <<uses, value>>
    BY <1>9, Zenon DEF Evict, At
  <2>3. /\ \A k \in Keys : slot'[k] \in {slot[k], NoCounter}
        /\ \A k \in Keys : count'[k] \in {count[k], 0}
    <3>1. PICK k \in Keys : \/ Remove(k) /\ slot' = [slot EXCEPT ![k] = NoCounter]
                            \/ UNCHANGED <<kind, count, slot>>
      BY <1>9, EvictEffect, Zenon
    <3> QED
      BY <3>1, ZenonT(60) DEF Remove, Shape
  <2> QED
    BY <2>1, <2>2, <2>3, LedgerCalm DEF Carrying
<1> QED
  BY <1>1, <1>2, <1>3, <1>4, <1>5, <1>6, <1>7, <1>8, <1>9, ZenonT(60) DEF Tidy

LEMMA PrefetchLedger ==
  ASSUME FiniteSetFacts, Shape, Shape', Ledger, NEW a \in Actors, Prefetch(a)
  PROVE  Ledger'
<1>1. CASE Get(a)
  <2>1. PICK k \in Keys : Moves(a, "holding", k, count[k], proc[a].counter)
    BY <1>1, GetEffect, Zenon
  <2>2. UNCHANGED <<uses, value, count, slot>>
    BY <1>1, Zenon DEF Get, SameEntries, counters
  <2> QED
    BY <2>1, <2>2, CopyLedger, Zenon
<1>2. CASE Refresh(a) \/ KeepCounter(a)
  BY <1>2, KeepLedger, Zenon
<1>3. CASE Discard(a)
  BY <1>3, DrainLedger, Zenon
<1>4. CASE CleanupEnd(a)
  <2>1. Quiet(a, {"idle", "trylock", "recheck"}) /\ proc[a].pc # "set"
    BY <1>4, EnforceEffect, Zenon DEF CleanupEnd, At
  <2>2. UNCHANGED <<uses, value, count, slot>>
    BY <1>4 DEF CleanupEnd, SameEntries, counters
  <2> QED
    BY <2>1, <2>2, QuietLedger, Zenon DEF Carrying
<1> QED
  BY <1>1, <1>2, <1>3, <1>4, Zenon DEF Prefetch

---------------------------------------------------------------------------
(* The ledger can always be drawn up.                                      *)

LEMMA InitLedger ==
  ASSUME FiniteSetFacts, Init
  PROVE  Ledger
<1>1. Shape
  BY InitShape
<1>2. \A a \in Actors : proc[a].pc = "idle" /\ proc[a].n = 0 /\ proc[a].counter = NoCounter
  BY IdleType, Zenon DEF Init
<1>3. PICK k \in Keys : TRUE
  BY LimitAssumption, Zenon
<1> DEFINE owner == [c \in Counters |-> k]
           none(S) == [x \in S |-> {}]
<1>4. /\ owner \in [Counters -> Keys] /\ none(Counters) \in [Counters -> SUBSET Nat]
      /\ none(Actors) \in [Actors -> SUBSET Nat] /\ none(Keys) \in [Keys -> SUBSET Nat]
  BY Zenon
<1>5. Units(owner, none(Counters), none(Actors), none(Keys))
  BY <1>2, EmptyCount, Zenon DEF Init, Units, Owed
<1>6. Apart(owner, none(Counters), none(Actors), none(Keys))
  BY <1>1, ActorCopies, Zenon DEF Apart, CountersApart, EntryApart, CopyApart, FlushApart,
                                  MoversApart
<1>7. Owned(owner)
  BY <1>2, Zenon DEF Init, Owned
<1> QED
  BY <1>4, <1>5, <1>6, <1>7 DEF Ledger

LEMMA NextLedger ==
  ASSUME FiniteSetFacts, Limited, Limited', Ledger, [Next]_vars
  PROVE  Ledger'
<1>1. Shape /\ Shape' /\ Counting
  BY Zenon DEF Limited
<1>2. CASE UNCHANGED vars
  <2>1. PICK owner \in [Counters -> Keys], held \in [Counters -> SUBSET Nat],
             share \in [Actors -> SUBSET Nat], stored \in [Keys -> SUBSET Nat] :
               /\ Units(owner, held, share, stored)
               /\ Apart(owner, held, share, stored)
               /\ Owned(owner)
    BY Zenon DEF Ledger
  <2>2. Units(owner, held, share, stored)' /\ Owned(owner)'
    BY <1>2, <2>1, Zenon DEF vars, counters, Units, Owed, Owned
  <2>3. Apart(owner, held, share, stored)'
    BY <1>2, <2>1, Zenon DEF vars, Apart, CountersApart, EntryApart, CopyApart, FlushApart,
                             MoversApart
  <2> QED
    BY <2>2, <2>3, Zenon DEF Ledger
<1>3. ASSUME NEW a \in Actors, Connection(a)
      PROVE  Ledger'
  BY <1>1, <1>3, ConnectionLedger, Zenon
<1>4. ASSUME NEW a \in Actors, Tidy(a)
      PROVE  Ledger'
  BY <1>1, <1>4, TidyLedger, Zenon
<1>5. ASSUME NEW a \in Actors, Prefetch(a)
      PROVE  Ledger'
  BY <1>1, <1>5, PrefetchLedger, Zenon
<1> QED
  BY <1>2, <1>3, <1>4, <1>5, Zenon DEF Next

(* What an entry, its counter and a flush on its way hold together are     *)
(* different uses of the domain.                                           *)
LEMMA Uncounted ==
  ASSUME FiniteSetFacts, Shape, Ledger
  PROVE  /\ NoUseCountedTwice
         /\ \A k \in Keys : count[k] <= uses[k]
         /\ \A a \in Actors : Owed(a) <= uses[proc[a].key]
<1>1. PICK owner \in [Counters -> Keys], held \in [Counters -> SUBSET Nat],
           share \in [Actors -> SUBSET Nat], stored \in [Keys -> SUBSET Nat] :
             /\ Units(owner, held, share, stored)
             /\ Apart(owner, held, share, stored)
             /\ Owned(owner)
  BY Zenon DEF Ledger
<1>2. ASSUME NEW k \in Keys
      PROVE  count[k] <= uses[k]
  <2>1. uses[k] \in Nat /\ stored[k] \subseteq 1 .. uses[k] /\ Cardinality(stored[k]) = count[k]
    BY <1>1, Zenon DEF Shape, Units
  <2> QED
    BY <2>1, Pile, Zenon
<1>3. ASSUME NEW a \in Actors
      PROVE  Owed(a) <= uses[proc[a].key]
  <2>1. uses[proc[a].key] \in Nat
    BY ActorCopies, Zenon DEF Shape
  <2>2. share[a] \subseteq 1 .. uses[proc[a].key] /\ Cardinality(share[a]) = Owed(a)
    BY <1>1, Zenon DEF Units
  <2> QED
    BY <2>1, <2>2, Pile, Zenon
<1>4. ASSUME NEW k \in Keys
      PROVE  /\ count[k] + Drained(slot[k]) <= uses[k]
             /\ \A a \in Moving(k) : count[k] + Drained(slot[k]) + proc[a].n <= uses[k]
  <2>1. PICK c \in 0 .. MaxHits : c = slot[k]
    BY Zenon DEF Shape
  <2>2. PICK gained \in SUBSET Nat : gained = IF c = NoCounter THEN {} ELSE held[c]
    <3>1. c # NoCounter => held[c] \in SUBSET Nat
      BY RealCounter
    <3> QED
      BY <3>1, Zenon
  <2>3. /\ gained \subseteq 1 .. uses[k] /\ Cardinality(gained) = Drained(c)
        /\ stored[k] \cap gained = {}
        /\ \A a \in Moving(k) : gained \cap share[a] = {}
    <3>1. CASE c = NoCounter
      BY <2>2, <3>1, EmptyCount DEF Drained
    <3>2. CASE c # NoCounter
      <4>1. c \in Counters /\ owner[c] = k /\ gained = held[c]
        BY <1>1, <2>1, <2>2, <3>2, RealCounter, Zenon DEF Owned
      <4>2. gained \subseteq 1 .. uses[k] /\ Cardinality(gained) = Drained(c)
        BY <1>1, <3>2, <4>1, Zenon DEF Units, Drained
      <4>3. stored[k] \cap gained = {}
        BY <1>1, <4>1, Zenon DEF Apart, EntryApart
      <4>4. \A a \in Moving(k) : gained \cap share[a] = {}
        BY <1>1, <4>1, Zenon DEF Apart, CopyApart, Moving, Carrying
      <4> QED
        BY <4>2, <4>3, <4>4, Zenon
    <3> QED
      BY <3>1, <3>2
  <2>4. PICK both \in SUBSET Nat : both = stored[k] \cup gained
    BY Zenon
  <2>5. uses[k] \in Nat /\ stored[k] \subseteq 1 .. uses[k] /\ Cardinality(stored[k]) = count[k]
    BY <1>1 DEF Shape, Units
  <2>6. Cardinality(stored[k] \cup gained) = Cardinality(stored[k]) + Cardinality(gained)
    BY <2>3, <2>5, PileUnion, ZenonT(60)
  <2>7. both \subseteq 1 .. uses[k] /\ Cardinality(both) = count[k] + Drained(slot[k])
    BY <2>1, <2>3, <2>4, <2>5, <2>6
  <2>8. count[k] + Drained(slot[k]) <= uses[k]
    BY <2>5, <2>7, Pile, Zenon
  <2>9. ASSUME NEW a \in Moving(k)
        PROVE  count[k] + Drained(slot[k]) + proc[a].n <= uses[k]
    <3>1. a \in Actors /\ proc[a].pc = "update" /\ proc[a].key = k
      BY <2>9, Zenon DEF Moving
    <3>2. share[a] \subseteq 1 .. uses[k] /\ Cardinality(share[a]) = proc[a].n
      BY <1>1, <3>1, Zenon DEF Units, Owed
    <3>3. both \cap share[a] = {}
      BY <1>1, <2>3, <2>4, <2>9, <3>1, Zenon DEF Apart, FlushApart
    <3>4. /\ Cardinality(both \cup share[a]) = Cardinality(both) + Cardinality(share[a])
          /\ both \cup share[a] \subseteq 1 .. uses[k]
      BY <2>5, <2>7, <3>2, <3>3, PileUnion, ZenonT(60)
    <3>5. Cardinality(both \cup share[a]) <= uses[k]
      BY <2>5, <3>4, Pile, Zenon
    <3> QED
      BY <2>7, <3>2, <3>4, <3>5, Zenon
  <2> QED
    BY <2>8, <2>9, Zenon
<1> QED
  BY <1>2, <1>3, <1>4, Zenon DEF NoUseCountedTwice

(* Every number is bounded by the hits and lookups that were begun.        *)
LEMMA Bounded ==
  ASSUME FiniteSetFacts, Shape, Counting, Ledger
  PROVE  TypeOK
<1>1. /\ added.hits \in Nat /\ added.stores \in Nat
      /\ added.hits <= MaxHits /\ added.stores <= MaxStores
  <2>1. cast.hits \in 0 .. MaxHits /\ cast.stores \in 0 .. MaxStores
    BY CastType, Zenon DEF Shape
  <2> QED
    BY <2>1, LimitAssumption DEF Shape, Counting
<1>2. /\ Cardinality(Hitting) \in Nat /\ Cardinality(Asking) \in Nat /\ IsFiniteSet(Asking)
  BY WithinCount, Zenon DEF Hitting, Asking
<1>3. \A k \in Keys : uses[k] \in Nat /\ uses[k] + Cardinality(Asking) <= MaxHits + MaxStores
  BY <1>1, <1>2, LimitAssumption DEF Shape, Counting
<1>4. uses \in [Keys -> 0 .. MaxHits + MaxStores]
  BY <1>2, <1>3, LimitAssumption DEF Shape
<1>5. count \in [Keys -> 0 .. MaxHits + MaxStores]
  <2>1. ASSUME NEW k \in Keys PROVE count[k] \in 0 .. MaxHits + MaxStores
    <3>1. count[k] \in Nat /\ count[k] <= uses[k]
      BY Uncounted, Zenon DEF Shape
    <3> QED
      BY <1>2, <1>3, <3>1, LimitAssumption
  <2> QED
    BY <2>1, Zenon DEF Shape
<1>6. value \in [Counters -> 0 .. MaxHits]
  <2>1. ASSUME NEW c \in Counters PROVE value[c] \in 0 .. MaxHits
    <3>1. value[c] \in Nat /\ value[c] + Cardinality(Hitting) <= added.hits
      BY Zenon DEF Shape, Counting
    <3> QED
      BY <1>1, <1>2, <3>1, LimitAssumption
  <2> QED
    BY <2>1, Zenon DEF Shape
<1>7. 0 .. MaxHits = {NoCounter} \cup Counters
  BY LimitAssumption DEF NoCounter, Counters
<1>8. ASSUME NEW a \in Actors
      PROVE  proc[a].n \in 0 .. MaxHits + MaxStores
  <2>1. /\ proc[a].n \in Nat /\ proc[a].key \in Keys /\ Owed(a) <= uses[proc[a].key]
        /\ uses[proc[a].key] \in Nat
    BY <1>3, ActorCopies, Uncounted, Zenon
  <2>2. uses[proc[a].key] + Cardinality(Asking) <= MaxHits + MaxStores
    BY <1>3, <2>1, ZenonT(60)
  <2>3. CASE proc[a].pc = "set"
    <3>1. a \in Asking
      BY <2>3, Zenon DEF Asking, Within
    <3>2. Cardinality(Asking) # 0
      BY <1>2, <3>1, EmptyCount, ZenonT(60)
    <3> QED
      BY <1>2, <2>1, <2>2, <2>3, <3>2, LimitAssumption DEF Owed
  <2>4. CASE proc[a].pc # "set"
    BY <1>2, <2>1, <2>2, <2>4, LimitAssumption DEF Owed
  <2> QED
    BY <2>3, <2>4, Zenon
<1>9. ASSUME NEW a \in Actors
      PROVE  /\ proc[a].pc \in Places /\ proc[a].then \in Places
             /\ proc[a].key \in Keys /\ proc[a].n \in 0 .. MaxHits + MaxStores
             /\ proc[a].counter \in {NoCounter} \cup Counters
             /\ proc[a].fresh \subseteq Keys /\ proc[a].todo \subseteq Keys
             /\ proc[a].judged \subseteq Keys
  <2>1. proc[a] \in Copies
    BY Zenon DEF Shape
  <2>2. Returns \subseteq Places
    BY Zenon DEF Returns, Places
  <2> QED
    BY <1>7, <1>8, <2>1, <2>2, Zenon DEF Copies
<1> QED
  BY <1>4, <1>5, <1>6, <1>7, <1>9, Zenon DEF Shape, TypeOK

---------------------------------------------------------------------------
(* The theorems.  The library has the facts about finite sets.             *)
INSTANCE FiniteSetTheorems

LEMMA FiniteSetsCount == FiniteSetFacts
<1>1. IsFiniteSet({}) /\ Cardinality({}) = 0
  BY FS_EmptySet
<1>2. \A S : IsFiniteSet(S) => Cardinality(S) \in Nat /\ (Cardinality(S) = 0 <=> S = {})
  BY FS_EmptySet, FS_CardinalityType
<1>3. \A S : \A T \in SUBSET S :
        IsFiniteSet(S) => IsFiniteSet(T) /\ Cardinality(T) <= Cardinality(S)
  BY FS_Subset
<1>4. \A S, x : IsFiniteSet(S) =>
        /\ Cardinality(S \cup {x}) = IF x \in S THEN Cardinality(S) ELSE Cardinality(S) + 1
        /\ Cardinality(S \ {x}) = IF x \in S THEN Cardinality(S) - 1 ELSE Cardinality(S)
  BY FS_AddElement, FS_RemoveElement
<1>5. \A S, T : IsFiniteSet(S) /\ IsFiniteSet(T) =>
        /\ Cardinality(S \cup T) = Cardinality(S) + Cardinality(T) - Cardinality(S \cap T)
        /\ Cardinality(S \ T) = Cardinality(S) - Cardinality(S \cap T)
  BY FS_Union, FS_Difference, ZenonT(60)
<1>6. \A m \in Nat : IsFiniteSet(1 .. m) /\ Cardinality(1 .. m) = m
  BY FS_Interval
<1> QED
  BY <1>1, <1>2, <1>3, <1>4, <1>5, <1>6, ZenonT(60) DEF FiniteSetFacts

LEMMA LimitedAlways == Spec => []Limited
<1>1. Init => Limited
  BY FiniteSetsCount, InitLimited, Zenon
<1>2. Limited /\ [Next]_vars => Limited'
  BY FiniteSetsCount, NextLimited, ZenonT(60)
<1> QED
  BY <1>1, <1>2, PTL DEF Spec

LEMMA LedgerAlways == Spec => []Ledger
<1>1. Init => Ledger
  BY FiniteSetsCount, InitLedger, Zenon
<1>2. Limited /\ Limited' /\ Ledger /\ [Next]_vars => Ledger'
  BY FiniteSetsCount, NextLedger, ZenonT(60)
<1> QED
  BY <1>1, <1>2, LimitedAlways, PTL DEF Spec

(* Once nobody prunes, more than CACHE_MAX_ENTRIES entries are due to      *)
(* entries that the last prune did not get to judge, for any limit, prune  *)
(* target, number of domains and number of prunes at a time.               *)
THEOREM LimitKept == Spec => []OverflowIsUnjudged
<1>1. Limited => OverflowIsUnjudged
  BY DEF Limited, Pruned, OverflowIsUnjudged, Settled, Responsible, FewSeen, Seen
<1> QED
  BY <1>1, LimitedAlways, PTL

(* TypeOK, with its bounds: however hits, lookups, flushes, prunes and     *)
(* prefetches interleave, at most one counter is made per hit, and no      *)
(* counter, entry or copy on its way counts more than was asked for.       *)
THEOREM TypeCorrect == Spec => []TypeOK
<1>1. Limited /\ Ledger => TypeOK
  BY FiniteSetsCount, Bounded, ZenonT(60) DEF Limited
<1> QED
  BY <1>1, LimitedAlways, LedgerAlways, PTL

(* No use of a domain is counted twice, by its entry, its hit counter and  *)
(* a flush that carries a count from the one to the other, for any number  *)
(* of connections, workers and prunes that hold old copies of all of them. *)
THEOREM CountedOnce == Spec => []NoUseCountedTwice
<1>1. Limited /\ Ledger => NoUseCountedTwice
  BY FiniteSetsCount, Uncounted, Zenon DEF Limited
<1> QED
  BY <1>1, LimitedAlways, LedgerAlways, PTL

=============================================================================
