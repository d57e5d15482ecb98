------------------------------ MODULE DaneProofs ------------------------------
(***************************************************************************)
(* What checkDane answers is right for any number of hosts, of workers and *)
(* of attempts.  The invariant of checkDane comes first, then what the     *)
(* goroutines of a worker pool do to it, each pool by itself, then the     *)
(* steps of the caller.                                                    *)
(***************************************************************************)
EXTENDS DaneLookup, FiniteSetTheorems, TLAPS

(* Hosts a pool has not answered for yet.                                  *)
Queued(p) == {r.host : r \in pool[p].sending \cup pool[p].results}
InPool(p) == pool[p].todo \cup pool[p].looking \cup Queued(p)

(* What a pool keeps to by itself.  The results are outcomes of lookups.   *)
(* It is closed only when nobody works; unless its context is done, the    *)
(* dispatcher has somebody to dispatch to, and ends only when all is sent. *)
PoolInv(p) ==
  /\ \A r \in pool[p].sending \cup pool[p].results : r.status \in Outcomes(p[2], r.host)
  /\ InPool(p) \subseteq world.hosts
  /\ pool[p].closed => pool[p].idle = 0 /\ pool[p].looking = {} /\ pool[p].sending = {}
  /\ ~Done(p) /\ ~pool[p].dispatching => pool[p].todo = {}
  /\ ~Done(p) /\ pool[p].dispatching =>
       pool[p].idle > 0 \/ pool[p].looking # {} \/ pool[p].sending # {}

(* A pool has no more goroutines that look up or send than the limit.      *)
Bound(p) ==
  /\ IsFiniteSet(pool[p].looking) /\ IsFiniteSet(pool[p].sending)
  /\ pool[p].idle + Cardinality(pool[p].looking) + Cardinality(pool[p].sending)
       <= DANE_MX_LOOKUP_CONCURRENCY

(* What getMxRecords has made of an answered host.                         *)
Accounted(h) == IF world.kind[h] = "unsigned" THEN incompl ELSE h \in good

TrulyIncomplete == world.incompl \/ \E h \in world.hosts : world.kind[h] = "unsigned"

(* getMxRecords: as long as nothing went wrong, every host is in the pool  *)
(* or accounted for.                                                       *)
MxInv ==
  stage = "mx" =>
    /\ good \subseteq Signed
    /\ world.incompl => incompl
    /\ incompl => TrulyIncomplete
    /\ \A h \in good : minTTL <= world.mxTTL[h]
    /\ ~failed => ~pool[Mx].cancelled
    /\ ~failed /\ ~expired => \A h \in world.hosts : h \in InPool(Mx) \/ Accounted(h)

(* getDanePolicy: the policies are those of the hosts heard so far.        *)
TlsaInv ==
  stage = "tlsa" =>
    /\ good = Signed
    /\ incompl = TrulyIncomplete
    /\ InPool(Tlsa) \subseteq good
    /\ heard \subseteq good
    /\ \A h \in good : minTTL <= world.mxTTL[h]
    /\ \A h \in heard : minTTL <= TlsaTTL(h)
    /\ minPolicy = DaneOnly <=> ~incompl /\ \A h \in heard : world.kind[h] = "usable"
    /\ maxPolicy >= Dane <=> \E h \in heard : world.kind[h] \in {"usable", "unusable"}

IInv ==
  /\ TypeOK
  /\ stage = "retry" => attempt # attempts
  /\ \A p \in PoolIds : PoolInv(p)
  /\ MxInv
  /\ TlsaInv
  /\ VerdictSound

---------------------------------------------------------------------------
(* The outcomes of the lookups tell the truth about the host or that they  *)
(* failed.                                                                 *)
LEMMA MxOutcomesTrue ==
  ASSUME TypeOK, NEW h \in Hosts, NEW s \in MxOutcomes(h)
  PROVE  /\ s \in {"MxOk", "MxFail", "MxNotSec"}
         /\ s = "MxOk" => world.kind[h] # "unsigned"
         /\ s = "MxNotSec" => world.kind[h] = "unsigned"
<1>1. PICK t \in AddressTruths(h) :
        s \in {CheckMx(a, aaaa) : a \in {t[1], "MxFail"}, aaaa \in {t[2], "MxFail"}}
  BY DEF MxOutcomes
<1>2. PICK a \in {t[1], "MxFail"}, aaaa \in {t[2], "MxFail"} : s = CheckMx(a, aaaa)
  BY <1>1
<1>3. CASE world.kind[h] = "unsigned"
  BY <1>2, <1>3 DEF AddressTruths, CheckMx
<1>4. CASE world.kind[h] # "unsigned"
  BY <1>2, <1>4 DEF AddressTruths, CheckMx
<1> QED BY <1>3, <1>4, Zenon

LEMMA TlsaOutcomesTrue ==
  ASSUME TypeOK, NEW h \in Hosts, NEW s \in TlsaOutcomes(h)
  PROVE  /\ s \in {"dane-only", "dane", "", "error"}
         /\ s # "error" => s = CheckTlsa(h)
  BY Zenon DEF TlsaOutcomes, CheckTlsa

LEMMA OutcomesTyped ==
  ASSUME TypeOK, NEW h \in Hosts, NEW kind, NEW s \in Outcomes(kind, h)
  PROVE  s \in Statuses
  BY MxOutcomesTrue, TlsaOutcomesTrue, Zenon DEF Outcomes, Statuses

(* Only the truth about the domain matters to what a lookup can answer and *)
(* to the verdict.                                                         *)
LEMMA WorldFixed ==
  ASSUME world' = world
  PROVE  /\ Signed' = Signed
         /\ TruePolicy' = TruePolicy
         /\ TrulyIncomplete' = TrulyIncomplete
         /\ \A kind, h : Outcomes(kind, h)' = Outcomes(kind, h)
         /\ \A h : TlsaTTL(h)' = TlsaTTL(h)
         /\ attempts' = attempts
  BY DEF Signed, TruePolicy, TrulyIncomplete, Outcomes, MxOutcomes, AddressTruths,
         TlsaOutcomes, TlsaTTL, CheckTlsa, attempts

LEMMA HostsOfAdded ==
  ASSUME NEW S, NEW R
  PROVE  {r.host : r \in S \cup {R}} = {r.host : r \in S} \cup {R.host}
  OBVIOUS

(* The types of the parts of a pool and of the world.                      *)
LEMMA Typed ==
  ASSUME TypeOK, NEW p \in PoolIds
  PROVE  /\ pool[p] \in Pools
         /\ p = <<p[1], p[2]>> /\ p[1] \in 1 .. POLICY_ATTEMPTS /\ p[2] \in {"mx", "tlsa"}
         /\ world.hosts \in SUBSET Hosts /\ world.incompl \in BOOLEAN
         /\ world.kind \in [Hosts -> Kinds]
         /\ world.mxTTL \in [Hosts -> Nat] /\ world.tlsaTTL \in [Hosts -> Nat]
<1>1. pool[p] \in Pools
  BY Zenon DEF TypeOK
<1>2. p = <<p[1], p[2]>> /\ p[1] \in 1 .. POLICY_ATTEMPTS /\ p[2] \in {"mx", "tlsa"}
  BY DEF PoolIds
<1>3. world \in [hosts : SUBSET Hosts, incompl : BOOLEAN, kind : [Hosts -> Kinds],
                mxTTL : [Hosts -> Nat], tlsaTTL : [Hosts -> Nat], mayRetry : BOOLEAN]
  BY DaneAssumption, Zenon DEF TypeOK
<1> QED BY <1>1, <1>2, <1>3, Zenon

LEMMA CurrentPools ==
  ASSUME TypeOK
  PROVE  Mx \in PoolIds /\ Tlsa \in PoolIds /\ Mx # Tlsa /\ Mx[2] = "mx" /\ Tlsa[2] = "tlsa"
<1>1. world.mayRetry \in BOOLEAN /\ attempt \in 1 .. attempts
  BY DaneAssumption, Zenon DEF TypeOK
<1>2. attempt \in 1 .. POLICY_ATTEMPTS
  BY <1>1, DaneAssumption DEF attempts
<1> QED BY <1>2, Zenon DEF PoolIds, Mx, Tlsa

---------------------------------------------------------------------------
(* A step of a pool changes this pool only: it keeps PoolInv, never takes  *)
(* a host into it, and loses one only if the context is done.              *)
LEMMA PoolStepFacts ==
  ASSUME IInv, NEW p \in PoolIds, PoolStep(p)
  PROVE  /\ callerState' = callerState
         /\ pool' \in [PoolIds -> Pools]
         /\ \A q \in PoolIds \ {p} : pool'[q] = pool[q]
         /\ pool'[p].cancelled = pool[p].cancelled
         /\ PoolInv(p)'
         /\ InPool(p)' \subseteq InPool(p)
         /\ ~Done(p) => InPool(p)' = InPool(p)
<1>0. /\ TypeOK /\ pool \in [PoolIds -> Pools] /\ pool[p] \in Pools /\ PoolInv(p)
      /\ world.hosts \subseteq Hosts
  BY Typed, ZenonT(60) DEF IInv, TypeOK
<1> DEFINE P == pool[p]
<1>1. CASE Dispatch(p)
  <2>1. PICK h \in P.todo :
          pool' = [pool EXCEPT ![p].todo = @ \ {h}, ![p].idle = @ - 1, ![p].looking = @ \cup {h}]
    BY <1>1, Zenon DEF Dispatch
  <2>2. /\ callerState' = callerState /\ P.dispatching /\ P.idle > 0
    BY <1>1, Zenon DEF Dispatch
  <2>3. pool'[p] = [P EXCEPT !.todo = @ \ {h}, !.idle = @ - 1, !.looking = @ \cup {h}]
    BY <1>0, <2>1, Zenon
  <2> QED BY <1>0, <2>1, <2>2, <2>3, WorldFixed DEF Pools, PoolInv, InPool, Queued, Done, callerState
<1>2. CASE DispatcherEnds(p)
  <2>1. /\ pool' = [pool EXCEPT ![p].dispatching = FALSE]
        /\ callerState' = callerState /\ (P.todo = {} \/ Done(p))
    BY <1>2, Zenon DEF DispatcherEnds
  <2>2. pool'[p] = [P EXCEPT !.dispatching = FALSE]
    BY <1>0, <2>1, Zenon
  <2>3. /\ pool'[p].todo = P.todo /\ pool'[p].idle = P.idle /\ pool'[p].looking = P.looking
        /\ pool'[p].sending = P.sending /\ pool'[p].results = P.results /\ pool'[p].closed = P.closed
        /\ pool'[p].cancelled = P.cancelled
        /\ pool'[p].dispatching = FALSE
    BY <1>0, <2>1, <2>2, Zenon DEF Pools
  <2>4. pool' \in [PoolIds -> Pools] /\ \A q \in PoolIds \ {p} : pool'[q] = pool[q]
    BY <1>0, <2>1, <2>2, Zenon DEF Pools
  <2>5. InPool(p)' = InPool(p) /\ Done(p)' = Done(p) /\ world' = world
    BY <2>1, <2>3 DEF InPool, Queued, Done, callerState
  <2> QED BY <1>0, <2>1, <2>3, <2>4, <2>5, WorldFixed DEF PoolInv
<1>3. CASE WorkerEnds(p)
  <2>1. /\ pool' = [pool EXCEPT ![p].idle = @ - 1]
        /\ callerState' = callerState /\ P.idle > 0 /\ (~P.dispatching \/ Done(p))
    BY <1>3 DEF WorkerEnds
  <2>2. pool'[p] = [P EXCEPT !.idle = @ - 1]
    BY <1>0, <2>1
  <2> QED BY <1>0, <2>1, <2>2, WorldFixed DEF Pools, PoolInv, InPool, Queued, Done, callerState
<1>4. CASE LookupEnds(p)
  <2>a. PICK h \in P.looking : \E s \in Outcomes(p[2], h) :
          pool' = [pool EXCEPT ![p].looking = @ \ {h}, ![p].sending = @ \cup {Result(h, s)}]
    BY <1>4, Zenon DEF LookupEnds
  <2>1. PICK s \in Outcomes(p[2], h) :
          pool' = [pool EXCEPT ![p].looking = @ \ {h}, ![p].sending = @ \cup {Result(h, s)}]
    BY <2>a, Zenon
  <2>2. callerState' = callerState
    BY <1>4 DEF LookupEnds
  <2>3. pool'[p] = [P EXCEPT !.looking = @ \ {h}, !.sending = @ \cup {Result(h, s)}]
    BY <1>0, <2>1
  <2>4. h \in Hosts /\ Result(h, s) \in Results /\ Result(h, s).host = h /\ Result(h, s).status = s
    BY <1>0, <2>1, OutcomesTyped DEF Pools, Results, Result
  <2>5. /\ pool'[p].todo = P.todo /\ pool'[p].dispatching = P.dispatching /\ pool'[p].idle = P.idle
        /\ pool'[p].results = P.results /\ pool'[p].closed = P.closed /\ pool'[p].cancelled = P.cancelled
        /\ pool'[p].looking = P.looking \ {h}
        /\ pool'[p].sending = P.sending \cup {Result(h, s)}
    BY <1>0, <2>1, <2>3, Zenon DEF Pools
  <2>6. pool' \in [PoolIds -> Pools] /\ \A q \in PoolIds \ {p} : pool'[q] = pool[q]
    BY <1>0, <2>1, <2>3, <2>4, ZenonT(60) DEF Pools
  <2>7. InPool(p)' = InPool(p) /\ Done(p)' = Done(p) /\ world' = world
    <3> DEFINE R == Result(h, s)
    <3>1. pool'[p].sending \cup pool'[p].results = (P.sending \cup P.results) \cup {R} /\ R.host = h
      BY <2>4, <2>5
    <3>2. Queued(p)' = Queued(p) \cup {h}
      BY <3>1, HostsOfAdded DEF Queued
    <3>3. InPool(p)' = InPool(p)
      <4>1. h \in P.looking
        BY <2>1
      <4> QED BY <4>1, <2>5, <3>2 DEF InPool
    <3>4. Done(p)' = Done(p) /\ world' = world
      BY <2>2, <2>5 DEF Done, callerState
    <3> QED BY <3>3, <3>4
  <2>8. \A r \in pool'[p].sending \cup pool'[p].results : r.status \in Outcomes(p[2], r.host)
    BY <1>0, <2>1, <2>4, <2>5 DEF PoolInv
  <2>9. ~P.closed
    BY <1>0, <2>1 DEF PoolInv
  <2>10. pool'[p].sending # {}
    BY <2>5, Zenon
  <2> QED BY <1>0, <2>2, <2>5, <2>6, <2>7, <2>8, <2>9, <2>10, WorldFixed, ZenonT(60) DEF PoolInv
<1>5. CASE Send(p)
  <2>1. PICK r \in P.sending :
          pool' = [pool EXCEPT ![p].sending = @ \ {r}, ![p].results = @ \cup {r}, ![p].idle = @ + 1]
    BY <1>5, Zenon DEF Send
  <2>2. callerState' = callerState
    BY <1>5, Zenon DEF Send
  <2>3. pool'[p] = [P EXCEPT !.sending = @ \ {r}, !.results = @ \cup {r}, !.idle = @ + 1]
    BY <1>0, <2>1, Zenon
  <2> QED BY <1>0, <2>1, <2>2, <2>3, WorldFixed DEF Pools, PoolInv, InPool, Queued, Done, callerState
<1>6. CASE DropResult(p)
  <2>1. PICK r \in P.sending : pool' = [pool EXCEPT ![p].sending = @ \ {r}]
    BY <1>6, Zenon DEF DropResult
  <2>2. callerState' = callerState /\ Done(p)
    BY <1>6 DEF DropResult
  <2>3. pool'[p] = [P EXCEPT !.sending = @ \ {r}]
    BY <1>0, <2>1
  <2> QED BY <1>0, <2>1, <2>2, <2>3, WorldFixed DEF Pools, PoolInv, InPool, Queued, Done, callerState
<1>7. CASE CloseResults(p)
  <2>1. /\ pool' = [pool EXCEPT ![p].closed = TRUE] /\ callerState' = callerState
        /\ P.idle = 0 /\ P.looking = {} /\ P.sending = {}
    BY <1>7 DEF CloseResults
  <2>2. pool'[p] = [P EXCEPT !.closed = TRUE]
    BY <1>0, <2>1
  <2>3. /\ pool'[p].todo = P.todo /\ pool'[p].idle = P.idle /\ pool'[p].looking = P.looking
        /\ pool'[p].sending = P.sending /\ pool'[p].results = P.results /\ pool'[p].dispatching = P.dispatching
        /\ pool'[p].cancelled = P.cancelled
        /\ pool'[p].closed = TRUE
    BY <1>0, <2>1, <2>2 DEF Pools
  <2>4. pool' \in [PoolIds -> Pools] /\ \A q \in PoolIds \ {p} : pool'[q] = pool[q]
    BY <1>0, <2>1, <2>2, Zenon DEF Pools
  <2>5. InPool(p)' = InPool(p) /\ Done(p)' = Done(p) /\ world' = world
    BY <2>1, <2>3 DEF InPool, Queued, Done, callerState
  <2> QED BY <1>0, <2>1, <2>3, <2>4, <2>5, WorldFixed DEF PoolInv
<1> QED BY <1>1, <1>2, <1>3, <1>4, <1>5, <1>6, <1>7, Zenon DEF PoolStep

LEMMA PoolStepInv ==
  ASSUME IInv, NEW p \in PoolIds, PoolStep(p)
  PROVE  IInv'
<1>0. /\ callerState' = callerState
      /\ pool' \in [PoolIds -> Pools]
      /\ \A q \in PoolIds \ {p} : pool'[q] = pool[q]
      /\ pool'[p].cancelled = pool[p].cancelled
      /\ PoolInv(p)'
      /\ InPool(p)' \subseteq InPool(p)
      /\ ~Done(p) => InPool(p)' = InPool(p)
  BY PoolStepFacts
<1>1. /\ world' = world /\ expired' = expired /\ attempt' = attempt /\ stage' = stage
      /\ good' = good /\ incompl' = incompl /\ failed' = failed /\ heard' = heard
      /\ minPolicy' = minPolicy /\ maxPolicy' = maxPolicy /\ minTTL' = minTTL /\ answer' = answer
  BY <1>0 DEF callerState
<1>2. TypeOK'
  BY <1>0, <1>1, WorldFixed, ZenonT(60) DEF IInv, TypeOK
<1>3. ASSUME NEW q \in PoolIds \ {p} PROVE PoolInv(q)' /\ InPool(q)' = InPool(q)
  <2>1. pool'[q] = pool[q]
    BY <1>0, Zenon
  <2>2. InPool(q)' = InPool(q) /\ Done(q)' = Done(q)
    BY <2>1, <1>1, Zenon DEF InPool, Queued, Done
  <2>3. PoolInv(q)
    BY Zenon DEF IInv
  <2> QED BY <2>1, <2>2, <2>3, <1>1, WorldFixed DEF PoolInv
<1>4. Mx' = Mx /\ Tlsa' = Tlsa
  BY <1>1, Zenon DEF Mx, Tlsa
<1>5. Mx \in PoolIds /\ Tlsa \in PoolIds
  BY CurrentPools, Zenon DEF IInv
<1>6. MxInv'
  <2> SUFFICES ASSUME stage = "mx" PROVE MxInv'
    BY <1>1, Zenon DEF MxInv
  <2>1. pool'[Mx].cancelled = pool[Mx].cancelled
    BY <1>0, <1>5, Zenon
  <2>2. ~failed /\ ~expired => InPool(Mx)' = InPool(Mx)
    <3>1. CASE p = Mx
      BY <1>0, <3>1, <1>4, Zenon DEF IInv, MxInv, Done, InPool, Queued
    <3>2. CASE p # Mx
      BY <1>3, <1>4, <1>5, <3>2, Zenon DEF InPool, Queued
    <3> QED BY <3>1, <3>2, Zenon
  <2>3. \A h : Accounted(h)' = Accounted(h)
    BY <1>1, Zenon DEF Accounted
  <2> QED BY <1>1, <1>4, <2>1, <2>2, <2>3, WorldFixed, Zenon DEF IInv, MxInv
<1>7. TlsaInv'
  <2>1. InPool(Tlsa)' \subseteq InPool(Tlsa)
    <3>1. CASE p = Tlsa
      BY <1>0, <3>1, <1>4, Zenon DEF InPool, Queued
    <3>2. CASE p # Tlsa
      BY <1>3, <1>4, <1>5, <3>2, Zenon DEF InPool, Queued
    <3> QED BY <3>1, <3>2, Zenon
  <2> QED BY <1>1, <1>4, <2>1, WorldFixed, Zenon DEF IInv, TlsaInv
<1>8. VerdictSound'
  BY <1>1, WorldFixed, Zenon DEF IInv, VerdictSound
<1> QED BY <1>0, <1>1, <1>2, <1>3, <1>6, <1>7, <1>8, WorldFixed, Zenon DEF IInv

(* A pool as checkMxRecords or checkTlsaRecords returns it.                *)
LEMMA StartPoolFacts ==
  ASSUME IInv, NEW p \in PoolIds, NEW hosts \in SUBSET world.hosts, hosts # {},
         StartPool(p, hosts), world' = world, expired' = expired
  PROVE  /\ pool' \in [PoolIds -> Pools]
         /\ \A q \in PoolIds : PoolInv(q)'
         /\ ~pool'[p].cancelled
         /\ InPool(p)' \subseteq hosts
         /\ ~expired => InPool(p)' = hosts
<1>0. /\ TypeOK /\ pool \in [PoolIds -> Pools] /\ world.hosts \subseteq Hosts
      /\ p[2] \in {"mx", "tlsa"} /\ hosts \subseteq Hosts
  BY Typed, ZenonT(60) DEF IInv, TypeOK
<1>1. \A q \in PoolIds : pool'[q] = pool[q] => PoolInv(q)'
  <2> SUFFICES ASSUME NEW q \in PoolIds, pool'[q] = pool[q] PROVE PoolInv(q)'
    OBVIOUS
  <2>2. InPool(q)' = InPool(q) /\ Done(q)' = Done(q) /\ PoolInv(q)
    BY DEF InPool, Queued, Done, IInv
  <2> QED BY <2>2, WorldFixed DEF PoolInv
<1>2. CASE \E h \in hosts :
             /\ hosts = {h}
             /\ \E results \in OwnResults(p[2], h) :
                  pool' = [pool EXCEPT ![p] = Pool({}, FALSE, 0, results, TRUE)]
  <2>1. PICK h \in hosts :
             /\ hosts = {h}
             /\ \E results \in OwnResults(p[2], h) :
                  pool' = [pool EXCEPT ![p] = Pool({}, FALSE, 0, results, TRUE)]
    BY <1>2, Zenon
  <2>2. PICK results \in OwnResults(p[2], h) :
                  pool' = [pool EXCEPT ![p] = Pool({}, FALSE, 0, results, TRUE)]
    BY <2>1, Zenon
  <2>3. /\ results \subseteq Results
        /\ \A r \in results : r.host = h /\ r.status \in Outcomes(p[2], h)
        /\ ~expired => \E r \in results : r.host = h
    <3>1. h \in Hosts
      BY <1>0
    <3>2. CASE expired
      BY <3>2 DEF OwnResults
    <3>3. CASE ~expired
      <4>1. PICK s \in Outcomes(p[2], h) : results = {Result(h, s)}
        BY <3>3 DEF OwnResults
      <4>2. s \in Statuses
        BY <1>0, <3>1, <4>1, OutcomesTyped
      <4> QED BY <3>1, <4>1, <4>2 DEF Result, Results
    <3> QED BY <3>2, <3>3
  <2>4. pool'[p] = Pool({}, FALSE, 0, results, TRUE) /\ \A q \in PoolIds \ {p} : pool'[q] = pool[q]
    BY <1>0, <2>2, Zenon
  <2>5. /\ pool'[p] \in Pools /\ pool'[p].todo = {} /\ ~pool'[p].dispatching /\ pool'[p].idle = 0
        /\ pool'[p].looking = {} /\ pool'[p].sending = {} /\ pool'[p].results = results
        /\ ~pool'[p].cancelled
    BY <2>3, <2>4 DEF Pool, Pools
  <2>6. InPool(p)' \subseteq {h} /\ (~expired => InPool(p)' = {h})
    <3>1. InPool(p)' = {r.host : r \in results}
      BY <2>5, Zenon DEF InPool, Queued
    <3> QED BY <2>3, <3>1, Zenon
  <2>7. PoolInv(p)'
    <3>1. \A r \in pool'[p].sending \cup pool'[p].results : r.status \in Outcomes(p[2], r.host)'
      BY <2>3, <2>5, WorldFixed, Zenon
    <3>2. InPool(p)' \subseteq world.hosts
      BY <2>1, <2>6, Zenon
    <3> QED BY <2>5, <3>1, <3>2, Zenon DEF PoolInv
  <2>8. pool' \in [PoolIds -> Pools]
    BY <1>0, <2>2, <2>4, <2>5, Zenon
  <2> QED BY <1>1, <2>1, <2>4, <2>5, <2>6, <2>7, <2>8, Zenon
<1>3. CASE pool' = [pool EXCEPT ![p] = NewPool(hosts)]
  <2> DEFINE n == Smaller(DANE_MX_LOOKUP_CONCURRENCY, Cardinality(hosts))
  <2>1. n \in Nat /\ n > 0
    <3>1. IsFiniteSet(hosts)
      BY <1>0, DaneAssumption, FS_Subset, Zenon
    <3>2. Cardinality(hosts) \in Nat /\ Cardinality(hosts) # 0
      BY <3>1, FS_CardinalityType, FS_EmptySet, Zenon
    <3> QED BY <3>2, DaneAssumption DEF Smaller
  <2> HIDE DEF n
  <2>2. pool'[p] = Pool(hosts, TRUE, n, {}, FALSE) /\ \A q \in PoolIds \ {p} : pool'[q] = pool[q]
    BY <1>0, <1>3, Zenon DEF NewPool, n
  <2>3. /\ pool'[p] \in Pools /\ pool'[p].todo = hosts /\ pool'[p].dispatching /\ pool'[p].idle = n
        /\ pool'[p].looking = {} /\ pool'[p].sending = {} /\ pool'[p].results = {}
        /\ ~pool'[p].cancelled /\ ~pool'[p].closed
    BY <1>0, <2>1, <2>2 DEF Pool, Pools
  <2>4. InPool(p)' = hosts
    BY <2>3, Zenon DEF InPool, Queued
  <2>5. PoolInv(p)'
    BY <2>1, <2>3, <2>4, Zenon DEF PoolInv
  <2>6. pool' \in [PoolIds -> Pools]
    BY <1>0, <1>3, <2>2, <2>3, Zenon
  <2> QED BY <1>1, <2>2, <2>3, <2>4, <2>5, <2>6, Zenon
<1> QED BY <1>2, <1>3, Zenon DEF StartPool

---------------------------------------------------------------------------
(* The caller leaves the pools alone: PoolInv stays, also when the context *)
(* ends.                                                                   *)
LEMMA PoolsKept ==
  ASSUME IInv, world' = world, pool' = pool, expired => expired'
  PROVE  \A q \in PoolIds : PoolInv(q)' /\ InPool(q)' = InPool(q)
<1> SUFFICES ASSUME NEW q \in PoolIds PROVE PoolInv(q)' /\ InPool(q)' = InPool(q)
  BY Zenon
<1>1. InPool(q)' = InPool(q) /\ (Done(q) => Done(q)') /\ PoolInv(q)
  BY Zenon DEF InPool, Queued, Done, IInv
<1> QED BY <1>1, WorldFixed, Zenon DEF PoolInv

(* The caller takes results out of a pool or cancels it.                   *)
LEMMA PoolTaken ==
  ASSUME IInv, world' = world, expired' = expired, NEW p \in PoolIds, NEW R,
         \A q \in PoolIds \ {p} : pool'[q] = pool[q],
         pool'[p].todo = pool[p].todo, pool'[p].dispatching = pool[p].dispatching,
         pool'[p].idle = pool[p].idle, pool'[p].looking = pool[p].looking,
         pool'[p].sending = pool[p].sending, pool'[p].results = pool[p].results \ R,
         pool'[p].closed = pool[p].closed, pool[p].cancelled => pool'[p].cancelled
  PROVE  /\ \A q \in PoolIds : PoolInv(q)' /\ InPool(q)' \subseteq InPool(q)
         /\ \A h \in InPool(p) : h \in InPool(p)' \/ \E r \in R : r.host = h
<1> DEFINE P == pool[p]
<1>4. ASSUME NEW q \in PoolIds \ {p} PROVE PoolInv(q)' /\ InPool(q)' = InPool(q)
  <2>1. pool'[q] = pool[q]
    BY Zenon
  <2>2. InPool(q)' = InPool(q) /\ Done(q)' = Done(q) /\ PoolInv(q)
    BY <2>1, Zenon DEF InPool, Queued, Done, IInv
  <2> QED BY <2>1, <2>2, WorldFixed DEF PoolInv
<1>5. InPool(p)' \subseteq InPool(p)
  BY ZenonT(60) DEF InPool, Queued
<1>6. ASSUME NEW h \in InPool(p) PROVE h \in InPool(p)' \/ \E r \in R : r.host = h
  <2>1. CASE h \in P.todo \cup P.looking
    BY <2>1, Zenon DEF InPool
  <2>2. CASE h \in Queued(p)
    <3>1. PICK r \in P.sending \cup P.results : r.host = h
      BY <2>2, Zenon DEF Queued
    <3>2. CASE r \in R
      BY <3>1, <3>2, Zenon
    <3>3. CASE r \notin R
      <4>1. r \in pool'[p].sending \cup pool'[p].results
        BY <3>1, <3>3, Zenon
      <4> QED BY <3>1, <4>1, Zenon DEF InPool, Queued
    <3> QED BY <3>2, <3>3, Zenon
  <2> QED BY <2>1, <2>2, Zenon DEF InPool
<1>7. PoolInv(p)'
  <2>1. PoolInv(p) /\ (Done(p) => Done(p)')
    BY Zenon DEF IInv, Done
  <2>2. \A r \in pool'[p].sending \cup pool'[p].results : r.status \in Outcomes(p[2], r.host)'
    BY <2>1, WorldFixed DEF PoolInv
  <2> QED BY <1>5, <2>1, <2>2, Zenon DEF PoolInv
<1> QED BY <1>4, <1>5, <1>6, <1>7, ZenonT(60)

---------------------------------------------------------------------------
(* The goroutines of a pool.  A worker waits, looks up or sends, and none  *)
(* is added after the start.                                               *)
LEMMA AddedCardinality ==
  ASSUME NEW S, IsFiniteSet(S), NEW x
  PROVE  /\ IsFiniteSet(S \cup {x})
         /\ Cardinality(S \cup {x}) \in Nat
         /\ Cardinality(S \cup {x}) <= Cardinality(S) + 1
<1>1. Cardinality(S) \in Nat
  BY FS_CardinalityType, Zenon
<1>2. CASE x \in S
  <2>1. S \cup {x} = S
    BY <1>2, Zenon
  <2>2. IsFiniteSet(S \cup {x}) /\ Cardinality(S \cup {x}) = Cardinality(S)
    BY <2>1, Zenon
  <2> QED BY <1>1, <2>2, SMT
<1>3. CASE x \notin S
  BY <1>1, <1>3, FS_AddElement
<1> QED BY <1>2, <1>3, Zenon

LEMMA BoundPoolStep ==
  ASSUME TypeOK, NEW p \in PoolIds, PoolStep(p), \A q \in PoolIds : Bound(q)
  PROVE  \A q \in PoolIds : Bound(q)'
<1>0. pool \in [PoolIds -> Pools] /\ pool[p] \in Pools /\ Bound(p)
  BY Typed, Zenon DEF TypeOK
<1> DEFINE P == pool[p]
<1>a. /\ P.idle \in Nat /\ IsFiniteSet(P.looking) /\ IsFiniteSet(P.sending)
      /\ Cardinality(P.looking) \in Nat /\ Cardinality(P.sending) \in Nat
      /\ P.idle + Cardinality(P.looking) + Cardinality(P.sending) <= DANE_MX_LOOKUP_CONCURRENCY
      /\ DANE_MX_LOOKUP_CONCURRENCY \in Nat
  BY <1>0, FS_CardinalityType, DaneAssumption, Zenon DEF Bound, Pools
<1>b. ASSUME \A q \in PoolIds \ {p} : pool'[q] = pool[q],
             IsFiniteSet(pool'[p].looking), IsFiniteSet(pool'[p].sending),
             pool'[p].idle + Cardinality(pool'[p].looking) + Cardinality(pool'[p].sending)
               <= DANE_MX_LOOKUP_CONCURRENCY
      PROVE  \A q \in PoolIds : Bound(q)'
  BY <1>b, Zenon DEF Bound
<1>1. CASE Dispatch(p)
  <2>1. PICK h \in P.todo :
          pool' = [pool EXCEPT ![p].todo = @ \ {h}, ![p].idle = @ - 1, ![p].looking = @ \cup {h}]
    BY <1>1, Zenon DEF Dispatch
  <2>2. pool'[p] = [P EXCEPT !.todo = @ \ {h}, !.idle = @ - 1, !.looking = @ \cup {h}]
    BY <1>0, <2>1, Zenon
  <2>3. /\ pool'[p].idle = P.idle - 1 /\ pool'[p].looking = P.looking \cup {h}
        /\ pool'[p].sending = P.sending
        /\ \A q \in PoolIds \ {p} : pool'[q] = pool[q]
    BY <1>0, <2>1, <2>2, ZenonT(60) DEF Pools
  <2>4. /\ IsFiniteSet(P.looking \cup {h})
        /\ Cardinality(P.looking \cup {h}) \in Nat
        /\ Cardinality(P.looking \cup {h}) <= Cardinality(P.looking) + 1
    BY <1>a, AddedCardinality, Zenon
  <2>5. pool'[p].idle + Cardinality(pool'[p].looking) + Cardinality(pool'[p].sending)
          <= DANE_MX_LOOKUP_CONCURRENCY
    BY <1>a, <2>3, <2>4
  <2> QED BY <1>a, <1>b, <2>3, <2>4, <2>5, Zenon
<1>2. CASE DispatcherEnds(p) \/ CloseResults(p)
  <2>1. /\ pool'[p].idle = P.idle /\ pool'[p].looking = P.looking /\ pool'[p].sending = P.sending
        /\ \A q \in PoolIds \ {p} : pool'[q] = pool[q]
    <3>1. CASE DispatcherEnds(p)
      <4>1. pool' = [pool EXCEPT ![p].dispatching = FALSE]
        BY <3>1, Zenon DEF DispatcherEnds
      <4>2. pool'[p] = [P EXCEPT !.dispatching = FALSE]
        BY <1>0, <4>1, Zenon
      <4> QED BY <1>0, <4>1, <4>2, Zenon DEF Pools
    <3>2. CASE CloseResults(p)
      <4>1. pool' = [pool EXCEPT ![p].closed = TRUE]
        BY <3>2, Zenon DEF CloseResults
      <4>2. pool'[p] = [P EXCEPT !.closed = TRUE]
        BY <1>0, <4>1, Zenon
      <4> QED BY <1>0, <4>1, <4>2, Zenon DEF Pools
    <3> QED BY <1>2, <3>1, <3>2
  <2> QED BY <1>a, <1>b, <2>1
<1>3. CASE WorkerEnds(p)
  <2>1. pool' = [pool EXCEPT ![p].idle = @ - 1]
    BY <1>3, Zenon DEF WorkerEnds
  <2>2. pool'[p] = [P EXCEPT !.idle = @ - 1]
    BY <1>0, <2>1, Zenon
  <2>3. /\ pool'[p].idle = P.idle - 1 /\ pool'[p].looking = P.looking /\ pool'[p].sending = P.sending
        /\ \A q \in PoolIds \ {p} : pool'[q] = pool[q]
    BY <1>0, <2>1, <2>2, Zenon DEF Pools
  <2> QED BY <1>a, <1>b, <2>3
<1>4. CASE LookupEnds(p)
  <2>1. PICK h \in P.looking : \E s \in Outcomes(p[2], h) :
          pool' = [pool EXCEPT ![p].looking = @ \ {h}, ![p].sending = @ \cup {Result(h, s)}]
    BY <1>4, Zenon DEF LookupEnds
  <2>2. PICK s \in Outcomes(p[2], h) :
          pool' = [pool EXCEPT ![p].looking = @ \ {h}, ![p].sending = @ \cup {Result(h, s)}]
    BY <2>1, Zenon
  <2> DEFINE R == Result(h, s)
  <2> HIDE DEF R
  <2>3. pool'[p] = [P EXCEPT !.looking = @ \ {h}, !.sending = @ \cup {R}]
    BY <1>0, <2>2 DEF R
  <2>4. /\ pool'[p].idle = P.idle /\ pool'[p].looking = P.looking \ {h}
        /\ pool'[p].sending = P.sending \cup {R}
    BY <1>0, <2>3, Zenon DEF Pools
  <2>5. \A q \in PoolIds \ {p} : pool'[q] = pool[q]
    BY <1>0, <2>2, Zenon
  <2>6. /\ IsFiniteSet(P.sending \cup {R})
        /\ Cardinality(P.sending \cup {R}) \in Nat
        /\ Cardinality(P.sending \cup {R}) <= Cardinality(P.sending) + 1
    BY <1>a, AddedCardinality, Zenon
  <2>7. /\ IsFiniteSet(P.looking \ {h})
        /\ Cardinality(P.looking \ {h}) = Cardinality(P.looking) - 1
    BY <1>a, <2>1, FS_RemoveElement, Zenon
  <2>8. pool'[p].idle + Cardinality(pool'[p].looking) + Cardinality(pool'[p].sending)
          <= DANE_MX_LOOKUP_CONCURRENCY
    BY <1>a, <2>4, <2>6, <2>7
  <2> QED BY <1>b, <2>4, <2>5, <2>6, <2>7, <2>8, Zenon
<1>5. CASE Send(p)
  <2>1. PICK r \in P.sending :
          pool' = [pool EXCEPT ![p].sending = @ \ {r}, ![p].results = @ \cup {r}, ![p].idle = @ + 1]
    BY <1>5, Zenon DEF Send
  <2>2. pool'[p] = [P EXCEPT !.sending = @ \ {r}, !.results = @ \cup {r}, !.idle = @ + 1]
    BY <1>0, <2>1, Zenon
  <2>3. /\ pool'[p].idle = P.idle + 1 /\ pool'[p].looking = P.looking
        /\ pool'[p].sending = P.sending \ {r}
    BY <1>0, <2>2, Zenon DEF Pools
  <2>4. \A q \in PoolIds \ {p} : pool'[q] = pool[q]
    BY <1>0, <2>1, Zenon
  <2>5. /\ IsFiniteSet(P.sending \ {r})
        /\ Cardinality(P.sending \ {r}) = Cardinality(P.sending) - 1
    BY <1>a, <2>1, FS_RemoveElement, Zenon
  <2>6. pool'[p].idle + Cardinality(pool'[p].looking) + Cardinality(pool'[p].sending)
          <= DANE_MX_LOOKUP_CONCURRENCY
    BY <1>a, <2>3, <2>5
  <2> QED BY <1>a, <1>b, <2>3, <2>4, <2>5, <2>6, Zenon
<1>6. CASE DropResult(p)
  <2>1. PICK r \in P.sending : pool' = [pool EXCEPT ![p].sending = @ \ {r}]
    BY <1>6, Zenon DEF DropResult
  <2>2. pool'[p] = [P EXCEPT !.sending = @ \ {r}]
    BY <1>0, <2>1
  <2>3. /\ pool'[p].idle = P.idle /\ pool'[p].looking = P.looking
        /\ pool'[p].sending = P.sending \ {r}
        /\ \A q \in PoolIds \ {p} : pool'[q] = pool[q]
    BY <1>0, <2>1, <2>2 DEF Pools
  <2>4. /\ IsFiniteSet(P.sending \ {r})
        /\ Cardinality(P.sending \ {r}) = Cardinality(P.sending) - 1
    BY <1>a, <2>1, FS_RemoveElement, Zenon
  <2> QED BY <1>a, <1>b, <2>3, <2>4
<1> QED BY <1>1, <1>2, <1>3, <1>4, <1>5, <1>6, Zenon DEF PoolStep

LEMMA BoundStart ==
  ASSUME TypeOK, NEW p \in PoolIds, NEW hosts \in SUBSET world.hosts,
         StartPool(p, hosts), \A q \in PoolIds : Bound(q)
  PROVE  \A q \in PoolIds : Bound(q)'
<1>0. pool \in [PoolIds -> Pools] /\ hosts \subseteq Hosts
  BY Typed, Zenon DEF TypeOK
<1> DEFINE C == DANE_MX_LOOKUP_CONCURRENCY
<1>1. \A q \in PoolIds \ {p} : pool'[q] = pool[q]
  BY <1>0, Zenon DEF StartPool
<1>2. /\ pool'[p].looking = {} /\ pool'[p].sending = {}
      /\ pool'[p].idle \in {0, Smaller(C, Cardinality(hosts))}
  <2>1. CASE \E results : pool' = [pool EXCEPT ![p] = Pool({}, FALSE, 0, results, TRUE)]
    BY <1>0, <2>1 DEF Pool
  <2>2. CASE pool' = [pool EXCEPT ![p] = NewPool(hosts)]
    BY <1>0, <2>2, Zenon DEF Pool, NewPool
  <2> QED BY <2>1, <2>2, Zenon DEF StartPool
<1>3. pool'[p].idle \in 0 .. C
  <2>1. Cardinality(hosts) \in Nat
    BY <1>0, DaneAssumption, FS_Subset, FS_CardinalityType, Zenon
  <2> QED BY <1>2, <2>1, DaneAssumption DEF Smaller
<1>4. IsFiniteSet({}) /\ Cardinality({}) = 0
  BY FS_EmptySet, Zenon
<1>5. Bound(p)'
  BY <1>2, <1>3, <1>4, DaneAssumption DEF Bound
<1> QED BY <1>1, <1>5, Zenon DEF Bound

---------------------------------------------------------------------------
(* Steps of the caller outside the two loops.                              *)
LEMMA ExpireInv == IInv /\ Expire => IInv'
<1> SUFFICES ASSUME IInv, Expire PROVE IInv'
  OBVIOUS
<1>1. /\ world' = world /\ attempt' = attempt /\ stage' = stage /\ pool' = pool /\ expired'
      /\ good' = good /\ incompl' = incompl /\ failed' = failed /\ heard' = heard
      /\ minPolicy' = minPolicy /\ maxPolicy' = maxPolicy /\ minTTL' = minTTL /\ answer' = answer
      /\ expired' \in BOOLEAN
  BY Zenon DEF Expire
<1>2. TypeOK'
  BY <1>1, WorldFixed, ZenonT(60) DEF IInv, TypeOK
<1>3. Mx' = Mx /\ Tlsa' = Tlsa /\ Mx \in PoolIds /\ Tlsa \in PoolIds
  BY <1>1, CurrentPools DEF Mx, Tlsa, IInv
<1>4. \A q \in PoolIds : PoolInv(q)' /\ InPool(q)' = InPool(q)
  BY <1>1, PoolsKept, Zenon
<1>5. MxInv'
  BY <1>1, <1>3, WorldFixed, Zenon DEF IInv, MxInv
<1>6. InPool(Tlsa)' = InPool(Tlsa)
  BY <1>1, Zenon DEF InPool, Queued, Tlsa
<1>7. TlsaInv'
  BY <1>1, <1>6, WorldFixed, Zenon DEF IInv, TlsaInv
<1>8. VerdictSound'
  BY <1>1, WorldFixed, Zenon DEF IInv, VerdictSound
<1> QED BY <1>1, <1>2, <1>4, <1>5, <1>7, <1>8, WorldFixed, ZenonT(60) DEF IInv

(* A step to a stage outside the loops that leaves the pools alone.        *)
LEMMA OutsideInv ==
  ASSUME IInv, TypeOK', world' = world, expired' = expired, pool' = pool,
         stage' \notin {"mx", "tlsa"}, VerdictSound', stage' = "retry" => attempt' # attempts'
  PROVE  IInv'
  BY PoolsKept, Zenon DEF IInv, MxInv, TlsaInv

LEMMA TempSound ==
  ASSUME IInv, world' = world, Answer("TEMP", 0)
  PROVE  VerdictSound' /\ stage' = "done" /\ answer' \subseteq [policy : {"", "dane", "dane-only", "TEMP"}, ttl : Nat]
  BY DEF Answer, VerdictSound

LEMMA KeptSound ==
  ASSUME IInv, world' = world, answer' = answer
  PROVE  VerdictSound'
  BY WorldFixed, Zenon DEF IInv, VerdictSound

LEMMA OutsideSteps == IInv /\ (Start \/ AttemptFailed \/ Retry) => IInv'
<1>1. ASSUME IInv, Start PROVE IInv'
  <2>1. /\ world' = world /\ expired' = expired /\ attempt' = attempt /\ pool' = pool
        /\ good' = good /\ incompl' = incompl /\ failed' = failed /\ heard' = heard
        /\ minPolicy' = minPolicy /\ maxPolicy' = maxPolicy /\ minTTL' = minTTL
    BY <1>1, Zenon DEF Start
  <2>2. VerdictSound' /\ stage' \in {"resolve", "done"}
        /\ answer' \subseteq [policy : {"", "dane", "dane-only", "TEMP"}, ttl : Nat]
    BY <1>1, <2>1, TempSound, KeptSound, Zenon DEF Start, IInv, TypeOK
  <2>3. TypeOK'
    BY <1>1, <2>1, <2>2, WorldFixed, Zenon DEF IInv, TypeOK
  <2> QED BY <1>1, <2>1, <2>2, <2>3, OutsideInv, Zenon
<1>2. ASSUME IInv, AttemptFailed PROVE IInv'
  <2>1. /\ world' = world /\ expired' = expired /\ attempt' = attempt /\ pool' = pool
        /\ good' = good /\ incompl' = incompl /\ failed' = failed /\ heard' = heard
        /\ minPolicy' = minPolicy /\ maxPolicy' = maxPolicy /\ minTTL' = minTTL
    BY <1>2, Zenon DEF AttemptFailed
  <2>2. VerdictSound' /\ stage' \in {"retry", "done"}
        /\ answer' \subseteq [policy : {"", "dane", "dane-only", "TEMP"}, ttl : Nat]
    BY <1>2, <2>1, TempSound, KeptSound, Zenon DEF AttemptFailed, IInv, TypeOK
  <2>3. TypeOK'
    BY <1>2, <2>1, <2>2, WorldFixed, Zenon DEF IInv, TypeOK
  <2>4. stage' = "retry" => attempt' # attempts'
    BY <1>2, <2>1, WorldFixed, Zenon DEF AttemptFailed, Answer
  <2> QED BY <1>2, <2>1, <2>2, <2>3, <2>4, OutsideInv, Zenon
<1>3. ASSUME IInv, Retry PROVE IInv'
  <2>1. /\ world' = world /\ expired' = expired /\ pool' = pool
        /\ good' = good /\ incompl' = incompl /\ failed' = failed /\ heard' = heard
        /\ minPolicy' = minPolicy /\ maxPolicy' = maxPolicy /\ minTTL' = minTTL
    BY <1>3, Zenon DEF Retry
  <2>2. VerdictSound' /\ stage' \in {"resolve", "done"}
        /\ answer' \subseteq [policy : {"", "dane", "dane-only", "TEMP"}, ttl : Nat]
    BY <1>3, <2>1, TempSound, KeptSound, Zenon DEF Retry, IInv, TypeOK
  <2>3. attempts \in Nat /\ attempt \in 1 .. attempts /\ attempt # attempts
    BY <1>3, DaneAssumption, Zenon DEF Retry, IInv, TypeOK, attempts
  <2>4. attempt' \in 1 .. attempts
    BY <1>3, <2>3 DEF Retry
  <2>5. TypeOK'
    BY <1>3, <2>1, <2>2, <2>4, WorldFixed, Zenon DEF IInv, TypeOK
  <2> QED BY <1>3, <2>1, <2>2, <2>5, OutsideInv, Zenon
<1> QED BY <1>1, <1>2, <1>3, Zenon

---------------------------------------------------------------------------
(* getMxRecords.                                                           *)
LEMMA EmptySound ==
  ASSUME world' = world, TruePolicy = "", Answer("", 0)
  PROVE  VerdictSound' /\ stage' = "done" /\ answer' \subseteq [policy : {"", "dane", "dane-only", "TEMP"}, ttl : Nat]
<1>1. stage' = "done" /\ \A a \in answer' : a = [policy |-> "", ttl |-> 0]
  BY Zenon DEF Answer
<1>2. ASSUME NEW a \in answer'
      PROVE  /\ a.policy = "" /\ a.policy = TruePolicy'
             /\ a \in [policy : {"", "dane", "dane-only", "TEMP"}, ttl : Nat]
  <2>1. a = [policy |-> "", ttl |-> 0]
    BY <1>1, Zenon
  <2> QED BY <2>1, WorldFixed, Zenon
<1>3. answer' \subseteq [policy : {"", "dane", "dane-only", "TEMP"}, ttl : Nat]
  BY <1>2, Zenon
<1>4. VerdictSound'
  BY <1>2, Zenon DEF VerdictSound
<1> QED BY <1>1, <1>3, <1>4, Zenon

LEMMA LookupMxRecordsInv == IInv /\ LookupMxRecords => IInv'
<1> SUFFICES ASSUME IInv, LookupMxRecords PROVE IInv'
  BY Zenon
<1>0. /\ world' = world /\ expired' = expired /\ attempt' = attempt /\ heard' = heard
      /\ minPolicy' = minPolicy /\ maxPolicy' = maxPolicy /\ TypeOK
  BY Zenon DEF LookupMxRecords, IInv
<1>1. CASE /\ stage' = "failed"
           /\ UNCHANGED <<pool, good, incompl, failed, minTTL, answer>>
  <2>1. TypeOK'
    BY <1>0, <1>1, WorldFixed, Zenon DEF TypeOK
  <2> QED BY <1>0, <1>1, <2>1, KeptSound, OutsideInv, Zenon
<1>2. CASE /\ world.hosts = {}
           /\ Answer("", 0)
           /\ UNCHANGED <<pool, good, incompl, failed, minTTL>>
  <2>1. TruePolicy = ""
    BY <1>2, Zenon DEF TruePolicy, Signed
  <2>2. VerdictSound' /\ stage' = "done" /\ answer' \subseteq [policy : {"", "dane", "dane-only", "TEMP"}, ttl : Nat]
    BY <1>0, <1>2, <2>1, EmptySound, Zenon
  <2>3. TypeOK'
    BY <1>0, <1>2, <2>2, WorldFixed, Zenon DEF TypeOK
  <2> QED BY <1>0, <1>2, <2>2, <2>3, OutsideInv, Zenon
<1>3. CASE /\ world.hosts # {}
           /\ StartPool(Mx, world.hosts)
           /\ stage' = "mx"
           /\ good' = {}
           /\ incompl' = world.incompl
           /\ failed' = FALSE
           /\ minTTL' = 0
           /\ UNCHANGED answer
  <2>1. Mx \in PoolIds /\ Mx' = Mx
    BY <1>0, CurrentPools, Zenon DEF Mx
  <2>2. /\ pool' \in [PoolIds -> Pools]
        /\ \A q \in PoolIds : PoolInv(q)'
        /\ ~pool'[Mx].cancelled
        /\ ~expired => InPool(Mx)' = world.hosts
    BY <1>0, <1>3, <2>1, StartPoolFacts, Zenon DEF InPool, Queued
  <2>3. world.incompl \in BOOLEAN
    BY <1>0, <2>1, Typed, Zenon
  <2>4. TypeOK'
    BY <1>0, <1>3, <2>2, <2>3, WorldFixed, Zenon DEF TypeOK
  <2>5. MxInv'
    BY <1>0, <1>3, <2>1, <2>2, WorldFixed, Zenon DEF MxInv, TrulyIncomplete
  <2> QED BY <1>0, <1>3, <2>2, <2>4, <2>5, KeptSound, Zenon DEF IInv, TlsaInv
<1> QED BY <1>1, <1>2, <1>3, Zenon DEF LookupMxRecords

LEMMA MxResultInv == IInv /\ MxResult => IInv'
<1> SUFFICES ASSUME IInv, MxResult PROVE IInv'
  OBVIOUS
<1> DEFINE P == pool[Mx]
<1>0. /\ world' = world /\ expired' = expired /\ attempt' = attempt /\ stage' = stage /\ heard' = heard
      /\ minPolicy' = minPolicy /\ maxPolicy' = maxPolicy /\ answer' = answer
      /\ TypeOK /\ stage = "mx" /\ MxInv
  BY Zenon DEF MxResult, IInv
<1>1. PICK r \in P.results :
       /\ pool' = [pool EXCEPT ![Mx].results = @ \ {r},
                               ![Mx].cancelled = @ \/ r.status = "MxFail"]
       /\ good' = IF r.status = "MxOk" THEN good \cup {r.host} ELSE good
       /\ minTTL' = IF r.status # "MxOk" THEN minTTL
                    ELSE IF good = {} THEN world.mxTTL[r.host]
                    ELSE Smaller(minTTL, world.mxTTL[r.host])
       /\ incompl' = (incompl \/ r.status = "MxNotSec")
       /\ failed' = (failed \/ r.status = "MxFail")
  BY Zenon DEF MxResult
<1>2. /\ Mx \in PoolIds /\ Mx' = Mx /\ Mx[2] = "mx" /\ PoolInv(Mx) /\ P \in Pools
      /\ world.hosts \subseteq Hosts /\ world.mxTTL \in [Hosts -> Nat]
      /\ pool \in [PoolIds -> Pools]
  BY <1>0, CurrentPools, Typed, Zenon DEF Mx, IInv, TypeOK
<1>3. r.host \in world.hosts /\ r.host \in Hosts /\ r.status \in MxOutcomes(r.host)
  BY <1>2 DEF PoolInv, InPool, Queued, Outcomes, Pools
<1>4. /\ r.status \in {"MxOk", "MxFail", "MxNotSec"}
      /\ r.status = "MxOk" => world.kind[r.host] # "unsigned"
      /\ r.status = "MxNotSec" => world.kind[r.host] = "unsigned"
  BY <1>0, <1>3, MxOutcomesTrue
<1>5. /\ \A q \in PoolIds \ {Mx} : pool'[q] = pool[q]
      /\ pool'[Mx] = [P EXCEPT !.results = @ \ {r}, !.cancelled = @ \/ r.status = "MxFail"]
  BY <1>1, <1>2
<1>6. /\ pool'[Mx].todo = P.todo /\ pool'[Mx].dispatching = P.dispatching
      /\ pool'[Mx].idle = P.idle /\ pool'[Mx].looking = P.looking
      /\ pool'[Mx].sending = P.sending /\ pool'[Mx].results = P.results \ {r}
      /\ pool'[Mx].closed = P.closed
      /\ pool'[Mx].cancelled = (P.cancelled \/ r.status = "MxFail")
  BY <1>2, <1>5, ZenonT(60) DEF Pools
<1>7. /\ \A q \in PoolIds : PoolInv(q)'
      /\ \A h \in InPool(Mx) : h \in InPool(Mx)' \/ h = r.host
  <2>1. pool[Mx].cancelled => pool'[Mx].cancelled
    BY <1>6, Zenon
  <2>2. PICK p \in PoolIds : p = Mx
    BY <1>2
  <2>3. /\ \A q \in PoolIds : PoolInv(q)'
        /\ \A h \in InPool(p) : h \in InPool(p)' \/ \E s \in {r} : s.host = h
    <3>1. \A q \in PoolIds \ {p} : pool'[q] = pool[q]
      BY <1>5, <2>2
    <3> QED BY <1>0, <1>6, <2>1, <2>2, <3>1, PoolTaken, ZenonT(60)
  <2>4. InPool(p) = InPool(Mx) /\ InPool(p)' = InPool(Mx)'
    BY <1>2, <2>2 DEF InPool, Queued
  <2> QED BY <2>3, <2>4, Zenon
<1>8. pool' \in [PoolIds -> Pools]
  BY <1>1, <1>2, <1>5, ZenonT(60) DEF Pools
<1>9. /\ good' \subseteq Signed /\ good' \subseteq world.hosts
      /\ minTTL' \in Nat
      /\ \A h \in good' : minTTL' <= world.mxTTL[h]
  <2>1. minTTL \in Nat /\ world.mxTTL[r.host] \in Nat /\ \A h \in good : world.mxTTL[h] \in Nat
    BY <1>0, <1>2, <1>3, Zenon DEF TypeOK
  <2>2. CASE r.status # "MxOk"
    BY <1>0, <1>1, <2>1, <2>2, Zenon DEF MxInv, TypeOK
  <2>3. CASE r.status = "MxOk"
    <3>1. good' = good \cup {r.host}
      BY <1>1, <2>3
    <3>2. minTTL' \in Nat /\ minTTL' <= world.mxTTL[r.host] /\ (good # {} => minTTL' <= minTTL)
      BY <1>1, <2>1, <2>3 DEF Smaller
    <3>3. \A h \in good' : minTTL' <= world.mxTTL[h]
      BY <1>0, <2>1, <3>1, <3>2 DEF MxInv
    <3> QED BY <1>0, <1>3, <1>4, <2>3, <3>1, <3>2, <3>3, ZenonT(60) DEF MxInv, Signed, TypeOK
  <2> QED BY <2>2, <2>3
<1>10. incompl' \in BOOLEAN /\ failed' \in BOOLEAN
  BY <1>1, Zenon
<1>11. TypeOK'
  BY <1>0, <1>8, <1>9, <1>10, WorldFixed, ZenonT(60) DEF TypeOK
<1>12. /\ world.incompl => incompl'
       /\ incompl' => TrulyIncomplete
       /\ ~failed' => ~failed /\ r.status # "MxFail" /\ ~pool'[Mx].cancelled
  BY <1>0, <1>1, <1>3, <1>4, <1>6, ZenonT(60) DEF MxInv, TrulyIncomplete
<1>13. ASSUME ~failed', ~expired, NEW h \in world.hosts
       PROVE  h \in InPool(Mx)' \/ Accounted(h)'
  <2>1. CASE h = r.host
    BY <1>0, <1>1, <1>4, <1>12, <1>13, <2>1, ZenonT(60) DEF Accounted
  <2>2. CASE h # r.host /\ h \in InPool(Mx)
    BY <1>7, <2>2
  <2>3. CASE h # r.host /\ Accounted(h)
    BY <1>0, <1>1, <2>3, ZenonT(60) DEF Accounted
  <2> QED BY <1>0, <1>12, <1>13, <2>1, <2>2, <2>3, ZenonT(60) DEF MxInv
<1>14. MxInv'
  BY <1>0, <1>2, <1>9, <1>12, <1>13, WorldFixed, ZenonT(60) DEF MxInv
<1> QED BY <1>0, <1>7, <1>11, <1>14, KeptSound, Zenon DEF IInv, TlsaInv

(* When the loop of getMxRecords ends with nothing gone wrong, all hosts   *)
(* are accounted for.                                                      *)
LEMMA AllAccounted ==
  ASSUME IInv, stage = "mx", pool[Mx].results = {}, pool[Mx].closed, ~failed, ~expired
  PROVE  good = Signed /\ incompl = TrulyIncomplete
<1>1. Mx \in PoolIds /\ PoolInv(Mx) /\ MxInv /\ TypeOK
  BY CurrentPools DEF IInv
<1>2. ~Done(Mx)
  BY <1>1 DEF Done, MxInv
<1>3. pool[Mx].idle = 0 /\ pool[Mx].looking = {} /\ pool[Mx].sending = {}
  BY <1>1, Zenon DEF PoolInv
<1>4. pool[Mx].todo = {}
  BY <1>1, <1>2, <1>3 DEF PoolInv
<1>5. InPool(Mx) = {}
  BY <1>3, <1>4, Zenon DEF InPool, Queued
<1>6. \A h \in world.hosts : Accounted(h)
  BY <1>1, <1>5, Zenon DEF MxInv
<1>7. good = Signed
  BY <1>1, <1>6, Zenon DEF MxInv, Signed, Accounted
<1>8. TrulyIncomplete => incompl
  BY <1>1, <1>6, Zenon DEF MxInv, TrulyIncomplete, Accounted
<1>9. incompl => TrulyIncomplete
  BY <1>1, Zenon DEF MxInv
<1>10. incompl \in BOOLEAN /\ TrulyIncomplete \in BOOLEAN
  <2>1. world.incompl \in BOOLEAN
    BY <1>1, Typed, Zenon
  <2> QED BY <1>1, <2>1, Zenon DEF TypeOK, TrulyIncomplete
<1> QED BY <1>7, <1>8, <1>9, <1>10

LEMMA MxEndInv == IInv /\ MxEnd => IInv'
<1> SUFFICES ASSUME IInv, MxEnd PROVE IInv'
  BY Zenon
<1>0. /\ world' = world /\ expired' = expired /\ attempt' = attempt
      /\ good' = good /\ incompl' = incompl /\ failed' = failed /\ minTTL' = minTTL
      /\ stage = "mx" /\ pool[Mx].results = {} /\ pool[Mx].closed
      /\ TypeOK /\ MxInv
  BY Zenon DEF MxEnd, IInv
<1>1. CASE stage' = "failed" /\ UNCHANGED <<pool, heard, minPolicy, maxPolicy, answer>>
  <2>1. TypeOK'
    BY <1>0, <1>1, WorldFixed, Zenon DEF TypeOK
  <2> QED BY <1>0, <1>1, <2>1, KeptSound, OutsideInv, Zenon
<1>2. CASE ~failed /\ ~expired /\ CheckTlsaRecords
  <2>0. good = Signed /\ incompl = TrulyIncomplete
    BY <1>0, <1>2, AllAccounted, Zenon
  <2>1. CASE /\ good = {}
             /\ Answer("", 0)
             /\ UNCHANGED <<pool, heard, minPolicy, maxPolicy>>
    <3>1. TruePolicy = ""
      BY <2>0, <2>1, Zenon DEF TruePolicy
    <3>2. VerdictSound' /\ stage' = "done" /\ answer' \subseteq [policy : {"", "dane", "dane-only", "TEMP"}, ttl : Nat]
      BY <1>0, <2>1, <3>1, EmptySound, ZenonT(60)
    <3>3. TypeOK'
      BY <1>0, <2>1, <3>2, WorldFixed, ZenonT(60) DEF TypeOK
    <3> QED BY <1>0, <2>1, <3>2, <3>3, OutsideInv, Zenon
  <2>2. CASE /\ good # {}
             /\ StartPool(Tlsa, good)
             /\ stage' = "tlsa"
             /\ heard' = {}
             /\ minPolicy' = IF incompl THEN NoDane ELSE DaneOnly
             /\ maxPolicy' = NoDane
             /\ UNCHANGED answer
    <3>1. PICK p \in PoolIds : p = Tlsa /\ p = Tlsa'
      BY <1>0, CurrentPools, Zenon DEF Tlsa
    <3>2. PICK G \in SUBSET world.hosts : G = good
      BY <1>0, Zenon DEF TypeOK
    <3>3. /\ pool' \in [PoolIds -> Pools]
          /\ \A q \in PoolIds : PoolInv(q)'
          /\ InPool(p)' \subseteq G
      <4>1. StartPool(p, G) /\ G # {}
        BY <2>2, <3>1, <3>2, Zenon
      <4> QED BY <1>0, <4>1, StartPoolFacts, Zenon
    <3>4. InPool(Tlsa)' \subseteq good
      BY <3>1, <3>2, <3>3, Zenon DEF InPool, Queued
    <3>5. minPolicy' \in {NoDane, Dane, DaneOnly}
      BY <2>2, Zenon
    <3>6. TypeOK'
      BY <1>0, <2>2, <3>3, <3>5, WorldFixed, ZenonT(60) DEF TypeOK
    <3>7. minPolicy' = DaneOnly <=> ~incompl
      BY <2>2 DEF DaneOnly, NoDane
    <3>8. TlsaInv'
      BY <1>0, <2>0, <2>2, <3>4, <3>7, WorldFixed DEF TlsaInv, MxInv, NoDane, Dane
    <3> QED BY <1>0, <2>2, <3>3, <3>6, <3>8, KeptSound, ZenonT(60) DEF IInv, MxInv
  <2> QED BY <1>2, <2>1, <2>2, Zenon DEF CheckTlsaRecords
<1> QED BY <1>1, <1>2, Zenon DEF MxEnd

---------------------------------------------------------------------------
(* getDanePolicy.                                                          *)
LEMMA TlsaResultInv == IInv /\ TlsaResult => IInv'
<1> SUFFICES ASSUME IInv, TlsaResult PROVE IInv'
  BY Zenon
<1> DEFINE P == pool[Tlsa]
<1>0. /\ world' = world /\ expired' = expired /\ attempt' = attempt /\ good' = good
      /\ incompl' = incompl /\ failed' = failed /\ answer' = answer
      /\ TypeOK /\ stage = "tlsa" /\ TlsaInv
  BY Zenon DEF TlsaResult, IInv
<1>1. PICK r \in P.results :
       IF r.status = "error"
         THEN /\ stage' = "failed"
              /\ pool' = [pool EXCEPT ![Tlsa].results = @ \ {r}, ![Tlsa].cancelled = TRUE]
              /\ UNCHANGED <<heard, minPolicy, maxPolicy, minTTL>>
         ELSE /\ pool' = [pool EXCEPT ![Tlsa].results = @ \ {r}]
              /\ heard' = heard \cup {r.host}
              /\ minTTL' = Smaller(minTTL, TlsaTTL(r.host))
              /\ minPolicy' = Smaller(minPolicy, Rank(r.status))
              /\ maxPolicy' = Larger(maxPolicy, Rank(r.status))
              /\ UNCHANGED stage
  BY Zenon DEF TlsaResult
<1>2. /\ Tlsa \in PoolIds /\ Tlsa' = Tlsa /\ Tlsa[2] = "tlsa" /\ PoolInv(Tlsa) /\ P \in Pools
      /\ world.hosts \subseteq Hosts /\ world.mxTTL \in [Hosts -> Nat]
      /\ world.tlsaTTL \in [Hosts -> Nat] /\ pool \in [PoolIds -> Pools]
  BY <1>0, CurrentPools, Typed, ZenonT(60) DEF Tlsa, IInv, TypeOK
<1>3. /\ r.host \in world.hosts /\ r.host \in Hosts /\ r.host \in good
      /\ r.status \in TlsaOutcomes(r.host)
  BY <1>0, <1>2 DEF PoolInv, TlsaInv, InPool, Queued, Outcomes, Pools
<1>4. r.status # "error" => r.status = CheckTlsa(r.host)
  BY <1>0, <1>3, TlsaOutcomesTrue, ZenonT(60)
<1>5. /\ \A q \in PoolIds \ {Tlsa} : pool'[q] = pool[q]
      /\ pool' \in [PoolIds -> Pools]
      /\ pool'[Tlsa].todo = P.todo /\ pool'[Tlsa].dispatching = P.dispatching
      /\ pool'[Tlsa].idle = P.idle /\ pool'[Tlsa].looking = P.looking
      /\ pool'[Tlsa].sending = P.sending /\ pool'[Tlsa].results = P.results \ {r}
      /\ pool'[Tlsa].closed = P.closed
      /\ P.cancelled => pool'[Tlsa].cancelled
  <2>1. CASE pool' = [pool EXCEPT ![Tlsa].results = @ \ {r}, ![Tlsa].cancelled = TRUE]
    <3>1. pool'[Tlsa] = [P EXCEPT !.results = @ \ {r}, !.cancelled = TRUE]
      BY <1>2, <2>1
    <3> QED BY <1>2, <2>1, <3>1, Zenon DEF Pools
  <2>2. CASE pool' = [pool EXCEPT ![Tlsa].results = @ \ {r}]
    <3>1. pool'[Tlsa] = [P EXCEPT !.results = @ \ {r}]
      BY <1>2, <2>2
    <3> QED BY <1>2, <2>2, <3>1, Zenon DEF Pools
  <2> QED BY <1>1, <2>1, <2>2
<1>6. (\A q \in PoolIds : PoolInv(q)') /\ InPool(Tlsa)' \subseteq InPool(Tlsa)
  <2>1. PICK p \in PoolIds : p = Tlsa
    BY <1>2
  <2>2. \A q \in PoolIds : PoolInv(q)' /\ InPool(q)' \subseteq InPool(q)
    BY <1>0, <1>5, <2>1, PoolTaken, ZenonT(60)
  <2>3. InPool(p) = InPool(Tlsa) /\ InPool(p)' = InPool(Tlsa)'
    BY <1>2, <2>1, Zenon DEF InPool, Queued
  <2> QED BY <2>2, <2>3
<1>7. CASE r.status = "error"
  <2>1. TypeOK'
    BY <1>0, <1>1, <1>5, <1>7, WorldFixed, ZenonT(60) DEF TypeOK
  <2>2. stage' = "failed"
    BY <1>1, <1>7, Zenon
  <2> QED BY <1>0, <1>6, <2>1, <2>2, KeptSound, ZenonT(60) DEF IInv, MxInv, TlsaInv
<1>8. CASE r.status # "error"
  <2>1. /\ heard' = heard \cup {r.host} /\ stage' = "tlsa"
        /\ minTTL' = Smaller(minTTL, TlsaTTL(r.host))
        /\ minPolicy' = Smaller(minPolicy, Rank(CheckTlsa(r.host)))
        /\ maxPolicy' = Larger(maxPolicy, Rank(CheckTlsa(r.host)))
    BY <1>0, <1>1, <1>4, <1>8, Zenon
  <2>2. /\ minTTL \in Nat /\ \A h \in Hosts : TlsaTTL(h) \in Nat /\ world.mxTTL[h] \in Nat
        /\ good \subseteq Hosts /\ heard \subseteq Hosts
    BY <1>0, <1>2, ZenonT(60) DEF TypeOK, TlsaTTL
  <2>3. minTTL' \in Nat /\ minTTL' <= minTTL /\ minTTL' <= TlsaTTL(r.host)
    BY <1>3, <2>1, <2>2 DEF Smaller
  <2>4. /\ \A h \in good : minTTL' <= world.mxTTL[h]
        /\ \A h \in heard' : minTTL' <= TlsaTTL(h)
    BY <1>0, <2>1, <2>2, <2>3 DEF TlsaInv
  <2>5. /\ minPolicy' \in {NoDane, Dane, DaneOnly} /\ maxPolicy' \in {NoDane, Dane, DaneOnly}
        /\ minPolicy' = DaneOnly <=> minPolicy = DaneOnly /\ world.kind[r.host] = "usable"
        /\ maxPolicy' >= Dane <=> maxPolicy >= Dane \/ world.kind[r.host] \in {"usable", "unusable"}
    <3> DEFINE k == Rank(CheckTlsa(r.host))
    <3>1. /\ k \in {0, 1, 2}
          /\ k = 2 <=> world.kind[r.host] = "usable"
          /\ k # 0 <=> world.kind[r.host] \in {"usable", "unusable"}
      BY DEF Rank, CheckTlsa, NoDane, Dane, DaneOnly
    <3>2. minPolicy \in {0, 1, 2} /\ maxPolicy \in {0, 1, 2}
      BY <1>0, Zenon DEF TypeOK, NoDane, Dane, DaneOnly
    <3>3. minPolicy' = Smaller(minPolicy, k) /\ maxPolicy' = Larger(maxPolicy, k)
      BY <2>1, Zenon
    <3> HIDE DEF k
    <3> QED BY <3>1, <3>2, <3>3 DEF Smaller, Larger, NoDane, Dane, DaneOnly
  <2>6. TypeOK'
    BY <1>0, <1>3, <1>5, <2>1, <2>3, <2>5, WorldFixed, ZenonT(60) DEF TypeOK
  <2>7. /\ minPolicy' = DaneOnly <=> ~incompl /\ \A h \in heard' : world.kind[h] = "usable"
        /\ maxPolicy' >= Dane <=> \E h \in heard' : world.kind[h] \in {"usable", "unusable"}
    BY <1>0, <2>1, <2>5, Zenon DEF TlsaInv
  <2>8. TlsaInv'
    BY <1>0, <1>3, <1>6, <2>1, <2>4, <2>7, WorldFixed, ZenonT(60) DEF TlsaInv
  <2> QED BY <1>0, <1>6, <2>1, <2>6, <2>8, KeptSound, ZenonT(60) DEF IInv, MxInv
<1> QED BY <1>7, <1>8, Zenon

LEMMA TlsaCancelled ==
  ASSUME IInv, world' = world, expired' = expired, attempt' = attempt, Cancel(Tlsa)
  PROVE  pool' \in [PoolIds -> Pools] /\ \A q \in PoolIds : PoolInv(q)'
<1>1. /\ Tlsa \in PoolIds /\ pool[Tlsa] \in Pools /\ pool \in [PoolIds -> Pools]
  BY CurrentPools, Typed, Zenon DEF IInv, TypeOK
<1>2. PICK p \in PoolIds : p = Tlsa
  BY <1>1, Zenon
<1>3. pool' = [pool EXCEPT ![p].cancelled = TRUE]
  BY <1>2, Zenon DEF Cancel
<1>4. pool'[p] = [pool[p] EXCEPT !.cancelled = TRUE] /\ \A q \in PoolIds \ {p} : pool'[q] = pool[q]
  BY <1>1, <1>3, Zenon
<1>5. pool' \in [PoolIds -> Pools]
  BY <1>1, <1>2, <1>3, <1>4, Zenon DEF Pools
<1>6. /\ pool'[p].todo = pool[p].todo /\ pool'[p].dispatching = pool[p].dispatching
      /\ pool'[p].idle = pool[p].idle /\ pool'[p].looking = pool[p].looking
      /\ pool'[p].sending = pool[p].sending /\ pool'[p].results = pool[p].results \ {}
      /\ pool'[p].closed = pool[p].closed /\ pool'[p].cancelled
  BY <1>1, <1>2, <1>4 DEF Pools
<1>7. \A q \in PoolIds \ {p} : pool'[q] = pool[q]
  BY <1>4
<1>8. \A q \in PoolIds : PoolInv(q)'
  BY <1>6, <1>7, PoolTaken, ZenonT(60)
<1> QED BY <1>5, <1>8, Zenon

LEMMA TlsaIncompleteInv == IInv /\ TlsaIncomplete => IInv'
<1> SUFFICES ASSUME IInv, TlsaIncomplete PROVE IInv'
  BY Zenon
<1>1. /\ world' = world /\ expired' = expired /\ attempt' = attempt /\ stage' = "failed"
      /\ good' = good /\ incompl' = incompl /\ failed' = failed /\ heard' = heard
      /\ minPolicy' = minPolicy /\ maxPolicy' = maxPolicy /\ minTTL' = minTTL /\ answer' = answer
      /\ Cancel(Tlsa) /\ TypeOK
  BY Zenon DEF TlsaIncomplete, IInv
<1>2. pool' \in [PoolIds -> Pools] /\ \A q \in PoolIds : PoolInv(q)'
  BY <1>1, TlsaCancelled, Zenon
<1>3. TypeOK'
  BY <1>1, <1>2, WorldFixed, Zenon DEF TypeOK
<1> QED BY <1>1, <1>2, <1>3, KeptSound DEF IInv, MxInv, TlsaInv

LEMMA TlsaEndInv == IInv /\ TlsaEnd => IInv'
<1> SUFFICES ASSUME IInv, TlsaEnd PROVE IInv'
  OBVIOUS
<1> DEFINE v == Combine(minPolicy, maxPolicy)
<1>1. /\ world' = world /\ expired' = expired /\ attempt' = attempt
      /\ good' = good /\ incompl' = incompl /\ failed' = failed /\ heard' = heard
      /\ minPolicy' = minPolicy /\ maxPolicy' = maxPolicy /\ minTTL' = minTTL
      /\ Cancel(Tlsa) /\ TypeOK /\ heard = good /\ stage = "tlsa"
      /\ Answer(v, minTTL)
  BY Zenon DEF TlsaEnd, IInv
<1>2. pool' \in [PoolIds -> Pools] /\ \A q \in PoolIds : PoolInv(q)'
  BY <1>1, TlsaCancelled, ZenonT(60)
<1>3. v = TruePolicy
  <2>1. /\ minPolicy \in {0, 1, 2} /\ maxPolicy \in {0, 1, 2}
    BY <1>1, ZenonT(60) DEF TypeOK, NoDane, Dane, DaneOnly
  <2>2. /\ minPolicy = 2 <=> ~TrulyIncomplete /\ \A h \in Signed : world.kind[h] = "usable"
        /\ maxPolicy >= 1 <=> \E h \in Signed : world.kind[h] \in {"usable", "unusable"}
    BY <1>1 DEF IInv, TlsaInv, DaneOnly, Dane
  <2>3. \A h \in Signed : world.kind[h] \in {"usable", "unusable", "none"}
    <3>1. world.hosts \subseteq Hosts /\ world.kind \in [Hosts -> Kinds]
      BY <1>1, CurrentPools, Typed, Zenon
    <3> QED BY <3>1, Zenon DEF Signed, Kinds
  <2>4. maxPolicy >= 1 <=> ~(\A h \in Signed : world.kind[h] = "none")
    BY <2>2, <2>3, Zenon
  <2>5. minPolicy = 2 <=> ~world.incompl /\ \A h \in world.hosts : world.kind[h] = "usable"
    BY <2>2, Zenon DEF TrulyIncomplete, Signed
  <2>6. CASE maxPolicy = 0
    <3>1. v = "" /\ \A h \in Signed : world.kind[h] = "none"
      BY <2>4, <2>6 DEF Combine, Dane
    <3> QED BY <3>1, Zenon DEF TruePolicy
  <2>7. CASE maxPolicy # 0 /\ minPolicy = 2
    <3>1. v = "dane-only" /\ ~(\A h \in Signed : world.kind[h] = "none")
      BY <2>1, <2>4, <2>7 DEF Combine, Dane
    <3> QED BY <2>5, <2>7, <3>1, Zenon DEF TruePolicy
  <2>8. CASE maxPolicy # 0 /\ minPolicy # 2
    <3>1. v = "dane" /\ ~(\A h \in Signed : world.kind[h] = "none")
      BY <2>1, <2>4, <2>8 DEF Combine, Dane
    <3> QED BY <2>5, <2>8, <3>1, Zenon DEF TruePolicy
  <2> QED BY <2>6, <2>7, <2>8, ZenonT(60)
<1>4. v \in {"", "dane", "dane-only"}
  BY Zenon DEF Combine
<1>5. /\ minTTL \in Nat
      /\ \A h \in Signed : minTTL <= world.mxTTL[h] /\ minTTL <= TlsaTTL(h)
  BY <1>1, Zenon DEF IInv, TlsaInv, TypeOK
<1> HIDE DEF v
<1>6. stage' = "done" /\ \A a \in answer' : a = [policy |-> v, ttl |-> minTTL]
  BY <1>1, Zenon DEF Answer
<1>7. ASSUME NEW a \in answer'
      PROVE  /\ a.policy = v /\ a.ttl = minTTL
             /\ a \in [policy : {"", "dane", "dane-only", "TEMP"}, ttl : Nat]
  <2>1. a = [policy |-> v, ttl |-> minTTL]
    BY <1>6, Zenon
  <2> QED BY <1>4, <1>5, <2>1, Zenon
<1>8. VerdictSound'
  BY <1>1, <1>3, <1>5, <1>7, WorldFixed, Zenon DEF VerdictSound
<1>9. TypeOK'
  BY <1>1, <1>2, <1>6, <1>7, WorldFixed, Zenon DEF TypeOK
<1> QED BY <1>1, <1>2, <1>6, <1>8, <1>9, ZenonT(60) DEF IInv, MxInv, TlsaInv

---------------------------------------------------------------------------
LEMMA InitInv == Init => IInv
<1> SUFFICES ASSUME Init PROVE IInv
  BY Zenon
<1>1. NoPool \in Pools
  BY Zenon DEF NoPool, Pool, Pools
<1>2. world.mayRetry \in BOOLEAN
  BY DaneAssumption, Zenon DEF Init
<1>3. TypeOK
  <2>1. attempt \in 1 .. attempts
    BY <1>2, DaneAssumption DEF Init, attempts
  <2> QED BY <1>1, <2>1, Zenon DEF Init, TypeOK
<1>4. ASSUME NEW p \in PoolIds PROVE PoolInv(p)
  <2>1. pool[p] = NoPool
    BY DEF Init
  <2>2. /\ pool[p].todo = {} /\ pool[p].idle = 0 /\ pool[p].looking = {} /\ pool[p].sending = {}
        /\ pool[p].results = {} /\ ~pool[p].dispatching
    BY <2>1 DEF NoPool, Pool
  <2> QED BY <2>2 DEF PoolInv, InPool, Queued
<1> QED BY <1>3, <1>4, Zenon DEF Init, IInv, MxInv, TlsaInv, VerdictSound

LEMMA Invariance == Spec => []IInv
<1>1. IInv /\ [Next]_vars => IInv'
  <2> SUFFICES ASSUME IInv, [Next]_vars PROVE IInv'
    OBVIOUS
  <2>1. CASE CheckDane
    BY <2>1, OutsideSteps, LookupMxRecordsInv, MxResultInv, MxEndInv, TlsaResultInv,
       TlsaIncompleteInv, TlsaEndInv, ZenonT(60) DEF CheckDane
  <2>2. CASE \E p \in PoolIds : PoolStep(p)
    BY <2>2, PoolStepInv
  <2>3. CASE UNCHANGED vars
    <3>1. /\ world' = world /\ expired' = expired /\ attempt' = attempt /\ stage' = stage
          /\ good' = good /\ incompl' = incompl /\ failed' = failed /\ heard' = heard
          /\ minPolicy' = minPolicy /\ maxPolicy' = maxPolicy /\ minTTL' = minTTL
          /\ answer' = answer /\ pool' = pool
      BY <2>3, Zenon DEF vars
    <3>2. \A q \in PoolIds : PoolInv(q)'
      BY <3>1, PoolsKept, Zenon
    <3>3. TypeOK' /\ (stage' = "retry" => attempt' # attempts')
      BY <3>1, WorldFixed, ZenonT(60) DEF IInv, TypeOK
    <3>4. MxInv'
      BY <3>1, WorldFixed DEF IInv, MxInv, Mx, InPool, Queued, Accounted
    <3>5. TlsaInv'
      BY <3>1, WorldFixed DEF IInv, TlsaInv, Tlsa, InPool, Queued
    <3> QED BY <3>1, <3>2, <3>3, <3>4, <3>5, KeptSound, ZenonT(60) DEF IInv
  <2>4. CASE Expire
    BY <2>4, ExpireInv
  <2> QED BY <2>1, <2>2, <2>3, <2>4 DEF Next
<1> QED BY <1>1, InitInv, PTL DEF Spec

(* The parts of a lookup keep to their types: in particular checkDane      *)
(* never begins more attempts than it may.                                 *)
THEOREM TypeCorrect == Spec => []TypeOK
<1>1. IInv => TypeOK
  BY DEF IInv
<1> QED BY <1>1, Invariance, PTL

(* Whatever fails and however the goroutines race, checkDane answers TEMP  *)
(* or the policy of all the hosts, with a TTL no record is shorter than.   *)
THEOREM VerdictAlwaysSound == Spec => []VerdictSound
<1>1. IInv => VerdictSound
  BY DEF IInv
<1> QED BY <1>1, Invariance, PTL

(* The number of DNS lookups a pool has in flight never exceeds            *)
(* DANE_MX_LOOKUP_CONCURRENCY, for any number of hosts.                    *)
THEOREM LookupsAlwaysBounded == Spec => []BoundedLookups
<1> DEFINE AllBound == \A p \in PoolIds : Bound(p)
<1>1. Init => AllBound
  <2>1. IsFiniteSet({}) /\ Cardinality({}) = 0
    BY FS_EmptySet, ZenonT(60)
  <2>2. ASSUME Init, NEW p \in PoolIds
        PROVE  pool[p].looking = {} /\ pool[p].sending = {} /\ pool[p].idle = 0
    <3>1. pool[p] = NoPool
      BY <2>2, Zenon DEF Init
    <3> QED BY <3>1 DEF NoPool, Pool
  <2>3. ASSUME Init, NEW p \in PoolIds PROVE Bound(p)
    <3>1. /\ IsFiniteSet(pool[p].looking) /\ Cardinality(pool[p].looking) = 0
          /\ IsFiniteSet(pool[p].sending) /\ Cardinality(pool[p].sending) = 0
      BY <2>1, <2>2, <2>3, Zenon
    <3> QED BY <2>2, <2>3, <3>1, DaneAssumption DEF Bound
  <2> QED BY <2>3, Zenon
<1>2. IInv /\ AllBound /\ [Next]_vars => AllBound'
  <2> SUFFICES ASSUME IInv, AllBound, [Next]_vars PROVE AllBound'
    BY Zenon
  <2>0. /\ TypeOK /\ Mx \in PoolIds /\ Tlsa \in PoolIds /\ pool \in [PoolIds -> Pools]
        /\ good \in SUBSET world.hosts
    BY CurrentPools, Zenon DEF IInv, TypeOK
  <2>1. CASE pool' = pool
    BY <2>1, Zenon DEF Bound
  <2>2. CASE \E p \in PoolIds : PoolStep(p)
    BY <2>0, <2>2, BoundPoolStep, Zenon
  <2>3. CASE StartPool(Mx, world.hosts) \/ StartPool(Tlsa, good)
    BY <2>0, <2>3, BoundStart, Zenon
  <2>4. CASE MxResult \/ TlsaResult \/ TlsaIncomplete \/ TlsaEnd
    <3> SUFFICES ASSUME NEW q \in PoolIds PROVE Bound(q)'
      BY Zenon
    <3>1. Bound(q) /\ pool[q] \in Pools
      BY <2>0, Zenon
    <3>2. /\ pool'[q].idle = pool[q].idle /\ pool'[q].looking = pool[q].looking
          /\ pool'[q].sending = pool[q].sending
      <4>1. CASE MxResult
        <5>1. PICK r \in pool[Mx].results :
                pool' = [pool EXCEPT ![Mx].results = @ \ {r},
                                     ![Mx].cancelled = @ \/ r.status = "MxFail"]
          BY <4>1, Zenon DEF MxResult
        <5> QED BY <2>0, <3>1, <5>1, Zenon DEF Pools
      <4>2. CASE TlsaResult
        <5>1. PICK r \in pool[Tlsa].results :
                \/ pool' = [pool EXCEPT ![Tlsa].results = @ \ {r}, ![Tlsa].cancelled = TRUE]
                \/ pool' = [pool EXCEPT ![Tlsa].results = @ \ {r}]
          BY <4>2, Zenon DEF TlsaResult
        <5>2. CASE pool' = [pool EXCEPT ![Tlsa].results = @ \ {r}, ![Tlsa].cancelled = TRUE]
          BY <2>0, <3>1, <5>2, ZenonT(60) DEF Pools
        <5>3. CASE pool' = [pool EXCEPT ![Tlsa].results = @ \ {r}]
          BY <2>0, <3>1, <5>3 DEF Pools
        <5> QED BY <5>1, <5>2, <5>3
      <4>3. CASE TlsaIncomplete \/ TlsaEnd
        <5>1. pool' = [pool EXCEPT ![Tlsa].cancelled = TRUE]
          BY <4>3 DEF TlsaIncomplete, TlsaEnd, Cancel
        <5> QED BY <2>0, <3>1, <5>1 DEF Pools
      <4> QED BY <2>4, <4>1, <4>2, <4>3, Zenon
    <3> QED BY <3>1, <3>2, Zenon DEF Bound
  <2>5. \/ pool' = pool \/ MxResult \/ TlsaResult \/ TlsaIncomplete \/ TlsaEnd
        \/ StartPool(Mx, world.hosts) \/ StartPool(Tlsa, good)
        \/ \E p \in PoolIds : PoolStep(p)
    BY ZenonT(60) DEF Next, CheckDane, Expire, Start, LookupMxRecords, MxEnd, CheckTlsaRecords,
           AttemptFailed, Retry, vars
  <2> QED BY <2>1, <2>2, <2>3, <2>4, <2>5, ZenonT(60)
<1>3. IInv /\ AllBound => BoundedLookups
  <2> SUFFICES ASSUME IInv, AllBound, NEW p \in PoolIds
               PROVE Cardinality(pool[p].looking) <= DANE_MX_LOOKUP_CONCURRENCY
    BY Zenon DEF BoundedLookups
  <2>1. pool[p].idle \in Nat /\ Bound(p)
    BY Zenon DEF IInv, TypeOK, Pools
  <2> QED BY <2>1, FS_CardinalityType, DaneAssumption DEF Bound
<1> QED BY <1>1, <1>2, <1>3, Invariance, PTL DEF Spec
=============================================================================
