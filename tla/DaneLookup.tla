------------------------------ MODULE DaneLookup ------------------------------
(***************************************************************************)
(* checkDane: the DANE policy of a domain, looked up with retries.  Each   *)
(* attempt resolves the MX records, checks the addresses of the hosts in a *)
(* pool of goroutines, then the TLSA records of those that are signed in a *)
(* second pool, and combines what the pools answer (checkDaneOnce).        *)
(*                                                                         *)
(* The DNS holds one truth about the domain, the world; any single lookup  *)
(* may fail instead of telling it, and the caller's context may be done at *)
(* any moment.  A pool goes on by itself after the attempt that began it   *)
(* has returned, so every attempt has two pools of its own.                *)
(***************************************************************************)
EXTENDS Integers, FiniteSets

CONSTANTS
  Hosts,                        \* names of MX hosts
  DANE_MX_LOOKUP_CONCURRENCY,
  POLICY_ATTEMPTS,
  Worlds                        \* what the DNS may hold, and whether the caller may retry

Kinds == {"usable", "unusable", "none", "unsigned"}

ASSUME DaneAssumption ==
  /\ IsFiniteSet(Hosts)
  /\ DANE_MX_LOOKUP_CONCURRENCY \in Nat \ {0}
  /\ POLICY_ATTEMPTS \in Nat \ {0}
  /\ Worlds \subseteq [hosts : SUBSET Hosts, incompl : BOOLEAN, kind : [Hosts -> Kinds],
                       mxTTL : [Hosts -> Nat], tlsaTTL : [Hosts -> Nat], mayRetry : BOOLEAN]

VARIABLES
  world,                        \* the truth about the domain; mayRetry of the call
  expired,                      \* the caller's context is done
  attempt,                      \* the current attempt of checkDane
  stage,                        \* where checkDane is
  pool,                         \* per attempt and stage: the goroutines and their channels
  good,                         \* mxRecords: the hosts with signed addresses
  incompl,                      \* some host or answer is not signed
  failed,                       \* getMxRecords: lookupErr is set
  heard,                        \* hosts whose TLSA result getDanePolicy has taken
  minPolicy, maxPolicy, minTTL,
  answer                        \* the set of what checkDane has returned

vars == <<world, expired, attempt, stage, pool, good, incompl, failed, heard,
          minPolicy, maxPolicy, minTTL, answer>>

---------------------------------------------------------------------------
(* checkMx: signed A records decide, else signed AAAA ones; a failure      *)
(* counts only if neither does.                                            *)
CheckMx(a, aaaa) ==
  IF "MxOk" \in {a, aaaa} THEN "MxOk"
  ELSE IF "MxFail" \in {a, aaaa} THEN "MxFail" ELSE "MxNotSec"

(* A signed host has signed addresses of one family or of both.            *)
AddressTruths(h) ==
  IF world.kind[h] = "unsigned" THEN {<<"MxNotSec", "MxNotSec">>}
  ELSE {<<"MxOk", "MxOk">>, <<"MxOk", "MxNotSec">>, <<"MxNotSec", "MxOk">>}

(* Either lookup of checkMxAddress may fail.                               *)
MxOutcomes(h) ==
  UNION {{CheckMx(a, aaaa) : a \in {t[1], "MxFail"}, aaaa \in {t[2], "MxFail"}} :
         t \in AddressTruths(h)}

(* checkTlsa.                                                              *)
CheckTlsa(h) ==
  IF world.kind[h] = "usable" THEN "dane-only"
  ELSE IF world.kind[h] = "unusable" THEN "dane" ELSE ""

TlsaOutcomes(h) == {CheckTlsa(h), "error"}

(* The TTL that goes with the result: a host without records has none.     *)
TlsaTTL(h) == IF CheckTlsa(h) = "" THEN 0 ELSE world.tlsaTTL[h]

Statuses == {"MxOk", "MxFail", "MxNotSec", "dane-only", "dane", "", "error"}

NoDane == 0
Dane == 1
DaneOnly == 2

Rank(result) == IF result = "dane-only" THEN DaneOnly ELSE IF result = "dane" THEN Dane ELSE NoDane

Smaller(a, b) == IF a < b THEN a ELSE b
Larger(a, b) == IF a > b THEN a ELSE b

(* The policy getDanePolicy makes of the weakest and the strongest host.   *)
Combine(weakest, strongest) ==
  IF strongest < Dane THEN "" ELSE IF weakest <= Dane THEN "dane" ELSE "dane-only"

---------------------------------------------------------------------------
(* A pool: the hosts to be dispatched, whether the dispatcher runs (it     *)
(* closes jobs when it ends), the workers that wait for a job, those that  *)
(* look a host up, those that send a result, the buffered results.         *)
PoolIds == (1 .. POLICY_ATTEMPTS) \X {"mx", "tlsa"}
Results == [host : Hosts, status : Statuses]
Result(h, status) == [host |-> h, status |-> status]
Outcomes(kind, h) == IF kind = "mx" THEN MxOutcomes(h) ELSE TlsaOutcomes(h)

Pools == [todo : SUBSET Hosts, dispatching : BOOLEAN, idle : Nat, looking : SUBSET Hosts,
          sending : SUBSET Results, results : SUBSET Results,
          closed : BOOLEAN, cancelled : BOOLEAN]

Pool(todo, dispatching, idle, results, closed) ==
  [todo |-> todo, dispatching |-> dispatching, idle |-> idle, looking |-> {}, sending |-> {},
   results |-> results, closed |-> closed, cancelled |-> FALSE]

NoPool == Pool({}, FALSE, 0, {}, TRUE)

NewPoolUnbounded(hosts) == Pool(hosts, TRUE, Cardinality(hosts), {}, FALSE)  \* mutant: no limit

NewPool(hosts) ==
  Pool(hosts, TRUE, Smaller(DANE_MX_LOOKUP_CONCURRENCY, Cardinality(hosts)), {}, FALSE)

(* checkMxRecords and checkTlsaRecords: a single host is looked up at once *)
(* by the caller unless its context is done.                               *)
OwnResults(kind, h) ==
  IF expired THEN {{}} ELSE {{Result(h, s)} : s \in Outcomes(kind, h)}

StartPool(p, hosts) ==
  \/ \E h \in hosts :
       /\ hosts = {h}
       /\ \E results \in OwnResults(p[2], h) :
            pool' = [pool EXCEPT ![p] = Pool({}, FALSE, 0, results, TRUE)]
  \/ /\ \A h \in hosts : hosts # {h}
     /\ pool' = [pool EXCEPT ![p] = NewPool(hosts)]

Cancel(p) == pool' = [pool EXCEPT ![p].cancelled = TRUE]

Done(p) == expired \/ pool[p].cancelled

Mx == <<attempt, "mx">>
Tlsa == <<attempt, "tlsa">>

---------------------------------------------------------------------------
Init ==
  /\ world \in Worlds
  /\ expired = FALSE
  /\ attempt = 1
  /\ stage = "start"
  /\ pool = [p \in PoolIds |-> NoPool]
  /\ good = {}
  /\ incompl = FALSE
  /\ failed = FALSE
  /\ heard = {}
  /\ minPolicy = DaneOnly
  /\ maxPolicy = NoDane
  /\ minTTL = 0
  /\ answer = {}

Answer(policy, ttl) ==
  /\ stage' = "done"
  /\ answer' = {[policy |-> policy, ttl |-> ttl]}

(* The caller's deadline passes or its connection goes away.               *)
Expire ==
  /\ ~expired
  /\ expired' = TRUE
  /\ UNCHANGED <<world, attempt, stage, pool, good, incompl, failed, heard,
                 minPolicy, maxPolicy, minTTL, answer>>

(* config.Dns.GetResolverAddress.                                          *)
Start ==
  /\ stage = "start"
  /\ \/ stage' = "resolve" /\ answer' = answer
     \/ Answer("TEMP", 0)
  /\ UNCHANGED <<world, expired, attempt, pool, good, incompl, failed, heard,
                 minPolicy, maxPolicy, minTTL>>

(* getMxRecords up to the loop: lookupMxRecords fails, finds no host, or   *)
(* finds those of the domain.                                              *)
LookupMxRecords ==
  /\ stage = "resolve"
  /\ \/ /\ stage' = "failed"
        /\ UNCHANGED <<pool, good, incompl, failed, minTTL, answer>>
     \/ /\ world.hosts = {}
        /\ Answer("", 0)
        /\ UNCHANGED <<pool, good, incompl, failed, minTTL>>
     \/ /\ world.hosts # {}
        /\ StartPool(Mx, world.hosts)
        /\ stage' = "mx"
        /\ good' = {}
        /\ incompl' = world.incompl
        /\ failed' = FALSE
        /\ minTTL' = 0
        /\ UNCHANGED answer
  /\ UNCHANGED <<world, expired, attempt, heard, minPolicy, maxPolicy>>

(* getMxRecords: one turn of the loop over the results.  The first failure *)
(* cancels the other lookups; the loop still runs to the end.              *)
MxResult ==
  /\ stage = "mx"
  /\ \E r \in pool[Mx].results :
       /\ pool' = [pool EXCEPT ![Mx].results = @ \ {r},
                               ![Mx].cancelled = @ \/ r.status = "MxFail"]
       /\ good' = IF r.status = "MxOk" THEN good \cup {r.host} ELSE good
       /\ minTTL' = IF r.status # "MxOk" THEN minTTL
                    ELSE IF good = {} THEN world.mxTTL[r.host]
                    ELSE Smaller(minTTL, world.mxTTL[r.host])
       /\ incompl' = (incompl \/ r.status = "MxNotSec")
       /\ failed' = (failed \/ r.status = "MxFail")
  /\ UNCHANGED <<world, expired, attempt, stage, heard, minPolicy, maxPolicy, answer>>

(* checkDaneOnce after getMxRecords has returned without an error.         *)
CheckTlsaRecords ==
  \/ /\ good = {}
     /\ Answer("", 0)
     /\ UNCHANGED <<pool, heard, minPolicy, maxPolicy>>
  \/ /\ good # {}
     /\ StartPool(Tlsa, good)
     /\ stage' = "tlsa"
     /\ heard' = {}
     /\ minPolicy' = IF incompl THEN NoDane ELSE DaneOnly
     /\ maxPolicy' = NoDane
     /\ UNCHANGED answer

(* The results are closed and getMxRecords returns.  Its deferred cancel   *)
(* finds a pool with no goroutine left, or one whose context is done.      *)
MxEndDespiteExpiry ==           \* mutant: the context is not asked after the loop
  /\ stage = "mx"
  /\ pool[Mx].results = {} /\ pool[Mx].closed
  /\ IF failed
       THEN stage' = "failed" /\ UNCHANGED <<pool, heard, minPolicy, maxPolicy, answer>>
       ELSE CheckTlsaRecords
  /\ UNCHANGED <<world, expired, attempt, good, incompl, failed, minTTL>>

MxEnd ==
  /\ stage = "mx"
  /\ pool[Mx].results = {} /\ pool[Mx].closed
  /\ IF failed \/ expired
       THEN stage' = "failed" /\ UNCHANGED <<pool, heard, minPolicy, maxPolicy, answer>>
       ELSE CheckTlsaRecords
  /\ UNCHANGED <<world, expired, attempt, good, incompl, failed, minTTL>>

(* getDanePolicy: one turn of its loop, as long as results are missing.    *)
TlsaResult ==
  /\ stage = "tlsa" /\ heard # good
  /\ \E r \in pool[Tlsa].results :
       IF r.status = "error"
         THEN /\ stage' = "failed"
              /\ pool' = [pool EXCEPT ![Tlsa].results = @ \ {r}, ![Tlsa].cancelled = TRUE]
              /\ UNCHANGED <<heard, minPolicy, maxPolicy, minTTL>>
         ELSE /\ pool' = [pool EXCEPT ![Tlsa].results = @ \ {r}]
              /\ heard' = heard \cup {r.host}
              /\ minTTL' = Smaller(minTTL, TlsaTTL(r.host))
              /\ minPolicy' = Smaller(minPolicy, Rank(r.status))
              /\ maxPolicy' = Larger(maxPolicy, Rank(r.status))
              /\ UNCHANGED stage
  /\ UNCHANGED <<world, expired, attempt, good, incompl, failed, answer>>

(* The results are closed before all are there, or the context is done.    *)
TlsaIncomplete ==
  /\ stage = "tlsa" /\ heard # good
  /\ expired \/ (pool[Tlsa].results = {} /\ pool[Tlsa].closed)
  /\ stage' = "failed"
  /\ Cancel(Tlsa)
  /\ UNCHANGED <<world, expired, attempt, good, incompl, failed, heard,
                 minPolicy, maxPolicy, minTTL, answer>>

TlsaEnd ==
  /\ stage = "tlsa" /\ heard = good
  /\ Answer(Combine(minPolicy, maxPolicy), minTTL)
  /\ Cancel(Tlsa)
  /\ UNCHANGED <<world, expired, attempt, good, incompl, failed, heard,
                 minPolicy, maxPolicy, minTTL>>

attempts == IF world.mayRetry THEN POLICY_ATTEMPTS ELSE 1

(* checkDane after checkDaneOnce has returned an error.                    *)
AttemptFailedAlways ==          \* mutant: there is no last attempt
  /\ stage = "failed"
  /\ IF expired
       THEN Answer("TEMP", 0)
       ELSE stage' = "retry" /\ answer' = answer
  /\ UNCHANGED <<world, expired, attempt, pool, good, incompl, failed, heard,
                 minPolicy, maxPolicy, minTTL>>

AttemptFailed ==
  /\ stage = "failed"
  /\ IF expired \/ attempt = attempts
       THEN Answer("TEMP", 0)
       ELSE stage' = "retry" /\ answer' = answer
  /\ UNCHANGED <<world, expired, attempt, pool, good, incompl, failed, heard,
                 minPolicy, maxPolicy, minTTL>>

(* waitPolicyRetry.                                                        *)
Retry ==
  /\ stage = "retry"
  /\ \/ /\ stage' = "resolve" /\ attempt' = attempt + 1
        /\ UNCHANGED answer
     \/ /\ expired
        /\ Answer("TEMP", 0)
        /\ UNCHANGED attempt
  /\ UNCHANGED <<world, expired, pool, good, incompl, failed, heard,
                 minPolicy, maxPolicy, minTTL>>

---------------------------------------------------------------------------
(* The goroutines of a pool.                                               *)
callerState == <<world, expired, attempt, stage, good, incompl, failed, heard,
                 minPolicy, maxPolicy, minTTL, answer>>

(* A worker receives the job the dispatcher sends.                         *)
Dispatch(p) ==
  /\ pool[p].dispatching /\ pool[p].idle > 0
  /\ \E h \in pool[p].todo :
       pool' = [pool EXCEPT ![p].todo = @ \ {h}, ![p].idle = @ - 1, ![p].looking = @ \cup {h}]
  /\ UNCHANGED callerState

(* The dispatcher ends after the last job, or when the context is done.    *)
DispatcherEndsWhenSent(p) ==    \* mutant: the dispatcher does not watch the context
  /\ pool[p].dispatching
  /\ pool[p].todo = {}
  /\ pool' = [pool EXCEPT ![p].dispatching = FALSE]
  /\ UNCHANGED callerState

DispatcherEnds(p) ==
  /\ pool[p].dispatching
  /\ pool[p].todo = {} \/ Done(p)
  /\ pool' = [pool EXCEPT ![p].dispatching = FALSE]
  /\ UNCHANGED callerState

(* A worker that waits for a job ends: jobs is closed or the context done. *)
WorkerEndsWhenCancelled(p) ==   \* mutant: jobs is never closed
  /\ pool[p].idle > 0
  /\ Done(p)
  /\ pool' = [pool EXCEPT ![p].idle = @ - 1]
  /\ UNCHANGED callerState

WorkerEnds(p) ==
  /\ pool[p].idle > 0
  /\ ~pool[p].dispatching \/ Done(p)
  /\ pool' = [pool EXCEPT ![p].idle = @ - 1]
  /\ UNCHANGED callerState

LookupEnds(p) ==
  /\ \E h \in pool[p].looking : \E s \in Outcomes(p[2], h) :
       pool' = [pool EXCEPT ![p].looking = @ \ {h}, ![p].sending = @ \cup {Result(h, s)}]
  /\ UNCHANGED callerState

(* The channel has room for every result; a worker whose context is done   *)
(* may drop its own instead.                                               *)
Send(p) ==
  /\ \E r \in pool[p].sending :
       pool' = [pool EXCEPT ![p].sending = @ \ {r}, ![p].results = @ \cup {r}, ![p].idle = @ + 1]
  /\ UNCHANGED callerState

DropResult(p) ==
  /\ Done(p)
  /\ \E r \in pool[p].sending : pool' = [pool EXCEPT ![p].sending = @ \ {r}]
  /\ UNCHANGED callerState

(* The last goroutine: wg.Wait, then close(results).                       *)
CloseResults(p) ==
  /\ pool[p].idle = 0 /\ pool[p].looking = {} /\ pool[p].sending = {} /\ ~pool[p].closed
  /\ pool' = [pool EXCEPT ![p].closed = TRUE]
  /\ UNCHANGED callerState

---------------------------------------------------------------------------
CheckDane ==
  \/ Start \/ LookupMxRecords \/ MxResult \/ MxEnd
  \/ TlsaResult \/ TlsaIncomplete \/ TlsaEnd
  \/ AttemptFailed \/ Retry

PoolStep(p) ==
  \/ Dispatch(p) \/ DispatcherEnds(p) \/ WorkerEnds(p)
  \/ LookupEnds(p) \/ Send(p) \/ DropResult(p) \/ CloseResults(p)

Next == Expire \/ CheckDane \/ \E p \in PoolIds : PoolStep(p)

Spec == Init /\ [][Next]_vars

(* Goroutines that can run do, and a lookup ends: the DNS client has a     *)
(* timeout.  The caller's context need never be done.                      *)
FairSpec ==
  /\ Spec
  /\ WF_vars(CheckDane)
  /\ \A p \in PoolIds : WF_vars(PoolStep(p))

---------------------------------------------------------------------------
(* Every variable keeps its type, checkDane makes no more attempts than it *)
(* may, and it goes by hosts of the domain only.                           *)
TypeOK ==
  /\ world \in Worlds
  /\ expired \in BOOLEAN
  /\ attempt \in 1 .. attempts
  /\ stage \in {"start", "resolve", "mx", "tlsa", "failed", "retry", "done"}
  /\ pool \in [PoolIds -> Pools]
  /\ good \subseteq world.hosts
  /\ incompl \in BOOLEAN
  /\ failed \in BOOLEAN
  /\ heard \subseteq world.hosts
  /\ minPolicy \in {NoDane, Dane, DaneOnly}
  /\ maxPolicy \in {NoDane, Dane, DaneOnly}
  /\ minTTL \in Nat
  /\ answer \subseteq [policy : {"", "dane", "dane-only", "TEMP"}, ttl : Nat]

(* What the policy of the domain is, by the records alone.                 *)
Signed == {h \in world.hosts : world.kind[h] # "unsigned"}

TruePolicy ==
  IF \A h \in Signed : world.kind[h] = "none" THEN ""
  ELSE IF ~world.incompl /\ \A h \in world.hosts : world.kind[h] = "usable" THEN "dane-only"
  ELSE "dane"

(* Whatever lookups fail, whichever goroutine wins a race with the         *)
(* context, checkDane returns TEMP or the policy that all the hosts        *)
(* together have, never that of the hosts it happened to hear of; and a    *)
(* policy lives no longer than any record it rests on.                     *)
VerdictSound ==
  \A a \in answer :
    a.policy # "TEMP" =>
      /\ a.policy = TruePolicy
      /\ a.policy # "" => \A h \in Signed : a.ttl <= world.mxTTL[h] /\ a.ttl <= TlsaTTL(h)

(* The lookups a caller still waits for are at most as many as the limit,  *)
(* however many hosts the domain has.                                      *)
BoundedLookups ==
  \A p \in PoolIds : Cardinality(pool[p].looking) <= DANE_MX_LOOKUP_CONCURRENCY

(* checkDane returns, whatever lookups fail and whenever the context ends. *)
LookupReturns == <>(stage = "done")

Quiet(p) == pool[p].closed /\ ~pool[p].dispatching

(* No goroutine outlives the lookup for ever: the dispatchers, the workers *)
(* and the closers of all its pools end.                                   *)
NoGoroutineLeft == <>[](\A p \in PoolIds : Quiet(p))
=============================================================================
