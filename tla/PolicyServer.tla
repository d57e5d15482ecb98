---------------------------- MODULE PolicyServer ----------------------------
(***************************************************************************)
(* What the daemon does with the cached policy state of one domain:        *)
(* socketmap connections that look it up (handleSocketmapConnection),      *)
(* lookups shared through the singleflight group (refreshDomain), the      *)
(* prefetcher (prefetchDuePoliciesContext), the clean-up on start, signal, *)
(* command or overflow (tidyCache) and the PURGE command (purgeCache).     *)
(* Each of them reads the entry, works on its copy without a lock and      *)
(* stores the outcome later.                                               *)
(*                                                                         *)
(* Domains share nothing but the limit on the size of the cache, which has *)
(* a module of its own (CacheLimit).  Every stored entry has been asked    *)
(* for, so its counter is positive and a discarded entry stays as          *)
(* StatsOnly.                                                              *)
(***************************************************************************)
EXTENDS PolicyBranches

CONSTANTS
  Conns,                        \* socketmap connections
  Prefetch,                     \* config.Server.Prefetch
  PREFETCH_INTERVAL, PREFETCH_RETRY_MAX_AGE, PREFETCH_RETRY_MAX_INTERVAL,
  BATCH_SPREAD,                 \* a batch starts at most this much after the time asked for
  DaneOutcomes,                 \* what checkDane may return
  MtaStsOutcomes,               \* what checkMtaSts may return
  InitialEntries,               \* what the cache file may hold
  Housekeeping,                 \* which of "tidy" and "purge" happen
  StartTime,                    \* when the daemon starts
  MaxTime                       \* bound on the clock

ASSUME ServerAssumption ==
  /\ Prefetch \in BOOLEAN
  /\ PREFETCH_INTERVAL \in Nat \ {0}
  /\ PREFETCH_RETRY_MAX_AGE \in Nat \ {0}
  /\ PREFETCH_RETRY_MAX_INTERVAL \in Nat /\ PREFETCH_RETRY_MAX_INTERVAL >= PREFETCH_INTERVAL
  /\ BATCH_SPREAD \in Nat
  /\ \A o \in DaneOutcomes : o.policy \in InDane \cup {"TEMP"} /\ o.ttl \in Nat
  /\ \A o \in MtaStsOutcomes : /\ o.policy \in InMtaSts \cup {"TEMP"} /\ o.ttl \in Nat
                               /\ o.fetched \in BOOLEAN
  /\ InitialEntries \subseteq Entries
  /\ Housekeeping \subseteq {"tidy", "purge"}
  /\ StartTime \in Nat \ {0} /\ MaxTime \in Nat

VARIABLES
  now,                          \* the clock
  entry,                        \* polCache's entry of the domain
  conn,                         \* per connection: [pc, base, res, at]
  flight,                       \* the lookup in queryGroup: [on, base, start]
  due,                          \* scheduler.items: due time, 0 when unscheduled
  failure,                      \* scheduler.failures: [first, delay], first = 0 for none
  worker,                       \* the prefetcher: [pc, base, at, res, none]
  tidy,                         \* tidyCache: [pc, base]
  purging,                      \* PURGE has emptied the cache, not yet the schedule
  absent,                       \* ghost: a DANE lookup has found that there is no DANE policy
  firstFailure                  \* ghost: when a lookup first failed, 0 when none has

schedule == <<due, failure>>
ghosts == <<absent, firstFailure>>
vars == <<now, entry, conn, flight, due, failure, worker, tidy, purging, absent, firstFailure>>

ConnStates == [pc : {"idle", "hit", "miss", "wait", "reply", "schedule"},
               base : Entries, res : Results, at : Nat]
FlightStates == [on : BOOLEAN, base : Entries, start : Nat]
Failures == [first : Nat, delay : Nat]
WorkerStates == [pc : {"idle", "popped", "decide", "unschedule", "lookup", "renewed",
                       "missed", "failed", "drop", "dropped"},
                 base : Entries, at : Nat, res : Results, none : BOOLEAN]
TidyStates == [pc : {"idle", "judge", "schedule", "unschedule"}, base : Entries]

NoResult == [policy |-> "", ttl |-> 0, dane |-> NoLive, mtaSts |-> NoLive,
             daneAttempted |-> FALSE, mtaStsAttempted |-> FALSE]
NoFailure == [first |-> 0, delay |-> 0]
NoFlight == [on |-> FALSE, base |-> NoEntry, start |-> 0]
IdleConn == [pc |-> "idle", base |-> NoEntry, res |-> NoResult, at |-> 0]
IdleWorker == [pc |-> "idle", base |-> NoEntry, at |-> 0, res |-> NoResult, none |-> FALSE]
IdleTidy == [pc |-> "idle", base |-> NoEntry]

OffWhenDisabled == ~Prefetch => due = 0 /\ failure = NoFailure /\ worker = IdleWorker

---------------------------------------------------------------------------
(* The prefetch schedule.  A batch begins at or shortly after a time; the  *)
(* exact slots do not matter here.                                         *)
BatchAtOrAfter(t) == t .. (t + BATCH_SPREAD)

(* When an entry whose policy lives for ttl more is refreshed.             *)
NextPolicyPrefetchTime(t, ttl) ==
  {d \in t .. (t + ttl + BATCH_SPREAD) : d + PREFETCH_INTERVAL + BATCH_SPREAD >= t + ttl}

(* The set of due times, empty when the entry is not to be prefetched.     *)
NextPrefetchTime(c, t) ==
  LET sel == SelectCachedPolicy(c, t)
  IN  IF EntryAge(c, t) >= CACHE_MAX_AGE \/ ~sel.ok THEN {}
      ELSE IF sel.policy # "" THEN NextPolicyPrefetchTime(t, sel.ttl)
      ELSE IF HadPolicyWithin(c, t, POLICY_BRANCH_RECHECK) THEN BatchAtOrAfter(t + sel.ttl)
      ELSE {}

UnscheduleOnly == due' = 0 /\ UNCHANGED failure     \* mutant: the failures stay recorded

(* scheduler.remove also forgets the failures.                             *)
UnscheduleCachedPolicyPrefetch == due' = 0 /\ failure' = NoFailure

(* An entry that cannot be used but is worth a retry is due at once.       *)
DueTimes(c, t) ==
  CASE NextPrefetchTime(c, t) # {} -> NextPrefetchTime(c, t)
    [] NextPrefetchTime(c, t) = {} /\ ShouldRetryCachedPolicyPrefetch(c, t) -> BatchAtOrAfter(t)
    [] OTHER -> {}

ScheduleCachedPolicyPrefetch(c, t, fail) ==
  IF ~Prefetch THEN UNCHANGED schedule
  ELSE \/ due' \in DueTimes(c, t) /\ failure' = fail
       \/ DueTimes(c, t) = {} /\ UnscheduleCachedPolicyPrefetch

(* The attempts counted in a failure record matter only for the delay that *)
(* follows from them, and the record here holds the delay of the last one: *)
(* PREFETCH_INTERVAL first, then doubled up to the maximum.                *)
PrefetchRetryDelay(last) ==
  IF last = 0 THEN PREFETCH_INTERVAL ELSE Smaller(2 * last, PREFETCH_RETRY_MAX_INTERVAL)

FirstFailed(t) == IF failure.first = 0 THEN t ELSE failure.first

RetryDeadlineGrace(t, grace) == grace    \* mutant: no retries without a grace period

RetryDeadline(t, grace) == Larger(FirstFailed(t) + PREFETCH_RETRY_MAX_AGE, grace)

ScheduleRetryUntil(t, grace) ==
  LET delay == PrefetchRetryDelay(failure.delay)
  IN  /\ t < RetryDeadline(t, grace)
      /\ \E d \in BatchAtOrAfter(t + delay) :
           due' = Smaller(d, RetryDeadline(t, grace))
      /\ failure' = [first |-> FirstFailed(t), delay |-> delay]

---------------------------------------------------------------------------
(* An entry that says "no DANE", found out by a lookup of an earlier run.  *)
KnownAbsent(c) == HasData(c.dane) /\ c.dane.policy = ""

Init ==
  /\ now = StartTime
  /\ entry \in InitialEntries
  /\ conn = [c \in Conns |-> IdleConn]
  /\ flight = NoFlight
  /\ due \in IF Prefetch /\ DueTimes(entry, now) # {} THEN DueTimes(entry, now) ELSE {0}
  /\ failure = NoFailure
  /\ worker = IdleWorker
  /\ tidy = IdleTidy
  /\ purging = FALSE
  /\ absent = KnownAbsent(entry)
  /\ firstFailure = 0

(* Lookups end within their context's timeout and writes within the        *)
(* deadline of the connection, so the clock passes at most one unit while  *)
(* one of them is under way; computing takes no time.                      *)
Tick ==
  /\ now < MaxTime
  /\ flight.on => now = flight.start
  /\ \A c \in Conns : \/ conn[c].pc \in {"idle", "wait"}
                      \/ conn[c].pc = "reply" /\ now = conn[c].at
  /\ worker.pc = "idle" \/ (worker.pc = "lookup" /\ now = worker.at)
  /\ tidy.pc = "idle" /\ ~purging
  /\ now' = now + 1
  /\ UNCHANGED <<entry, conn, flight, schedule, worker, tidy, purging, ghosts>>

(* What the lookups of a query say, for the ghosts.                        *)
Witnessed(r) ==
  /\ absent' = (absent \/ (HasLive(r.dane) /\ r.dane.policy = ""))
  /\ firstFailure' = IF firstFailure = 0 /\ (DaneFailed(r) \/ MtaStsFailed(r))
                     THEN now ELSE firstFailure

---------------------------------------------------------------------------
(* handleSocketmapConnection.  tryCachedPolicy answers from the cache or   *)
(* hands the entry it saw to refreshDomain.                                *)
TryCachedPolicy(c) ==
  LET sel == SelectCachedPolicy(entry, now)
  IN  /\ conn[c].pc = "idle"
      /\ conn' = [conn EXCEPT ![c] =
           IF sel.ok THEN [IdleConn EXCEPT !.pc = "hit",
                                           !.res = [NoResult EXCEPT !.policy = sel.policy]]
                     ELSE [IdleConn EXCEPT !.pc = "miss", !.base = entry]]
      /\ UNCHANGED <<now, entry, flight, schedule, worker, tidy, purging, ghosts>>

HitDelivered(c) ==
  /\ conn[c].pc = "hit"
  /\ conn' = [conn EXCEPT ![c] = IdleConn]
  /\ UNCHANGED <<now, entry, flight, schedule, worker, tidy, purging, ghosts>>

(* queryGroup.Do: the first caller's entry is the one looked up from, and  *)
(* later callers share its result.                                         *)
RefreshDomain(c) ==
  /\ conn[c].pc = "miss"
  /\ conn' = [conn EXCEPT ![c].pc = "wait"]
  /\ flight' = IF flight.on THEN flight
               ELSE [on |-> TRUE, base |-> conn[c].base, start |-> now]
  /\ UNCHANGED <<now, entry, schedule, worker, tidy, purging, ghosts>>

FlightEndForLeader(daneOutcome, mtaStsOutcome) ==  \* mutant: those who joined are not woken
  LET r == QueryDomainBranches(flight.base, flight.start, 0, daneOutcome, mtaStsOutcome)
  IN  /\ flight.on
      /\ \E c \in Conns : /\ conn[c].pc = "wait"
                         /\ conn' = [conn EXCEPT ![c] = [@ EXCEPT !.pc = "reply", !.res = r, !.at = now]]
      /\ flight' = NoFlight
      /\ Witnessed(r)
      /\ UNCHANGED <<now, entry, schedule, worker, tidy, purging>>

FlightEnd(daneOutcome, mtaStsOutcome) ==
  LET r == QueryDomainBranches(flight.base, flight.start, 0, daneOutcome, mtaStsOutcome)
  IN  /\ flight.on
      /\ conn' = [c \in Conns |->
           IF conn[c].pc = "wait"
           THEN [conn[c] EXCEPT !.pc = "reply", !.res = r, !.at = now]
           ELSE conn[c]]
      /\ flight' = NoFlight
      /\ Witnessed(r)
      /\ UNCHANGED <<now, entry, schedule, worker, tidy, purging>>

WorthStoring(c, r) ==
  \/ r.ttl # 0 \/ HasLive(r.dane) \/ HasLive(r.mtaSts)
  \/ c.found /\ (r.daneAttempted \/ r.mtaStsAttempted)

(* replySocketmap, whose failed write is only logged, and after it the     *)
(* store: the clock of the new branches starts here.                       *)
ReplySocketmap(c) ==
  \E jitter \in 0 .. EXPIRY_JITTER :
    LET cs == MergeCacheResult(conn[c].base, conn[c].res, now, jitter)
        store == WorthStoring(conn[c].base, conn[c].res)
    IN  /\ conn[c].pc = "reply"
        /\ entry' = IF store THEN cs ELSE entry
        /\ conn' = [conn EXCEPT ![c] =
             IF store /\ Prefetch THEN [IdleConn EXCEPT !.pc = "schedule", !.base = cs] ELSE IdleConn]
        /\ UNCHANGED <<now, flight, schedule, worker, tidy, purging, ghosts>>

ScheduleResult(c) ==
  LET cs == conn[c].base
  IN  /\ conn[c].pc = "schedule"
      /\ ScheduleCachedPolicyPrefetch(cs, now,
           IF SelectCachedPolicy(cs, now).ok THEN NoFailure ELSE failure)
      /\ conn' = [conn EXCEPT ![c] = IdleConn]
      /\ UNCHANGED <<now, entry, flight, worker, tidy, purging, ghosts>>

---------------------------------------------------------------------------
(* prefetchDuePoliciesContext.                                             *)
PopDue ==
  /\ worker.pc = "idle" /\ due # 0 /\ due <= now
  /\ due' = 0
  /\ worker' = [worker EXCEPT !.pc = "popped"]
  /\ UNCHANGED <<now, entry, conn, flight, failure, tidy, purging, ghosts>>

PrefetchGet ==
  /\ worker.pc = "popped"
  /\ worker' = IF entry.found THEN [worker EXCEPT !.pc = "decide", !.base = entry] ELSE IdleWorker
  /\ UNCHANGED <<now, entry, conn, flight, schedule, tidy, purging, ghosts>>

(* Nothing worth refreshing: the state is discarded without another look   *)
(* at the cache, and the domain unscheduled.                               *)
PrefetchHopeless(c, t) ==
  \/ ~SelectCachedPolicy(c, t).ok /\ ~ShouldRetryCachedPolicyPrefetch(c, t)
  \/ EntryAge(c, t) >= CACHE_MAX_AGE

PrefetchTooEarly(c, t) ==
  LET sel == SelectCachedPolicy(c, t)
  IN  sel.ok /\ (sel.policy = "" \/ sel.ttl > PREFETCH_INTERVAL)

PrefetchDiscard ==
  /\ worker.pc = "decide" /\ PrefetchHopeless(worker.base, now)
  /\ entry' = StatsOnly
  /\ worker' = [IdleWorker EXCEPT !.pc = "unschedule"]
  /\ UNCHANGED <<now, conn, flight, schedule, tidy, purging, ghosts>>

PrefetchUnschedule ==
  /\ worker.pc = "unschedule"
  /\ UnscheduleCachedPolicyPrefetch
  /\ worker' = IdleWorker
  /\ UNCHANGED <<now, entry, conn, flight, tidy, purging, ghosts>>

PrefetchPostpone ==
  /\ worker.pc = "decide"
  /\ ~PrefetchHopeless(worker.base, now) /\ PrefetchTooEarly(worker.base, now)
  /\ ScheduleCachedPolicyPrefetch(worker.base, now, failure)
  /\ worker' = IdleWorker
  /\ UNCHANGED <<now, entry, conn, flight, tidy, purging, ghosts>>

PrefetchBegin ==
  /\ worker.pc = "decide"
  /\ ~PrefetchHopeless(worker.base, now) /\ ~PrefetchTooEarly(worker.base, now)
  /\ worker' = [worker EXCEPT !.pc = "lookup", !.at = now]
  /\ UNCHANGED <<now, entry, conn, flight, schedule, tidy, purging, ghosts>>

(* The lookups of a refresh, and the entry stored for them.  "none" is a   *)
(* ghost: the MTA-STS policy was fetched, says mode: none and has a        *)
(* lifetime.                                                               *)
PrefetchLookup(daneOutcome, mtaStsOutcome) ==
  \E jitter \in 0 .. EXPIRY_JITTER :
    LET c == worker.base
        r == QueryDomainBranches(c, worker.at, PREFETCH_INTERVAL, daneOutcome, mtaStsOutcome)
        attempted == r.daneAttempted \/ r.mtaStsAttempted
        merged == MergeCacheResult(c, r, now, jitter)
        selected == SelectCachedPolicy(merged, now).ok
        pc == CASE attempted /\ selected /\ ~DaneFailed(r) /\ ~MtaStsFailed(r) -> "renewed"
                [] ~attempted /\ SelectCachedPolicy(c, now).ok -> "missed"
                [] OTHER -> "failed"
    IN  /\ worker.pc = "lookup"
        /\ entry' = IF attempted THEN merged ELSE entry
        /\ worker' = [pc |-> pc, base |-> IF attempted /\ selected THEN merged ELSE c,
                      at |-> 0, res |-> r,
                      none |-> /\ r.mtaStsAttempted /\ mtaStsOutcome.fetched
                               /\ mtaStsOutcome.policy = "" /\ mtaStsOutcome.ttl # 0]
        /\ Witnessed(r)
        /\ UNCHANGED <<now, conn, flight, schedule, tidy, purging>>

PrefetchRenewed ==
  /\ worker.pc = "renewed"
  /\ ScheduleCachedPolicyPrefetch(worker.base, now, NoFailure)
  /\ worker' = IdleWorker
  /\ UNCHANGED <<now, entry, conn, flight, tidy, purging, ghosts>>

(* Nothing was looked up, and the entry is still good.                     *)
NextPrefetchTimeAfterMiss(c, t) ==
  LET sel == SelectCachedPolicy(c, t)
  IN  IF sel.policy = "" /\ ~HadPolicyWithin(c, t, POLICY_BRANCH_RECHECK) THEN {}
      ELSE BatchAtOrAfter(t + sel.ttl)

PrefetchMissed ==
  LET times == NextPrefetchTimeAfterMiss(worker.base, now)
  IN  /\ worker.pc = "missed"
      /\ \/ due' \in times /\ failure' = NoFailure
         \/ times = {} /\ ScheduleCachedPolicyPrefetch(worker.base, now, NoFailure)
      /\ worker' = IdleWorker
      /\ UNCHANGED <<now, entry, conn, flight, tidy, purging, ghosts>>

(* scheduleFailedPolicyPrefetch: another attempt, or the end of the retry  *)
(* window and with it of the branch that could not be refreshed.           *)
PrefetchRetry ==
  /\ worker.pc = "failed"
  /\ ScheduleRetryUntil(now, FailedPolicyGraceDeadline(worker.base, worker.res))
  /\ worker' = IdleWorker
  /\ UNCHANGED <<now, entry, conn, flight, tidy, purging, ghosts>>

PrefetchGiveUp ==
  /\ worker.pc = "failed"
  /\ now >= RetryDeadline(now, FailedPolicyGraceDeadline(worker.base, worker.res))
  /\ UnscheduleCachedPolicyPrefetch
  /\ worker' = [worker EXCEPT !.pc = "drop"]
  /\ UNCHANGED <<now, entry, conn, flight, tidy, purging, ghosts>>

PrefetchDrop ==
  \E jitter \in 0 .. EXPIRY_JITTER :
    LET updated == CacheAfterFailedBranchDiscard(worker.base, worker.res, now, jitter)
    IN  /\ worker.pc = "drop"
        /\ entry' = updated
        /\ worker' = IF updated = StatsOnly THEN IdleWorker
                     ELSE [IdleWorker EXCEPT !.pc = "dropped", !.base = updated]
        /\ UNCHANGED <<now, conn, flight, schedule, tidy, purging, ghosts>>

(* The branch that is left holds a policy, so there is a due time.         *)
PrefetchDropped ==
  /\ worker.pc = "dropped"
  /\ due' \in NextPrefetchTime(worker.base, now)
  /\ worker' = IdleWorker
  /\ UNCHANGED <<now, entry, conn, flight, failure, tidy, purging, ghosts>>

---------------------------------------------------------------------------
(* tidyCache: the entry it judges is the one it listed, the one it removes *)
(* must still be that one.                                                 *)
TidyItems ==
  /\ "tidy" \in Housekeeping
  /\ tidy.pc = "idle" /\ entry.found
  /\ tidy' = [pc |-> "judge", base |-> entry]
  /\ UNCHANGED <<now, entry, conn, flight, schedule, worker, purging, ghosts>>

Removable(c, t) ==
  /\ ~PolicyStateEmpty(c)
  /\ \/ NoPolicyOnly(c) /\ EntryRemainingTTL(c, t) = 0
     \/ EntryAge(c, t) >= CACHE_MAX_AGE

TidyKeep ==
  /\ tidy.pc = "judge" /\ ~Removable(tidy.base, now)
  /\ tidy' = [tidy EXCEPT !.pc = "schedule"]
  /\ UNCHANGED <<now, entry, conn, flight, schedule, worker, purging, ghosts>>

IsPresent(c) == entry.found             \* mutant: any entry will do

IsCurrent(c) == entry = c

TidyDiscard ==
  /\ tidy.pc = "judge" /\ Removable(tidy.base, now)
  /\ IsCurrent(tidy.base)
  /\ entry' = StatsOnly
  /\ tidy' = [IdleTidy EXCEPT !.pc = "unschedule"]
  /\ UNCHANGED <<now, conn, flight, schedule, worker, purging, ghosts>>

TidyReplaced ==
  /\ tidy.pc = "judge" /\ Removable(tidy.base, now)
  /\ ~IsCurrent(tidy.base)
  /\ tidy' = IF entry.found THEN [pc |-> "schedule", base |-> entry] ELSE IdleTidy
  /\ UNCHANGED <<now, entry, conn, flight, schedule, worker, purging, ghosts>>

TidyUnschedule ==
  /\ tidy.pc = "unschedule"
  /\ UnscheduleCachedPolicyPrefetch
  /\ tidy' = IdleTidy
  /\ UNCHANGED <<now, entry, conn, flight, worker, purging, ghosts>>

TidySchedule ==
  /\ tidy.pc = "schedule"
  /\ ScheduleCachedPolicyPrefetch(tidy.base, now, failure)
  /\ tidy' = IdleTidy
  /\ UNCHANGED <<now, entry, conn, flight, worker, purging, ghosts>>

(* purgeCache.                                                             *)
Purge ==
  /\ "purge" \in Housekeeping
  /\ ~purging
  /\ entry' = NoEntry
  /\ purging' = TRUE
  /\ UNCHANGED <<now, conn, flight, schedule, worker, tidy, ghosts>>

ClearPrefetchSchedule ==
  /\ purging
  /\ UnscheduleCachedPolicyPrefetch
  /\ purging' = FALSE
  /\ UNCHANGED <<now, entry, conn, flight, worker, tidy, ghosts>>

---------------------------------------------------------------------------
ConnStep(c) ==
  \/ HitDelivered(c) \/ RefreshDomain(c) \/ ReplySocketmap(c) \/ ScheduleResult(c)

Lookup == \E d \in DaneOutcomes, m \in MtaStsOutcomes : FlightEnd(d, m)

PrefetchStep ==
  \/ PopDue \/ PrefetchGet \/ PrefetchDiscard \/ PrefetchUnschedule
  \/ PrefetchPostpone \/ PrefetchBegin
  \/ \E d \in DaneOutcomes, m \in MtaStsOutcomes : PrefetchLookup(d, m)
  \/ PrefetchRenewed \/ PrefetchMissed \/ PrefetchRetry
  \/ PrefetchGiveUp \/ PrefetchDrop \/ PrefetchDropped

TidyStep ==
  \/ TidyItems \/ TidyKeep \/ TidyDiscard \/ TidyReplaced \/ TidyUnschedule \/ TidySchedule

Next ==
  \/ Tick
  \/ \E c \in Conns : TryCachedPolicy(c) \/ ConnStep(c)
  \/ Lookup
  \/ PrefetchStep
  \/ TidyStep
  \/ Purge \/ ClearPrefetchSchedule

Spec == Init /\ [][Next]_vars

---------------------------------------------------------------------------
(* Every variable keeps its type, and the schedule stays empty when        *)
(* prefetching is off (activePrefetchScheduler is nil).                    *)
TypeOK ==
  /\ now \in Nat \ {0}
  /\ entry \in Entries
  /\ conn \in [Conns -> ConnStates]
  /\ flight \in FlightStates
  /\ due \in Nat
  /\ failure \in Failures
  /\ worker \in WorkerStates
  /\ tidy \in TidyStates
  /\ purging \in BOOLEAN /\ absent \in BOOLEAN /\ firstFailure \in Nat
  /\ OffWhenDisabled

Stores(c) ==
  conn[c].pc = "reply" /\ conn'[c].pc # "reply" /\ WorthStoring(conn[c].base, conn[c].res)

Answering(c) == conn[c].pc \in {"hit", "reply"}

(* No client is told anything but a DANE policy or a temporary failure     *)
(* unless some DANE lookup of the domain has found that there is none: a   *)
(* temporary DANE failure never downgrades to MTA-STS or to no policy,     *)
(* whichever of selectCachedPolicy and queryDomainBranches answers and     *)
(* whatever entry a slower connection, tidyCache or PURGE left behind.     *)
DaneAbsenceProven ==
  \A c \in Conns : Answering(c) /\ conn[c].res.policy \in {"", "secure"} => absent

(* With prefetching, the same holds until as long after the first lookup   *)
(* that failed as scheduleRetryUntil goes on retrying.                     *)
DowngradeOnlyAfterRetries ==
  \A c \in Conns :
    Answering(c) /\ conn[c].res.policy \in {"", "secure"} /\ ~absent =>
      firstFailure # 0 /\ now >= firstFailure + PREFETCH_RETRY_MAX_AGE

(* A record of failed refreshes of a cached domain outlives neither its    *)
(* retry nor the prefetch that is going on: one left behind would start    *)
(* the retry window of the next failure in the past, and bring forward the *)
(* moment at which scheduleFailedPolicyPrefetch discards a policy.  (PURGE *)
(* empties the cache before it clears the schedule, and a connection       *)
(* stores its entry before it schedules it.)                               *)
FailuresAreRetried ==
  failure.first # 0 =>
    \/ due # 0 \/ worker.pc # "idle" \/ purging \/ ~entry.found
    \/ \E c \in Conns : conn[c].pc = "schedule"

(* tidyCache never discards an entry in which a branch is still valid,     *)
(* although it judges a copy that may have been replaced meanwhile         *)
(* (discardCachedPolicyStateIfCurrent).                                    *)
TidyDiscardsOnlyExpired ==
  [][tidy.pc = "judge" /\ tidy'.pc = "unschedule" => EntryRemainingTTL(entry, now) = 0]_vars

(* What a lone connection answered from the network is what the entry it   *)
(* then stores answers, if that entry answers anything: mergeCacheResult   *)
(* and selectCachedPolicy agree with queryDomainBranches.                  *)
StoredAgreesWithAnswer ==
  [][\A c \in Conns :
       Stores(c) =>
         LET sel == SelectCachedPolicy(entry', now)
         IN  sel.ok => sel.policy = conn[c].res.policy]_vars

(* A temporary failure of the MTA-STS lookup does not erase an unexpired   *)
(* cached MTA-STS policy when the connection stores its result.            *)
UnexpiredMtaStsKept ==
  [][\A c \in Conns :
       /\ Stores(c)
       /\ MtaStsFailed(conn[c].res)
       /\ entry.mtaSts.policy # "" /\ RemainingTTL(entry.mtaSts, now) # 0
       => entry'.mtaSts = entry.mtaSts]_vars

(* A prefetch that fetched a mode: none policy with a lifetime replaces    *)
(* the cached policy at once, however long that would still have been      *)
(* valid: queryDomainBranches takes only a failed fetch for unavailable.   *)
ModeNoneReplaces ==
  [][worker.pc = "lookup" /\ worker'.none => entry'.mtaSts.policy = ""]_vars

---------------------------------------------------------------------------
(* Lookups end by their context's timeout, writes by the deadline of the   *)
(* connection, and a goroutine that can run does.                          *)
Fairness == WF_vars(Lookup) /\ \A c \in Conns : WF_vars(ConnStep(c))

FairSpec == Spec /\ Fairness

(* Every query is answered, also one that joins a lookup another           *)
(* connection began, and whatever the other actors do to the entry.        *)
QueryAnswered ==
  \A c \in Conns : conn[c].pc = "miss" ~> conn[c].pc = "reply"
=============================================================================
