------------------------------ MODULE Prefetcher ------------------------------
(***************************************************************************)
(* The prefetch loop (startPrefetching, prefetchDuePoliciesContext) and    *)
(* everyone who touches its schedule: connections that store a result,     *)
(* tidyCache, PURGE and the workers of a batch.  The loop sleeps until the *)
(* earliest due time it has seen or until it is woken through a channel of *)
(* one slot; workers are bounded by a semaphore.                           *)
(*                                                                         *)
(* PolicyServer says what a refresh does to the entry of one domain.  Here *)
(* an entry is only worth refreshing or not (scheduleCachedPolicyPrefetch  *)
(* finds a due time, or removes the key), and what a lookup or a check of  *)
(* an entry says is left open.                                             *)
(***************************************************************************)
EXTENDS Integers, FiniteSets

CONSTANTS
  Keys,                         \* domains
  NoKey,                        \* none of them
  Conns,                        \* socketmap connections
  Capacity,                     \* cap(semaphore): runtime.NumCPU()*4+2
  Casts,                        \* which domains and users of the schedule there may be
  MaxTime                       \* bound on the clock

ASSUME PrefetcherAssumption ==
  /\ IsFiniteSet(Keys) /\ NoKey \notin Keys
  /\ Capacity \in Nat \ {0}
  /\ MaxTime \in Nat \ {0}
  /\ Casts \subseteq [keys : SUBSET Keys, users : SUBSET (Conns \cup {"tidy", "purge"})]

VARIABLES
  cast,                         \* the domains and the users of the schedule
  now,                          \* the clock
  cached,                       \* keys whose entry in polCache is worth refreshing
  active,                       \* activePrefetchScheduler is set
  due,                          \* scheduler.items and queue: due times, 0 when unscheduled
  wake,                         \* the slot of scheduler.wake is taken
  loop,                         \* startPrefetching: [pc, until, at, keys, key]
  worker,                       \* per key: the goroutine that refreshes it
  sem,                          \* len(semaphore)
  conn,                         \* per connection: [pc, key, worth]
  tidy,                         \* tidyCache: [pc, key, worth]
  purge,                        \* purgeCache
  cancelled,                    \* ctx.Done()
  lost                          \* ghost: keys taken out of the schedule when worth refreshing

callers == <<conn, tidy, purge>>
schedule == <<due, lost>>
vars == <<cast, now, cached, active, due, wake, loop, worker, sem, conn, tidy, purge,
          cancelled, lost>>

Horizon == MaxTime + 1          \* due times beyond the bound

LoopStates == [pc : {"publish", "list", "fill", "next", "decide", "idle", "timed", "pop", "each",
                     "discard", "unschedule", "postpone", "acquire", "drain", "done"},
               until : 0 .. Horizon, at : 0 .. MaxTime, keys : SUBSET Keys,
               key : Keys \cup {NoKey}]
WorkerStates == {"none", "lookup", "renewed", "empty", "failed", "drop", "notify", "release"}
CallerStates == [pc : {"idle", "query", "judge", "schedule", "unschedule", "notify"},
                 key : Keys \cup {NoKey}, worth : BOOLEAN]

At(pc) == [pc |-> pc, until |-> 0, at |-> 0, keys |-> {}, key |-> NoKey]
IdleCaller == [pc |-> "idle", key |-> NoKey, worth |-> FALSE]

---------------------------------------------------------------------------
(* The scheduler.  Each operation holds its mutex; schedule and clear go   *)
(* on to notify, remove and scheduleRetryUntil do not.                     *)
Scheduled == {k \in Keys : due[k] # 0}

ScheduleLocked(k, t) ==
  /\ due' = [due EXCEPT ![k] = t]
  /\ lost' = lost \ {k}

Remove(k) ==
  /\ due' = [due EXCEPT ![k] = 0]
  /\ lost' = lost \cup ({k} \cap cached)

Notify == wake' = TRUE

AfterScheduleQuietly(x) == IdleCaller    \* mutant: schedule does not notify

(* A caller that is done with the schedule and, if it has put a key in,    *)
(* goes on to notify.                                                      *)
AfterSchedule(x) ==
  IF active /\ x.worth THEN [IdleCaller EXCEPT !.pc = "notify"] ELSE IdleCaller

ScheduleCachedPolicyPrefetch(x) ==
  \/ active /\ x.worth /\ \E t \in now .. Horizon : ScheduleLocked(x.key, t)
  \/ active /\ ~x.worth /\ Remove(x.key)
  \/ ~active /\ UNCHANGED schedule

Running == {k \in Keys : worker[k] # "none"}

Init ==
  /\ now = 1
  /\ cast \in Casts
  /\ cached \in SUBSET cast.keys
  /\ active = FALSE
  /\ due = [k \in Keys |-> 0]
  /\ wake = FALSE
  /\ loop = At("publish")
  /\ worker = [k \in Keys |-> "none"]
  /\ sem = 0
  /\ conn = [c \in Conns |-> IdleCaller]
  /\ tidy = IdleCaller
  /\ purge = "idle"
  /\ cancelled = FALSE
  /\ lost = {}

Tick ==
  /\ now < MaxTime
  /\ now' = now + 1
  /\ UNCHANGED <<cast, cached, active, schedule, wake, loop, worker, sem, callers, cancelled>>

Cancel ==
  /\ ~cancelled
  /\ cancelled' = TRUE
  /\ UNCHANGED <<cast, now, cached, active, schedule, wake, loop, worker, sem, callers>>

---------------------------------------------------------------------------
(* startPrefetching publishes the scheduler, then schedules what the cache *)
(* holds.  The loop alone reads the wake channel, so that it schedules and *)
(* notifies itself in one step.                                            *)
Publish ==
  /\ loop.pc = "publish"
  /\ active' = TRUE
  /\ loop' = At("list")
  /\ UNCHANGED <<cast, now, cached, schedule, wake, worker, sem, callers, cancelled>>

ListItems ==
  /\ loop.pc = "list"
  /\ loop' = [At("fill") EXCEPT !.keys = cached]
  /\ UNCHANGED <<cast, now, cached, active, schedule, wake, worker, sem, callers, cancelled>>

Fill ==
  /\ loop.pc = "fill" /\ loop.keys # {}
  /\ \E k \in loop.keys, t \in now .. Horizon :
       /\ ScheduleLocked(k, t)
       /\ loop' = [loop EXCEPT !.keys = @ \ {k}]
  /\ Notify
  /\ UNCHANGED <<cast, now, cached, active, worker, sem, callers, cancelled>>

Filled ==
  /\ loop.pc = "fill" /\ loop.keys = {}
  /\ loop' = At("next")
  /\ UNCHANGED <<cast, now, cached, active, schedule, wake, worker, sem, callers, cancelled>>

(* The head of the queue.                                                  *)
NextDue ==
  /\ loop.pc = "next"
  /\ \/ Scheduled = {} /\ loop' = At("decide")
     \/ \E k \in Scheduled :
          /\ \A j \in Scheduled : due[k] <= due[j]
          /\ loop' = [At("decide") EXCEPT !.until = due[k]]
  /\ UNCHANGED <<cast, now, cached, active, schedule, wake, worker, sem, callers, cancelled>>

Decide ==
  /\ loop.pc = "decide"
  /\ loop' = [loop EXCEPT !.pc = IF loop.until = 0 THEN "idle"
                                 ELSE IF loop.until > now THEN "timed" ELSE "pop"]
  /\ UNCHANGED <<cast, now, cached, active, schedule, wake, worker, sem, callers, cancelled>>

Woken ==
  /\ loop.pc \in {"idle", "timed"} /\ wake
  /\ wake' = FALSE
  /\ \/ ~(loop.pc = "timed" /\ cancelled) /\ loop' = At("next") /\ active' = active
     \/ loop.pc = "timed" /\ cancelled /\ loop' = At("done") /\ active' = FALSE
  /\ UNCHANGED <<cast, now, cached, schedule, worker, sem, callers, cancelled>>

TimerFires ==
  /\ loop.pc = "timed" /\ loop.until <= now
  /\ loop' = At(IF cancelled THEN "done" ELSE "next")
  /\ active' = (active /\ ~cancelled)
  /\ UNCHANGED <<cast, now, cached, schedule, wake, worker, sem, callers, cancelled>>

ReturnWhenIdle ==               \* mutant: the wait for a due time ignores the context
  /\ loop.pc = "idle" /\ cancelled
  /\ loop' = At("done")
  /\ active' = FALSE
  /\ UNCHANGED <<cast, now, cached, schedule, wake, worker, sem, callers, cancelled>>

Return ==
  /\ loop.pc \in {"idle", "timed"} /\ cancelled
  /\ loop' = At("done")
  /\ active' = FALSE
  /\ UNCHANGED <<cast, now, cached, schedule, wake, worker, sem, callers, cancelled>>

---------------------------------------------------------------------------
(* prefetchDuePoliciesContext.  The clock is read once, when the batch     *)
(* begins.                                                                 *)
PopDue ==
  LET popped == {k \in Scheduled : due[k] <= now}
  IN  /\ loop.pc = "pop"
      /\ due' = [k \in Keys |-> IF k \in popped THEN 0 ELSE due[k]]
      /\ lost' = lost
      /\ loop' = [At("each") EXCEPT !.at = now, !.keys = popped]
      /\ UNCHANGED <<cast, now, cached, active, wake, worker, sem, callers, cancelled>>

(* The entry of the next key is read, and decides what becomes of it.      *)
Check ==
  /\ loop.pc = "each" /\ ~cancelled
  /\ \E k \in loop.keys :
       \E pc \in IF k \in cached THEN {"discard", "postpone", "acquire"}
                 ELSE {"each", "discard", "unschedule"} :
         loop' = [loop EXCEPT !.pc = pc, !.keys = @ \ {k},
                              !.key = IF pc = "each" THEN NoKey ELSE k]
  /\ UNCHANGED <<cast, now, cached, active, schedule, wake, worker, sem, callers, cancelled>>

Discard ==
  /\ loop.pc = "discard"
  /\ cached' = cached \ {loop.key}
  /\ loop' = [loop EXCEPT !.pc = "unschedule"]
  /\ UNCHANGED <<cast, now, active, schedule, wake, worker, sem, callers, cancelled>>

(* Also scheduleCachedPolicyPrefetch for an entry without a policy.        *)
Unschedule ==
  /\ loop.pc = "unschedule"
  /\ Remove(loop.key)
  /\ loop' = [loop EXCEPT !.pc = "each", !.key = NoKey]
  /\ UNCHANGED <<cast, now, cached, active, wake, worker, sem, callers, cancelled>>

(* Too early: due later than the clock of the batch, which may be the past *)
(* by now.                                                                 *)
Postpone ==
  /\ loop.pc = "postpone"
  /\ \E t \in (loop.at + 1) .. Horizon : ScheduleLocked(loop.key, t)
  /\ Notify
  /\ loop' = [loop EXCEPT !.pc = "each", !.key = NoKey]
  /\ UNCHANGED <<cast, now, cached, active, worker, sem, callers, cancelled>>

AcquireAlways ==                \* mutant: the semaphore does not block
  /\ loop.pc = "acquire"
  /\ sem' = sem + 1
  /\ worker' = [worker EXCEPT ![loop.key] = "lookup"]
  /\ loop' = [loop EXCEPT !.pc = "each", !.key = NoKey]
  /\ UNCHANGED <<cast, now, cached, active, schedule, wake, callers, cancelled>>

Acquire ==
  /\ loop.pc = "acquire" /\ sem < Capacity
  /\ sem' = sem + 1
  /\ worker' = [worker EXCEPT ![loop.key] = "lookup"]
  /\ loop' = [loop EXCEPT !.pc = "each", !.key = NoKey]
  /\ UNCHANGED <<cast, now, cached, active, schedule, wake, callers, cancelled>>

(* A cancelled batch forgets the keys it has not come to.                  *)
Abandon ==
  /\ loop.pc \in {"each", "acquire"} /\ cancelled
  /\ loop' = At("drain")
  /\ UNCHANGED <<cast, now, cached, active, schedule, wake, worker, sem, callers, cancelled>>

BatchDone ==
  /\ loop.pc = "each" /\ loop.keys = {}
  /\ loop' = At("drain")
  /\ UNCHANGED <<cast, now, cached, active, schedule, wake, worker, sem, callers, cancelled>>

DrainWithoutWaiting ==          \* mutant: the batch returns without wg.Wait
  /\ loop.pc = "drain"
  /\ loop' = At("next")
  /\ UNCHANGED <<cast, now, cached, active, schedule, wake, worker, sem, callers, cancelled>>

(* wg.Wait.                                                                *)
Drained ==
  /\ loop.pc = "drain" /\ Running = {}
  /\ loop' = At("next")
  /\ UNCHANGED <<cast, now, cached, active, schedule, wake, worker, sem, callers, cancelled>>

---------------------------------------------------------------------------
(* The goroutine that refreshes a key.  It stores what the lookups say, if *)
(* they were made; the entry is then worth another refresh, or not, or the *)
(* lookups failed.                                                         *)
LookupEnd(k) ==
  /\ worker[k] = "lookup"
  /\ \/ /\ \E pc \in {"renewed", "failed"} : worker' = [worker EXCEPT ![k] = pc]
        /\ cached' \in {cached, cached \cup {k}}
     \/ /\ worker' = [worker EXCEPT ![k] = "empty"]
        /\ cached' = cached \ {k}
  /\ UNCHANGED <<cast, now, active, schedule, wake, loop, sem, callers, cancelled>>

WorkerSchedule(k) ==
  /\ worker[k] = "renewed"
  /\ \E t \in now .. Horizon : ScheduleLocked(k, t)
  /\ worker' = [worker EXCEPT ![k] = "notify"]
  /\ UNCHANGED <<cast, now, cached, active, wake, loop, sem, callers, cancelled>>

WorkerNotify(k) ==
  /\ worker[k] = "notify"
  /\ Notify
  /\ worker' = [worker EXCEPT ![k] = "release"]
  /\ UNCHANGED <<cast, now, cached, active, schedule, loop, sem, callers, cancelled>>

WorkerRemove(k) ==
  /\ worker[k] = "empty"
  /\ Remove(k)
  /\ worker' = [worker EXCEPT ![k] = "release"]
  /\ UNCHANGED <<cast, now, cached, active, wake, loop, sem, callers, cancelled>>

RetryForgotten(k) ==            \* mutant: the failure is counted, the key not rescheduled
  /\ worker[k] = "failed"
  /\ worker' = [worker EXCEPT ![k] = "release"]
  /\ UNCHANGED <<cast, now, cached, active, schedule, wake, loop, sem, callers, cancelled>>

(* scheduleFailedPolicyPrefetch: a retry, of which nobody is notified, or  *)
(* the end of the retries and of the branch that failed.                   *)
ScheduleRetryUntil(k) ==
  /\ worker[k] = "failed"
  /\ \E t \in (now + 1) .. Horizon : ScheduleLocked(k, t)
  /\ worker' = [worker EXCEPT ![k] = "release"]
  /\ UNCHANGED <<cast, now, cached, active, wake, loop, sem, callers, cancelled>>

GiveUp(k) ==
  /\ worker[k] = "failed"
  /\ Remove(k)
  /\ worker' = [worker EXCEPT ![k] = "drop"]
  /\ UNCHANGED <<cast, now, cached, active, wake, loop, sem, callers, cancelled>>

Drop(k) ==
  /\ worker[k] = "drop"
  /\ \/ /\ cached' = cached \ {k}
        /\ worker' = [worker EXCEPT ![k] = "release"]
     \/ /\ cached' = cached \cup {k}
        /\ worker' = [worker EXCEPT ![k] = "renewed"]
  /\ UNCHANGED <<cast, now, active, schedule, wake, loop, sem, callers, cancelled>>

ReleaseWithoutToken(k) ==       \* mutant: the token stays in the channel
  /\ worker[k] = "release"
  /\ worker' = [worker EXCEPT ![k] = "none"]
  /\ UNCHANGED <<cast, now, cached, active, schedule, wake, loop, sem, callers, cancelled>>

(* The deferred <-sem and wg.Done.                                         *)
Release(k) ==
  /\ worker[k] = "release"
  /\ sem' = sem - 1
  /\ worker' = [worker EXCEPT ![k] = "none"]
  /\ UNCHANGED <<cast, now, cached, active, schedule, wake, loop, callers, cancelled>>

---------------------------------------------------------------------------
(* A connection looks a domain up, stores the result, schedules it and     *)
(* notifies.  Nothing new is begun once the context is cancelled.          *)
BeginQuery(c) ==
  /\ c \in cast.users /\ ~cancelled
  /\ conn[c].pc = "idle"
  /\ conn' = [conn EXCEPT ![c] = [IdleCaller EXCEPT !.pc = "query"]]
  /\ UNCHANGED <<cast, now, cached, active, schedule, wake, loop, worker, sem, tidy, purge,
                 cancelled>>

Store(c) ==
  /\ conn[c].pc = "query"
  /\ \E k \in cast.keys, worth \in BOOLEAN :
       /\ cached' = IF worth THEN cached \cup {k} ELSE cached \ {k}
       /\ conn' = [conn EXCEPT ![c] = [pc |-> "schedule", key |-> k, worth |-> worth]]
  /\ UNCHANGED <<cast, now, active, schedule, wake, loop, worker, sem, tidy, purge,
                 cancelled>>

ConnSchedule(c) ==
  /\ conn[c].pc = "schedule"
  /\ ScheduleCachedPolicyPrefetch(conn[c])
  /\ conn' = [conn EXCEPT ![c] = AfterSchedule(conn[c])]
  /\ UNCHANGED <<cast, now, cached, active, wake, loop, worker, sem, tidy, purge,
                 cancelled>>

ConnNotify(c) ==
  /\ conn[c].pc = "notify"
  /\ Notify
  /\ conn' = [conn EXCEPT ![c] = IdleCaller]
  /\ UNCHANGED <<cast, now, cached, active, schedule, loop, worker, sem, tidy, purge,
                 cancelled>>

---------------------------------------------------------------------------
(* tidyCache, one entry of its list at a time: it goes by the entry it has *)
(* listed.  One that it would discard is discarded if it is still the      *)
(* stored one; otherwise the stored one is scheduled.                      *)
TidyItems(k) ==
  /\ "tidy" \in cast.users /\ k \in cast.keys /\ ~cancelled
  /\ tidy.pc = "idle"
  /\ tidy' = [pc |-> "judge", key |-> k, worth |-> k \in cached]
  /\ UNCHANGED <<cast, now, cached, active, schedule, wake, loop, worker, sem, conn, purge,
                 cancelled>>

TidyDiscard ==
  /\ tidy.pc = "judge" /\ tidy.worth = (tidy.key \in cached)
  /\ cached' = cached \ {tidy.key}
  /\ tidy' = [tidy EXCEPT !.pc = "unschedule"]
  /\ UNCHANGED <<cast, now, active, schedule, wake, loop, worker, sem, conn, purge,
                 cancelled>>

TidyReplaced ==
  /\ tidy.pc = "judge" /\ tidy.worth # (tidy.key \in cached)
  /\ tidy' = [tidy EXCEPT !.pc = "schedule", !.worth = ~@]
  /\ UNCHANGED <<cast, now, cached, active, schedule, wake, loop, worker, sem, conn, purge,
                 cancelled>>

TidyUnschedule ==
  /\ tidy.pc = "unschedule"
  /\ IF active THEN Remove(tidy.key) ELSE UNCHANGED schedule
  /\ tidy' = IdleCaller
  /\ UNCHANGED <<cast, now, cached, active, wake, loop, worker, sem, conn, purge,
                 cancelled>>

TidySchedule ==
  /\ tidy.pc \in {"judge", "schedule"}
  /\ ScheduleCachedPolicyPrefetch(tidy)
  /\ tidy' = AfterSchedule(tidy)
  /\ UNCHANGED <<cast, now, cached, active, wake, loop, worker, sem, conn, purge,
                 cancelled>>

TidyNotify ==
  /\ tidy.pc = "notify"
  /\ Notify
  /\ tidy' = IdleCaller
  /\ UNCHANGED <<cast, now, cached, active, schedule, loop, worker, sem, conn, purge,
                 cancelled>>

(* purgeCache.                                                             *)
Purge ==
  /\ "purge" \in cast.users /\ ~cancelled
  /\ purge = "idle"
  /\ cached' = {}
  /\ purge' = "clear"
  /\ UNCHANGED <<cast, now, active, schedule, wake, loop, worker, sem, conn, tidy,
                 cancelled>>

ClearPrefetchSchedule ==
  /\ purge = "clear"
  /\ due' = IF active THEN [k \in Keys |-> 0] ELSE due
  /\ lost' = IF active THEN lost \cup cached ELSE lost
  /\ purge' = IF active THEN "notify" ELSE "idle"
  /\ UNCHANGED <<cast, now, cached, active, wake, loop, worker, sem, conn, tidy,
                 cancelled>>

PurgeNotify ==
  /\ purge = "notify"
  /\ Notify
  /\ purge' = "idle"
  /\ UNCHANGED <<cast, now, cached, active, schedule, loop, worker, sem, conn, tidy,
                 cancelled>>

---------------------------------------------------------------------------
LoopStep ==
  \/ Publish \/ ListItems \/ Fill \/ Filled \/ NextDue \/ Decide \/ Woken \/ TimerFires
  \/ PopDue \/ Check \/ Discard \/ Unschedule \/ Postpone \/ Acquire \/ Abandon \/ BatchDone
  \/ Drained

WorkerStep(k) ==
  \/ LookupEnd(k) \/ WorkerSchedule(k) \/ WorkerNotify(k) \/ WorkerRemove(k)
  \/ ScheduleRetryUntil(k) \/ GiveUp(k) \/ Drop(k) \/ Release(k)

ConnStep(c) == Store(c) \/ ConnSchedule(c) \/ ConnNotify(c)

TidyStep ==
  \/ TidyDiscard \/ TidyReplaced \/ TidyUnschedule \/ TidySchedule \/ TidyNotify

PurgeStep == ClearPrefetchSchedule \/ PurgeNotify

Next ==
  \/ Tick \/ Cancel
  \/ LoopStep \/ Return
  \/ \E k \in Keys : WorkerStep(k)
  \/ \E c \in Conns : BeginQuery(c) \/ ConnStep(c)
  \/ (\E k \in Keys : TidyItems(k)) \/ TidyStep
  \/ Purge \/ PurgeStep

(* A goroutine that can run does, and lookups end by their context's       *)
(* timeout.  A select picks among its ready cases at random, so that one   *)
(* that is ready again and again is taken.                                 *)
Fairness ==
  /\ WF_vars(LoopStep) /\ SF_vars(Return)
  /\ \A k \in Keys : WF_vars(WorkerStep(k))
  /\ \A c \in Conns : WF_vars(ConnStep(c))
  /\ WF_vars(TidyStep) /\ WF_vars(PurgeStep)

Spec == Init /\ [][Next]_vars

FairSpec == Spec /\ Fairness

---------------------------------------------------------------------------
(* Every variable keeps its type; the semaphore is never over its          *)
(* capacity.                                                               *)
TypeOK ==
  /\ cast \in Casts /\ lost \subseteq Keys
  /\ now \in 1 .. MaxTime
  /\ cached \subseteq Keys
  /\ active \in BOOLEAN /\ wake \in BOOLEAN /\ cancelled \in BOOLEAN
  /\ due \in [Keys -> 0 .. Horizon]
  /\ loop \in LoopStates
  /\ worker \in [Keys -> WorkerStates]
  /\ sem \in 0 .. Capacity
  /\ conn \in [Conns -> CallerStates]
  /\ tidy \in CallerStates
  /\ purge \in {"idle", "clear", "notify"}

NotifierPending ==
  \/ \E c \in Conns : conn[c].pc = "notify"
  \/ tidy.pc = "notify" \/ purge = "notify"
  \/ \E k \in Keys : worker[k] = "notify"

(* The loop has read the earliest due time and sleeps on it, or is about   *)
(* to.                                                                     *)
Asleep == loop.pc \in {"decide", "idle", "timed"}

(* No wake-up is lost: while startPrefetching sleeps, nothing is due       *)
(* earlier than it will look, unless a token is in scheduler.wake or       *)
(* someone is on the way to put one there.  This is although notify drops  *)
(* its token when one is there already, and although scheduleRetryUntil    *)
(* never notifies: its callers have finished before the loop sleeps.       *)
NoLostWakeup ==
  Asleep /\ ~wake /\ ~NotifierPending =>
    \A k \in Scheduled : loop.until # 0 /\ loop.until <= due[k]

(* The tokens in the semaphore are those of the workers that run: none is  *)
(* leaked on any way out of a worker, none is taken out twice.             *)
TokensAccounted == sem = Cardinality(Running)

(* A key that is due is taken out by popDue, put off or removed, whatever  *)
(* the semaphore, the workers and the other users of the schedule do,      *)
(* unless the loop has ended.                                              *)
DueServed ==
  \A k \in Keys :
    due[k] # 0 /\ due[k] <= now ~> due[k] = 0 \/ due[k] > now \/ loop.pc = "done"

(* Cancelling the context ends the loop, in whatever state it is.          *)
CancelEndsLoop == cancelled ~> loop.pc = "done"

(* Who still has to schedule a key, or is about to drop it.                *)
InHand(k) ==
  \/ loop.pc \in {"publish", "list"} \/ k \in loop.keys \cup {loop.key}
  \/ worker[k] \in {"lookup", "renewed", "empty", "failed", "drop"}
  \/ \E c \in Conns : conn[c].pc = "schedule" /\ conn[c].key = k

(* A domain whose stored policy is worth refreshing is scheduled, or       *)
(* somebody has it in hand: it is not missed at startup, when connections  *)
(* store policies while startPrefetching lists the cache, and no way out   *)
(* of a batch or a worker forgets it.  It gets lost only when somebody     *)
(* unschedules it for an earlier entry (remove, clear), or at the end.     *)
NothingForgotten ==
  \A k \in cached : due[k] # 0 \/ InHand(k) \/ k \in lost \/ cancelled
=============================================================================
