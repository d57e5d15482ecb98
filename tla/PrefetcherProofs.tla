--------------------------- MODULE PrefetcherProofs ---------------------------
(***************************************************************************)
(* Proofs about Prefetcher, for any set of domains and connections, any    *)
(* capacity of the semaphore and any bound on the clock.                   *)
(***************************************************************************)
EXTENDS Prefetcher, FiniteSetTheorems, TLAPS

BatchPCs == {"each", "discard", "unschedule", "postpone", "acquire"}

(* Workers run only while a batch is under way, and no key the loop has    *)
(* still to deal with has one.                                             *)
BatchInv ==
  /\ loop.pc \notin BatchPCs \cup {"drain"} => Running = {}
  /\ loop.pc \notin BatchPCs \cup {"fill"} => loop.keys = {}
  /\ loop.pc \in BatchPCs \ {"each"} => loop.key \in Keys
  /\ loop.pc \notin BatchPCs \ {"each"} => loop.key = NoKey
  /\ loop.key \notin loop.keys
  /\ \A k \in loop.keys \cup ({loop.key} \ {NoKey}) : worker[k] = "none"

(* Callers in the middle of something have a key.                          *)
CallerInv ==
  /\ \A c \in Conns : conn[c].pc = "schedule" => conn[c].key \in Keys
  /\ tidy.pc \in {"judge", "schedule", "unschedule"} => tidy.key \in Keys

(* The scheduler is published from the start of the loop to its end.       *)
ActiveInv ==
  /\ loop.pc \notin {"publish", "done"} => active
  /\ loop.pc = "done" => cancelled

IInv ==
  /\ TypeOK /\ BatchInv /\ CallerInv /\ ActiveInv
  /\ NoLostWakeup /\ TokensAccounted /\ NothingForgotten

LEMMA InitInv == Init => IInv
<1> SUFFICES ASSUME Init PROVE IInv
  BY Zenon
<1> USE PrefetcherAssumption DEF Init, At, IdleCaller
<1>1. TypeOK
  <2>1. loop \in LoopStates
    BY DEF LoopStates, Horizon
  <2>2. conn \in [Conns -> CallerStates] /\ tidy \in CallerStates
    BY DEF CallerStates
  <2>3. active \in BOOLEAN /\ wake \in BOOLEAN /\ cancelled \in BOOLEAN
    BY Zenon
  <2>4. cached \subseteq Keys
    BY Zenon
  <2>5. due \in [Keys -> 0 .. Horizon] /\ worker \in [Keys -> WorkerStates]
    BY DEF WorkerStates, Horizon
  <2> QED
    BY <2>1, <2>2, <2>3, <2>4, <2>5 DEF TypeOK
<1>2. BatchInv
  BY DEF BatchInv, BatchPCs, Running
<1>3. CallerInv /\ ActiveInv
  BY Zenon DEF CallerInv, ActiveInv
<1>4. NoLostWakeup /\ NothingForgotten
  BY Zenon DEF NoLostWakeup, NothingForgotten, Asleep, InHand
<1>5. TokensAccounted
  <2>1. Running = {}
    BY Zenon DEF Running
  <2> QED
    BY <2>1, FS_EmptySet, Zenon DEF TokensAccounted
<1> QED
  BY <1>1, <1>2, <1>3, <1>4, <1>5, Zenon DEF IInv

LEMMA TypeStep ==
  ASSUME IInv, [Next]_vars
  PROVE  TypeOK'
<1> USE PrefetcherAssumption
<1>0. /\ TypeOK
      /\ loop.pc \in {"discard", "unschedule", "postpone", "acquire"} => loop.key \in Keys
      /\ \A c \in Conns : conn[c].pc = "schedule" => conn[c].key \in Keys
      /\ tidy.pc \in {"judge", "schedule", "unschedule"} => tidy.key \in Keys
      /\ \A k \in Keys : worker[k] # "none" => sem > 0
  <2>1. \A k \in Keys : worker[k] # "none" => sem > 0
    <3> SUFFICES ASSUME NEW k \in Keys, worker[k] # "none" PROVE sem > 0
      OBVIOUS
    <3>1. IsFiniteSet(Running)
      BY FS_Subset, Zenon DEF Running
    <3>2. Running # {}
      BY DEF Running
    <3>3. Cardinality(Running) # 0 /\ Cardinality(Running) \in Nat
      BY <3>1, <3>2, FS_EmptySet, FS_CardinalityType, Zenon
    <3> QED
      BY <3>3 DEF IInv, TokensAccounted
  <2> QED
    BY <2>1, Zenon DEF IInv, BatchInv, CallerInv, BatchPCs
<1>1. CASE Tick
  BY <1>0, <1>1
  DEF Tick, schedule, callers, TypeOK, LoopStates, WorkerStates, CallerStates,
    Horizon
<1>2. CASE Cancel
  BY <1>0, <1>2
  DEF Cancel, schedule, callers, TypeOK, LoopStates, WorkerStates,
    CallerStates, Horizon
<1>3. CASE Publish
  BY <1>0, <1>3
  DEF Publish, At, schedule, callers, TypeOK, LoopStates, WorkerStates,
    CallerStates, Horizon
<1>4. CASE ListItems
  BY <1>0, <1>4
  DEF ListItems, At, schedule, callers, TypeOK, LoopStates, WorkerStates,
    CallerStates, Horizon
<1>5. CASE Fill
  BY <1>0, <1>5
  DEF Fill, ScheduleLocked, Notify, callers, TypeOK, LoopStates, WorkerStates,
    CallerStates, Horizon
<1>6. CASE Filled
  BY <1>0, <1>6
  DEF Filled, At, schedule, callers, TypeOK, LoopStates, WorkerStates,
    CallerStates, Horizon
<1>7. CASE NextDue
  BY <1>0, <1>7
  DEF NextDue, At, Scheduled, schedule, callers, TypeOK, LoopStates,
    WorkerStates, CallerStates, Horizon
<1>8. CASE Decide
  BY <1>0, <1>8
  DEF Decide, schedule, callers, TypeOK, LoopStates, WorkerStates,
    CallerStates, Horizon
<1>9. CASE Woken
  <2>1. loop' \in LoopStates
    BY <1>0, <1>9 DEF Woken, At, LoopStates, Horizon, TypeOK
  <2>2. active' \in BOOLEAN
    BY <1>0, <1>9, ZenonT(60) DEF Woken, TypeOK
  <2> QED
    BY <1>0, <1>9, <2>1, <2>2, Zenon DEF Woken, TypeOK, schedule, callers
<1>10. CASE TimerFires
  BY <1>0, <1>10
  DEF TimerFires, At, schedule, callers, TypeOK, LoopStates, WorkerStates,
    CallerStates, Horizon
<1>11. CASE PopDue
  <2> DEFINE popped == {k \in Scheduled : due[k] <= now}
  <2>1. loop' = [pc |-> "each", until |-> 0, at |-> now, keys |-> popped, key |-> NoKey]
    BY <1>0, <1>11, ZenonT(60) DEF PopDue, At
  <2>2. popped \subseteq Keys /\ now \in 0 .. MaxTime
    BY <1>0 DEF Scheduled, TypeOK
  <2>3. loop' \in LoopStates
    BY <2>1, <2>2 DEF LoopStates, Horizon
  <2>4. due' \in [Keys -> 0 .. Horizon]
    BY <1>0, <1>11 DEF PopDue, TypeOK, Horizon
  <2> QED
    BY <1>0, <1>11, <2>3, <2>4, Zenon DEF PopDue, TypeOK, callers
<1>12. CASE Check
  <2>1. PICK k \in loop.keys, pc \in {"each", "discard", "unschedule", "postpone", "acquire"} :
          loop' = [loop EXCEPT !.pc = pc, !.keys = @ \ {k}, !.key = IF pc = "each" THEN NoKey ELSE k]
    BY <1>0, <1>12, ZenonT(60) DEF Check
  <2>2. k \in Keys
    BY <1>0, Zenon DEF TypeOK, LoopStates
  <2>3. loop' \in LoopStates
    BY <1>0, <2>1, <2>2, ZenonT(60) DEF LoopStates, TypeOK
  <2> QED
    BY <1>0, <1>12, <2>3 DEF Check, TypeOK, schedule, callers
<1>13. CASE Discard
  BY <1>0, <1>13
  DEF Discard, schedule, callers, TypeOK, LoopStates, WorkerStates,
    CallerStates, Horizon
<1>14. CASE Unschedule
  <2>1. loop' \in LoopStates
    BY <1>0, <1>14, Zenon DEF Unschedule, LoopStates, TypeOK
  <2>2. due' \in [Keys -> 0 .. Horizon] /\ lost' \subseteq Keys
    BY <1>0, <1>14 DEF Unschedule, Remove, Horizon, TypeOK
  <2> QED
    BY <1>0, <1>14, <2>1, <2>2 DEF Unschedule, TypeOK, callers
<1>15. CASE Postpone
  <2>1. loop' \in LoopStates
    BY <1>0, <1>15, Zenon DEF Postpone, LoopStates, TypeOK
  <2>2. due' \in [Keys -> 0 .. Horizon] /\ lost' \subseteq Keys
    BY <1>0, <1>15 DEF Postpone, ScheduleLocked, LoopStates, Horizon, TypeOK
  <2> QED
    BY <1>0, <1>15, <2>1, <2>2, ZenonT(60) DEF Postpone, TypeOK, Notify, callers
<1>16. CASE Acquire
  <2>1. loop' \in LoopStates
    BY <1>0, <1>16, ZenonT(60) DEF Acquire, LoopStates, TypeOK
  <2>2. worker' \in [Keys -> WorkerStates] /\ sem' \in 0 .. Capacity
    BY <1>0, <1>16 DEF Acquire, WorkerStates, TypeOK
  <2> QED
    BY <1>0, <1>16, <2>1, <2>2 DEF Acquire, TypeOK, schedule, callers
<1>17. CASE Abandon
  BY <1>0, <1>17
  DEF Abandon, At, schedule, callers, TypeOK, LoopStates, WorkerStates,
    CallerStates, Horizon
<1>18. CASE BatchDone
  BY <1>0, <1>18
  DEF BatchDone, At, schedule, callers, TypeOK, LoopStates, WorkerStates,
    CallerStates, Horizon
<1>19. CASE Drained
  BY <1>0, <1>19
  DEF Drained, At, schedule, callers, TypeOK, LoopStates, WorkerStates,
    CallerStates, Horizon
<1>20. CASE Return
  <2>1. loop' \in LoopStates
    BY <1>0, <1>20 DEF Return, At, LoopStates, Horizon, TypeOK
  <2>2. active' \in BOOLEAN
    BY <1>0, <1>20, ZenonT(60) DEF Return, TypeOK
  <2> QED
    BY <1>0, <1>20, <2>1, <2>2, Zenon DEF Return, TypeOK, schedule, callers
<1>21. ASSUME NEW k \in Keys, LookupEnd(k) PROVE TypeOK'
  BY <1>0, <1>21
  DEF LookupEnd, schedule, callers, TypeOK, LoopStates, WorkerStates,
    CallerStates, Horizon
<1>22. ASSUME NEW k \in Keys, WorkerSchedule(k) PROVE TypeOK'
  BY <1>0, <1>22
  DEF WorkerSchedule, ScheduleLocked, callers, TypeOK, LoopStates,
    WorkerStates, CallerStates, Horizon
<1>23. ASSUME NEW k \in Keys, WorkerNotify(k) PROVE TypeOK'
  BY <1>0, <1>23
  DEF WorkerNotify, Notify, schedule, callers, TypeOK, LoopStates,
    WorkerStates, CallerStates, Horizon
<1>24. ASSUME NEW k \in Keys, WorkerRemove(k) PROVE TypeOK'
  BY <1>0, <1>24
  DEF WorkerRemove, Remove, callers, TypeOK, LoopStates, WorkerStates,
    CallerStates, Horizon
<1>25. ASSUME NEW k \in Keys, ScheduleRetryUntil(k) PROVE TypeOK'
  BY <1>0, <1>25
  DEF ScheduleRetryUntil, ScheduleLocked, callers, TypeOK, LoopStates,
    WorkerStates, CallerStates, Horizon
<1>26. ASSUME NEW k \in Keys, GiveUp(k) PROVE TypeOK'
  BY <1>0, <1>26
  DEF GiveUp, Remove, callers, TypeOK, LoopStates, WorkerStates, CallerStates,
    Horizon
<1>27. ASSUME NEW k \in Keys, Drop(k) PROVE TypeOK'
  BY <1>0, <1>27
  DEF Drop, schedule, callers, TypeOK, LoopStates, WorkerStates, CallerStates,
    Horizon
<1>28. ASSUME NEW k \in Keys, Release(k) PROVE TypeOK'
  <2>1. worker' \in [Keys -> WorkerStates] /\ sem' \in 0 .. Capacity
    BY <1>0, <1>28 DEF Release, WorkerStates, TypeOK
  <2> QED
    BY <1>0, <1>28, <2>1, Zenon DEF Release, TypeOK, schedule, callers
<1>29. ASSUME NEW c \in Conns, BeginQuery(c) PROVE TypeOK'
  <2>1. conn' \in [Conns -> CallerStates]
    BY <1>0, <1>29, ZenonT(60) DEF BeginQuery, IdleCaller, CallerStates, TypeOK
  <2> QED
    BY <1>0, <1>29, <2>1, Zenon DEF BeginQuery, TypeOK, schedule
<1>30. ASSUME NEW c \in Conns, Store(c) PROVE TypeOK'
  BY <1>0, <1>30
  DEF Store, schedule, TypeOK, LoopStates, WorkerStates, CallerStates, Horizon
<1>31. ASSUME NEW c \in Conns, ConnSchedule(c) PROVE TypeOK'
  <2>1. conn' \in [Conns -> CallerStates]
    BY <1>0, <1>31, ZenonT(60)
    DEF ConnSchedule, AfterSchedule, IdleCaller, CallerStates, TypeOK
  <2>2. due' \in [Keys -> 0 .. Horizon] /\ lost' \subseteq Keys
    BY <1>0, <1>31
    DEF ConnSchedule, ScheduleCachedPolicyPrefetch, ScheduleLocked, Remove,
      schedule, Horizon, TypeOK
  <2> QED
    BY <1>0, <1>31, <2>1, <2>2 DEF ConnSchedule, TypeOK, schedule
<1>32. ASSUME NEW c \in Conns, ConnNotify(c) PROVE TypeOK'
  BY <1>0, <1>32
  DEF ConnNotify, IdleCaller, Notify, schedule, TypeOK, LoopStates,
    WorkerStates, CallerStates, Horizon
<1>33. CASE TidyDiscard
  BY <1>0, <1>33
  DEF TidyDiscard, schedule, TypeOK, LoopStates, WorkerStates, CallerStates,
    Horizon
<1>34. CASE TidyReplaced
  <2>1. tidy' \in CallerStates
    BY <1>0, <1>34, ZenonT(60) DEF TidyReplaced, CallerStates, TypeOK
  <2> QED
    BY <1>0, <1>34, <2>1, Zenon DEF TidyReplaced, TypeOK, schedule
<1>35. CASE TidyUnschedule
  BY <1>0, <1>35
  DEF TidyUnschedule, Remove, IdleCaller, schedule, TypeOK, LoopStates,
    WorkerStates, CallerStates, Horizon
<1>36. CASE TidySchedule
  <2>1. tidy' \in CallerStates
    BY <1>0, <1>36, ZenonT(60)
    DEF TidySchedule, AfterSchedule, IdleCaller, CallerStates, TypeOK
  <2>2. due' \in [Keys -> 0 .. Horizon] /\ lost' \subseteq Keys
    BY <1>0, <1>36
    DEF TidySchedule, ScheduleCachedPolicyPrefetch, ScheduleLocked, Remove,
      schedule, Horizon, TypeOK
  <2> QED
    BY <1>0, <1>36, <2>1, <2>2 DEF TidySchedule, TypeOK, schedule
<1>37. CASE TidyNotify
  BY <1>0, <1>37
  DEF TidyNotify, IdleCaller, Notify, schedule, TypeOK, LoopStates,
    WorkerStates, CallerStates, Horizon
<1>38. ASSUME NEW k \in Keys, TidyItems(k) PROVE TypeOK'
  BY <1>0, <1>38
  DEF TidyItems, schedule, TypeOK, LoopStates, WorkerStates, CallerStates,
    Horizon
<1>39. CASE Purge
  BY <1>0, <1>39
  DEF Purge, schedule, TypeOK, LoopStates, WorkerStates, CallerStates, Horizon
<1>40. CASE ClearPrefetchSchedule
  BY <1>0, <1>40
  DEF ClearPrefetchSchedule, TypeOK, LoopStates, WorkerStates, CallerStates,
    Horizon
<1>41. CASE PurgeNotify
  BY <1>0, <1>41
  DEF PurgeNotify, Notify, schedule, TypeOK, LoopStates, WorkerStates,
    CallerStates, Horizon
<1>42. CASE UNCHANGED vars
  BY <1>0, <1>42, Zenon DEF TypeOK, vars
<1> QED
  BY <1>1, <1>2, <1>3, <1>4, <1>5, <1>6, <1>7, <1>8, <1>9, <1>10, <1>11,
    <1>12, <1>13, <1>14, <1>15, <1>16, <1>17, <1>18, <1>19, <1>20, <1>21,
    <1>22, <1>23, <1>24, <1>25, <1>26, <1>27, <1>28, <1>29, <1>30, <1>31,
    <1>32, <1>33, <1>34, <1>35, <1>36, <1>37, <1>38, <1>39, <1>40, <1>41,
    <1>42, ZenonT(60)
  DEF Next, LoopStep, WorkerStep, ConnStep, TidyStep, PurgeStep
LEMMA BatchStep ==
  ASSUME IInv, [Next]_vars
  PROVE  BatchInv'
<1> USE PrefetcherAssumption
<1>0. BatchInv /\ loop \in LoopStates /\ worker \in [Keys -> WorkerStates] /\ cached \subseteq Keys
  BY Zenon DEF IInv, TypeOK
<1>1. CASE \/ Tick \/ Cancel \/ Purge \/ PurgeStep \/ TidyStep
           \/ \E k \in Keys : TidyItems(k)
           \/ \E c \in Conns : BeginQuery(c) \/ ConnStep(c)
           \/ UNCHANGED vars
  <2>1. UNCHANGED <<loop, worker>>
    BY <1>1, Zenon
    DEF Tick, Cancel, Purge, PurgeStep, ClearPrefetchSchedule, PurgeNotify,
      TidyStep, TidyDiscard, TidyReplaced, TidyUnschedule, TidySchedule,
      TidyNotify, TidyItems, BeginQuery, ConnStep, Store, ConnSchedule,
      ConnNotify, vars
  <2> QED
    BY <1>0, <2>1, Zenon DEF BatchInv, Running
<1>2. ASSUME NEW k \in Keys, WorkerStep(k) PROVE BatchInv'
  <2>1. worker[k] # "none" /\ UNCHANGED loop
    BY <1>2, Zenon
    DEF WorkerStep, LookupEnd, WorkerSchedule, WorkerNotify, WorkerRemove,
      ScheduleRetryUntil, GiveUp, Drop, Release
  <2>2. \A j \in Keys \ {k} : worker'[j] = worker[j]
    BY <1>0, <1>2, Zenon
    DEF WorkerStep, LookupEnd, WorkerSchedule, WorkerNotify, WorkerRemove,
      ScheduleRetryUntil, GiveUp, Drop, Release
  <2> QED
    BY <1>0, <2>1, <2>2, ZenonT(60) DEF BatchInv, Running, LoopStates
<1>3. CASE Publish
  BY <1>0, <1>3, Zenon DEF Publish, At, BatchInv, BatchPCs, Running
<1>4. CASE ListItems
  BY <1>0, <1>4, Zenon DEF ListItems, At, BatchInv, BatchPCs, Running
<1>5. CASE Fill
  BY <1>0, <1>5 DEF Fill, BatchInv, BatchPCs, Running
<1>6. CASE Filled
  BY <1>0, <1>6, Zenon DEF Filled, At, BatchInv, BatchPCs, Running
<1>7. CASE NextDue
  BY <1>0, <1>7 DEF NextDue, At, BatchInv, BatchPCs, Running
<1>8. CASE Decide
  BY <1>0, <1>8 DEF Decide, BatchInv, BatchPCs, Running
<1>9. CASE Woken
  BY <1>0, <1>9 DEF Woken, At, BatchInv, BatchPCs, Running
<1>10. CASE TimerFires
  BY <1>0, <1>10, Zenon DEF TimerFires, At, BatchInv, BatchPCs, Running
<1>11. CASE PopDue
  <2>1. loop'.pc = "each" /\ loop'.keys \subseteq Keys /\ loop'.key = NoKey /\ worker' = worker /\ Running = {}
    BY <1>0, <1>11, Zenon DEF PopDue, At, Scheduled, LoopStates, BatchInv, BatchPCs
  <2> QED
    BY <1>0, <2>1, Zenon DEF BatchInv, BatchPCs, Running, LoopStates
<1>12. CASE Check
  <2>1. PICK k \in loop.keys, pc \in BatchPCs :
          loop' = [loop EXCEPT !.pc = pc, !.keys = @ \ {k}, !.key = IF pc = "each" THEN NoKey ELSE k]
    BY <1>12, ZenonT(60) DEF Check, BatchPCs
  <2>2. loop.pc = "each" /\ worker' = worker /\ k \in Keys /\ worker[k] = "none"
    BY <1>0, <1>12 DEF Check, LoopStates, BatchInv
  <2>3. /\ loop'.pc = pc /\ loop'.keys = loop.keys \ {k}
        /\ loop'.key = IF pc = "each" THEN NoKey ELSE k
    BY <1>0, <2>1, Zenon DEF LoopStates
  <2> QED
    BY <1>0, <2>2, <2>3, Zenon DEF BatchInv, BatchPCs, LoopStates
<1>13. CASE Discard
  BY <1>0, <1>13 DEF Discard, BatchInv, BatchPCs, Running
<1>14. CASE Unschedule
  <2>1. loop.key \in Keys /\ loop'.pc = "each" /\ loop'.keys = loop.keys /\ loop'.key = NoKey /\ worker' = worker
    BY <1>0, <1>14, Zenon DEF Unschedule, LoopStates, BatchInv, BatchPCs
  <2> QED
    BY <1>0, <2>1, Zenon DEF BatchInv, BatchPCs, Running, LoopStates
<1>15. CASE Postpone
  <2>1. loop.key \in Keys /\ loop'.pc = "each" /\ loop'.keys = loop.keys /\ loop'.key = NoKey /\ worker' = worker
    BY <1>0, <1>15, Zenon DEF Postpone, LoopStates, BatchInv, BatchPCs
  <2> QED
    BY <1>0, <2>1 DEF BatchInv, BatchPCs, Running, LoopStates
<1>16. CASE Acquire
  <2>1. loop.key \in Keys /\ loop'.pc = "each" /\ loop'.keys = loop.keys /\ loop'.key = NoKey
        /\ worker' = [worker EXCEPT ![loop.key] = "lookup"]
    BY <1>0, <1>16, Zenon DEF Acquire, LoopStates, BatchInv, BatchPCs
  <2> QED
    BY <1>0, <2>1, Zenon DEF BatchInv, BatchPCs, Running, LoopStates
<1>17. CASE Abandon
  BY <1>0, <1>17, Zenon DEF Abandon, At, BatchInv, BatchPCs, Running
<1>18. CASE BatchDone
  BY <1>0, <1>18, Zenon DEF BatchDone, At, BatchInv, BatchPCs, Running
<1>19. CASE Drained
  BY <1>0, <1>19, Zenon DEF Drained, At, BatchInv, BatchPCs, Running
<1>20. CASE Return
  BY <1>0, <1>20, Zenon DEF Return, At, BatchInv, BatchPCs, Running
<1> QED
  BY <1>1, <1>2, <1>3, <1>4, <1>5, <1>6, <1>7, <1>8, <1>9, <1>10, <1>11,
    <1>12, <1>13, <1>14, <1>15, <1>16, <1>17, <1>18, <1>19, <1>20, Zenon
  DEF Next, LoopStep

LEMMA CallerStep ==
  ASSUME IInv, [Next]_vars
  PROVE  CallerInv'
<1>0. /\ CallerInv /\ conn \in [Conns -> CallerStates] /\ tidy \in CallerStates
      /\ cast.keys \subseteq Keys
  BY PrefetcherAssumption, Zenon DEF IInv, TypeOK
<1>1. CASE \/ Tick \/ Cancel \/ LoopStep \/ Return \/ Purge \/ PurgeStep
           \/ \E k \in Keys : WorkerStep(k)
           \/ UNCHANGED vars
  <2>1. UNCHANGED <<conn, tidy>>
    BY <1>1, Zenon
    DEF Tick, Cancel, LoopStep, Publish, ListItems, Fill, Filled, NextDue,
      Decide, Woken, TimerFires, PopDue, Check, Discard, Unschedule, Postpone,
      Acquire, Abandon, BatchDone, Drained, Return, WorkerStep, LookupEnd,
      WorkerSchedule, WorkerNotify, WorkerRemove, ScheduleRetryUntil, GiveUp,
      Drop, Release, Purge, ClearPrefetchSchedule, PurgeNotify, PurgeStep,
      callers, vars
  <2> QED
    BY <1>0, <2>1, Zenon DEF CallerInv
<1>2. ASSUME NEW c \in Conns, BeginQuery(c) \/ ConnStep(c) PROVE CallerInv'
  <2>1. UNCHANGED tidy /\ \A d \in Conns \ {c} : conn'[d] = conn[d]
    BY <1>0, <1>2, Zenon DEF BeginQuery, ConnStep, Store, ConnSchedule, ConnNotify
  <2>2. conn'[c].pc = "schedule" => conn'[c].key \in Keys
    BY <1>0, <1>2
    DEF BeginQuery, ConnStep, Store, ConnSchedule, ConnNotify, AfterSchedule,
      IdleCaller
  <2> QED
    BY <1>0, <2>1, <2>2, Zenon DEF CallerInv
<1>3. CASE TidyStep
  <2>1. UNCHANGED conn
    BY <1>3, Zenon
    DEF TidyStep, TidyDiscard, TidyReplaced, TidyUnschedule, TidySchedule,
      TidyNotify
  <2>2. \/ tidy' = IdleCaller \/ tidy' = [IdleCaller EXCEPT !.pc = "notify"]
        \/ tidy.pc = "judge" /\ tidy'.key = tidy.key
    BY <1>0, <1>3, Zenon
    DEF TidyStep, TidyDiscard, TidyReplaced, TidyUnschedule, TidySchedule,
      TidyNotify, AfterSchedule, CallerStates
  <2> QED
    BY <1>0, <2>1, <2>2 DEF CallerInv, IdleCaller
<1>4. ASSUME NEW k \in Keys, TidyItems(k) PROVE CallerInv'
  BY <1>0, <1>4 DEF TidyItems, CallerInv
<1> QED
  BY <1>1, <1>2, <1>3, <1>4, Zenon DEF Next

LEMMA ActiveStep ==
  ASSUME IInv, [Next]_vars
  PROVE  ActiveInv'
<1>0. ActiveInv /\ loop \in LoopStates
  BY DEF IInv, TypeOK
<1>1. CASE \/ Tick \/ Cancel \/ Purge \/ PurgeStep \/ TidyStep
           \/ \E k \in Keys : TidyItems(k)
           \/ \E c \in Conns : BeginQuery(c) \/ ConnStep(c)
           \/ UNCHANGED vars
  <2>1. UNCHANGED <<loop, active>> /\ (cancelled => cancelled')
    BY <1>1
    DEF Tick, Cancel, Purge, PurgeStep, ClearPrefetchSchedule, PurgeNotify,
      TidyStep, TidyDiscard, TidyReplaced, TidyUnschedule, TidySchedule,
      TidyNotify, TidyItems, BeginQuery, ConnStep, Store, ConnSchedule,
      ConnNotify, vars
  <2> QED
    BY <1>0, <2>1 DEF ActiveInv
<1>2. ASSUME NEW k \in Keys, WorkerStep(k) PROVE ActiveInv'
  <2>1. UNCHANGED <<loop, active, cancelled>>
    BY <1>2, Zenon
    DEF WorkerStep, LookupEnd, WorkerSchedule, WorkerNotify, WorkerRemove,
      ScheduleRetryUntil, GiveUp, Drop, Release
  <2> QED
    BY <1>0, <2>1, Zenon DEF ActiveInv
<1>3. CASE Woken \/ TimerFires \/ Return
  <2>1. loop.pc \notin {"publish", "done"} /\ UNCHANGED cancelled
    BY <1>3, Zenon DEF Woken, TimerFires, Return
  <2>2. \/ loop'.pc = "next" /\ (active' <=> active)
        \/ loop'.pc = "done" /\ cancelled
    <3>1. CASE Woken
      BY <3>1 DEF Woken, At
    <3>2. CASE TimerFires
      <4>1. CASE cancelled
        BY <3>2, <4>1, Zenon DEF TimerFires, At
      <4>2. CASE ~cancelled
        BY <3>2, <4>2, Zenon DEF TimerFires, At
      <4> QED
        BY <4>1, <4>2, Zenon
    <3>3. CASE Return
      BY <3>3 DEF Return, At
    <3> QED
      BY <1>3, <3>1, <3>2, <3>3, Zenon
  <2> QED
    BY <1>0, <2>1, <2>2, Zenon DEF ActiveInv
<1>4. CASE Publish
  BY <1>4 DEF Publish, At, ActiveInv
<1>5. CASE LoopStep /\ ~Publish /\ ~Woken /\ ~TimerFires
  <2>1. loop.pc \notin {"publish", "done"} /\ UNCHANGED <<active, cancelled>>
    BY <1>5, ZenonT(60)
    DEF LoopStep, ListItems, Fill, Filled, NextDue, Decide, PopDue, Check,
      Discard, Unschedule, Postpone, Acquire, Abandon, BatchDone, Drained
  <2>2. loop'.pc # "done"
    <3>1. CASE ListItems
      BY <3>1, Zenon DEF ListItems, At
    <3>2. CASE NextDue
      BY <3>2 DEF NextDue, At
    <3>3. CASE PopDue
      BY <3>3, Zenon DEF PopDue, At
    <3>4. CASE Filled \/ Abandon \/ BatchDone \/ Drained
      BY <3>4 DEF Filled, Abandon, BatchDone, Drained, At
    <3>5. CASE Fill \/ Decide \/ Check \/ Discard \/ Unschedule \/ Postpone \/ Acquire
      BY <1>0, <3>5, Zenon
      DEF Fill, Decide, Check, Discard, Unschedule, Postpone, Acquire, LoopStates
    <3> QED
      BY <1>5, <3>1, <3>2, <3>3, <3>4, <3>5, Zenon DEF LoopStep
  <2> QED
    BY <1>0, <2>1, <2>2 DEF ActiveInv
<1> QED
  BY <1>1, <1>2, <1>3, <1>4, <1>5 DEF Next, LoopStep

LEMMA TokensStep ==
  ASSUME IInv, [Next]_vars
  PROVE  TokensAccounted'
<1>0. /\ TokensAccounted /\ sem \in Nat /\ worker \in [Keys -> WorkerStates]
      /\ loop.pc = "acquire" => loop.key \in Keys /\ worker[loop.key] = "none"
  BY PrefetcherAssumption DEF IInv, TypeOK, BatchInv, BatchPCs
<1>1. IsFiniteSet(Running)
  BY PrefetcherAssumption, FS_Subset, Zenon DEF Running
<1>2. ASSUME UNCHANGED sem, Running' = Running PROVE TokensAccounted'
  BY <1>0, <1>2, Zenon DEF TokensAccounted
<1>3. CASE \/ Tick \/ Cancel \/ Purge \/ PurgeStep \/ TidyStep
           \/ \E k \in Keys : TidyItems(k)
           \/ \E c \in Conns : BeginQuery(c) \/ ConnStep(c)
           \/ UNCHANGED vars
  <2>1. UNCHANGED <<worker, sem>>
    BY <1>3, Zenon
    DEF Tick, Cancel, Purge, PurgeStep, ClearPrefetchSchedule, PurgeNotify,
      TidyStep, TidyDiscard, TidyReplaced, TidyUnschedule, TidySchedule,
      TidyNotify, TidyItems, BeginQuery, ConnStep, Store, ConnSchedule,
      ConnNotify, vars
  <2> QED
    BY <1>2, <2>1, Zenon DEF Running
<1>4. CASE (LoopStep \/ Return) /\ ~Acquire
  <2>1. UNCHANGED <<worker, sem>>
    BY <1>4, Zenon
    DEF LoopStep, Publish, ListItems, Fill, Filled, NextDue, Decide, Woken,
      TimerFires, PopDue, Check, Discard, Unschedule, Postpone, Abandon,
      BatchDone, Drained, Return
  <2> QED
    BY <1>2, <2>1 DEF Running
<1>5. CASE Acquire
  <2>1. Running' = Running \cup {loop.key} /\ loop.key \notin Running /\ sem' = sem + 1
    BY <1>0, <1>5 DEF Acquire, Running
  <2> QED
    BY <1>0, <1>1, <2>1, FS_AddElement, Zenon DEF TokensAccounted
<1>6. ASSUME NEW k \in Keys, WorkerStep(k), ~Release(k) PROVE TokensAccounted'
  <2>1. UNCHANGED sem /\ worker[k] # "none" /\ worker'[k] # "none"
        /\ \A j \in Keys \ {k} : worker'[j] = worker[j]
    BY <1>0, <1>6
    DEF WorkerStep, LookupEnd, WorkerSchedule, WorkerNotify, WorkerRemove,
      ScheduleRetryUntil, GiveUp, Drop
  <2> QED
    BY <1>2, <2>1 DEF Running
<1>7. ASSUME NEW k \in Keys, Release(k) PROVE TokensAccounted'
  <2>1. Running' = Running \ {k} /\ k \in Running /\ sem' = sem - 1
    BY <1>0, <1>7 DEF Release, Running
  <2> QED
    BY <1>0, <1>1, <2>1, FS_RemoveElement, Zenon DEF TokensAccounted
<1> QED
  BY <1>3, <1>4, <1>5, <1>6, <1>7, Zenon DEF Next

(* A step that leaves the loop alone, puts nothing into the schedule and   *)
(* takes no notifier away unless it notifies.                              *)
LEMMA QuietStep ==
  ASSUME NoLostWakeup, UNCHANGED loop, wake => wake', NotifierPending => NotifierPending' \/ wake',
         \A k \in Keys : due'[k] # 0 => due'[k] = due[k]
  PROVE  NoLostWakeup'
BY DEF NoLostWakeup, Asleep, Scheduled

LEMMA WakeupStep ==
  ASSUME IInv, [Next]_vars
  PROVE  NoLostWakeup'
<1>0. /\ NoLostWakeup /\ due \in [Keys -> 0 .. Horizon] /\ loop \in LoopStates
      /\ conn \in [Conns -> CallerStates] /\ tidy \in CallerStates
      /\ worker \in [Keys -> WorkerStates]
  BY DEF IInv, TypeOK
<1>1. CASE \/ Tick \/ Cancel \/ Purge \/ TidyDiscard \/ TidyReplaced
           \/ \E k \in Keys : TidyItems(k)
           \/ UNCHANGED vars
  <2>1. UNCHANGED <<loop, wake, due, conn, worker>> /\ (purge = "notify" => purge' = "notify")
        /\ (tidy.pc = "notify" => tidy'.pc = "notify")
    BY <1>0, <1>1
    DEF Tick, Cancel, Purge, TidyDiscard, TidyReplaced, TidyItems, schedule, callers, vars,
      CallerStates
  <2> QED
    BY <1>0, <2>1, QuietStep DEF NotifierPending
<1>2. ASSUME NEW c \in Conns, BeginQuery(c) \/ Store(c) PROVE NoLostWakeup'
  <2>1. UNCHANGED <<loop, wake, due, tidy, purge, worker>> /\ conn[c].pc # "notify"
        /\ \A d \in Conns \ {c} : conn'[d] = conn[d]
    BY <1>0, <1>2, Zenon DEF BeginQuery, Store, schedule
  <2> QED
    BY <1>0, <2>1, QuietStep, Zenon DEF NotifierPending
<1>3. ASSUME NEW c \in Conns, ConnSchedule(c) PROVE NoLostWakeup'
  <2>1. UNCHANGED <<loop, wake, tidy, purge, worker>> /\ conn[c].pc # "notify"
        /\ \A d \in Conns \ {c} : conn'[d] = conn[d]
    BY <1>0, <1>3, Zenon DEF ConnSchedule
  <2>2. CASE active /\ conn[c].worth
    <3>1. conn'[c].pc = "notify"
      BY <1>0, <1>3, <2>2, Zenon DEF ConnSchedule, AfterSchedule, IdleCaller
    <3> QED
      BY <3>1, Zenon DEF NoLostWakeup, NotifierPending
  <2>3. CASE ~(active /\ conn[c].worth)
    <3>1. \A k \in Keys : due'[k] # 0 => due'[k] = due[k]
      BY <1>0, <1>3, <2>3, Zenon DEF ConnSchedule, ScheduleCachedPolicyPrefetch, Remove, schedule
    <3> QED
      BY <1>0, <2>1, <3>1, QuietStep, Zenon DEF NotifierPending
  <2> QED
    BY <2>2, <2>3, Zenon
<1>4. CASE TidySchedule
  <2>1. UNCHANGED <<loop, wake, conn, purge, worker>> /\ tidy.pc # "notify"
    BY <1>4, Zenon DEF TidySchedule
  <2>2. CASE active /\ tidy.worth
    <3>1. tidy'.pc = "notify"
      BY <1>4, <2>2, Zenon DEF TidySchedule, AfterSchedule, IdleCaller
    <3> QED
      BY <3>1, Zenon DEF NoLostWakeup, NotifierPending
  <2>3. CASE ~(active /\ tidy.worth)
    <3>1. \A k \in Keys : due'[k] # 0 => due'[k] = due[k]
      BY <1>0, <1>4, <2>3, Zenon DEF TidySchedule, ScheduleCachedPolicyPrefetch, Remove, schedule
    <3> QED
      BY <1>0, <2>1, <3>1, QuietStep, Zenon DEF NotifierPending
  <2> QED
    BY <2>2, <2>3, Zenon
<1>5. CASE TidyUnschedule \/ ClearPrefetchSchedule
  <2>1. /\ UNCHANGED <<loop, wake, conn, worker>>
        /\ tidy.pc = "notify" => tidy'.pc = "notify"
        /\ purge = "notify" => purge' = "notify"
        /\ \A k \in Keys : due'[k] # 0 => due'[k] = due[k]
    BY <1>0, <1>5, Zenon DEF TidyUnschedule, ClearPrefetchSchedule, Remove, schedule
  <2> QED
    BY <1>0, <2>1, QuietStep, Zenon DEF NotifierPending
<1>6. CASE PurgeNotify \/ TidyNotify \/ \E c \in Conns : ConnNotify(c)
  BY <1>6, Zenon DEF PurgeNotify, TidyNotify, ConnNotify, Notify, NoLostWakeup
<1>7. ASSUME NEW k \in Keys, WorkerStep(k) PROVE NoLostWakeup'
  <2>1. UNCHANGED loop /\ k \in Running
    BY <1>7, Zenon
    DEF WorkerStep, LookupEnd, WorkerSchedule, WorkerNotify, WorkerRemove,
      ScheduleRetryUntil, GiveUp, Drop, Release, Running
  <2>2. ~Asleep
    BY <2>1, Zenon DEF IInv, BatchInv, BatchPCs, Asleep
  <2> QED
    BY <2>1, <2>2, Zenon DEF NoLostWakeup, Asleep
<1>8. CASE NextDue
  <2>1. UNCHANGED due
    BY <1>8, Zenon DEF NextDue, schedule
  <2>2. CASE Scheduled = {}
    BY <2>1, <2>2, Zenon DEF NoLostWakeup, Scheduled
  <2>3. CASE Scheduled # {}
    <3>1. PICK k \in Scheduled : /\ \A j \in Scheduled : due[k] <= due[j]
                                 /\ loop' = [At("decide") EXCEPT !.until = due[k]]
      BY <1>8, <2>3, Zenon DEF NextDue
    <3>2. loop'.until = due[k] /\ due[k] # 0
      BY <3>1, Zenon DEF At, Scheduled
    <3> QED
      BY <2>1, <3>1, <3>2, Zenon DEF NoLostWakeup, Scheduled
  <2> QED
    BY <2>2, <2>3, Zenon
<1>9. CASE Decide
  <2>1. UNCHANGED <<due, wake, conn, tidy, purge, worker>> /\ Asleep /\ loop'.until = loop.until
    BY <1>0, <1>9, Zenon DEF Decide, schedule, callers, Asleep, LoopStates
  <2> QED
    BY <1>0, <2>1, Zenon DEF NoLostWakeup, NotifierPending, Scheduled
<1>10. CASE (LoopStep \/ Return) /\ ~NextDue /\ ~Decide
  <2>1. loop'.pc \notin {"decide", "idle", "timed"}
    <3>1. CASE ListItems
      BY <3>1, Zenon DEF ListItems, At
    <3>2. CASE PopDue
      BY <3>2, Zenon DEF PopDue, At
    <3>3. CASE \/ Publish \/ Filled \/ Woken \/ TimerFires \/ Return \/ Abandon \/ BatchDone
               \/ Drained
      BY <3>3 DEF Publish, Filled, Woken, TimerFires, Return, Abandon, BatchDone, Drained, At
    <3>4. CASE Fill \/ Check \/ Discard \/ Unschedule \/ Postpone \/ Acquire
      BY <1>0, <3>4, ZenonT(60) DEF Fill, Check, Discard, Unschedule, Postpone, Acquire, LoopStates
    <3> QED
      BY <1>10, <3>1, <3>2, <3>3, <3>4, Zenon DEF LoopStep
  <2> QED
    BY <2>1, Zenon DEF NoLostWakeup, Asleep
<1> QED
  BY <1>1, <1>2, <1>3, <1>4, <1>5, <1>6, <1>7, <1>8, <1>9, <1>10
  DEF Next, ConnStep, TidyStep, PurgeStep

(* A step after which whoever had the key in hand still has it, or it is   *)
(* scheduled or known to be lost.                                          *)
Kept(k) == due[k] # 0 \/ InHand(k) \/ k \in lost \/ cancelled

LEMMA ForgottenStep ==
  ASSUME IInv, [Next]_vars
  PROVE  NothingForgotten'
<1>0. /\ \A k \in cached : Kept(k)
      /\ cached \subseteq Keys /\ due \in [Keys -> 0 .. Horizon] /\ loop \in LoopStates
      /\ conn \in [Conns -> CallerStates] /\ tidy \in CallerStates
      /\ worker \in [Keys -> WorkerStates] /\ now \in Nat \ {0} /\ NoKey \notin Keys
      /\ BatchInv /\ CallerInv /\ ActiveInv
  BY PrefetcherAssumption DEF IInv, TypeOK, NothingForgotten, Kept
<1> SUFFICES ASSUME NEW k \in cached' PROVE Kept(k)'
  BY Zenon DEF NothingForgotten, Kept
<1>1. CASE \/ Tick \/ Cancel \/ Purge \/ PurgeNotify \/ TidyDiscard \/ TidyReplaced \/ TidyNotify
           \/ \E j \in Keys : TidyItems(j)
           \/ UNCHANGED vars
  <2>1. k \in cached /\ UNCHANGED <<due, lost, loop, worker, conn>> /\ (cancelled => cancelled')
    BY <1>1
    DEF Tick, Cancel, Purge, PurgeNotify, TidyDiscard, TidyReplaced, TidyNotify, TidyItems,
      schedule, callers, vars
  <2> QED
    BY <1>0, <2>1, Zenon DEF Kept, InHand
<1>2. ASSUME NEW c \in Conns, BeginQuery(c) \/ Store(c) \/ ConnNotify(c) PROVE Kept(k)'
  <2>1. /\ UNCHANGED <<due, lost, loop, worker, cancelled>> /\ conn[c].pc # "schedule"
        /\ \A d \in Conns \ {c} : conn'[d] = conn[d]
        /\ k \notin cached => conn'[c].pc = "schedule" /\ conn'[c].key = k
    BY <1>0, <1>2 DEF BeginQuery, Store, ConnNotify, schedule
  <2> QED
    BY <1>0, <2>1, Zenon DEF Kept, InHand
<1>3. ASSUME NEW x \in CallerStates, x.key \in Keys, ScheduleCachedPolicyPrefetch(x),
             UNCHANGED <<loop, worker, cancelled, cached>>,
             \A c \in Conns : \/ conn'[c] = conn[c]
                              \/ conn[c] = x
      PROVE  Kept(k)'
  <2>1. CASE ~active
    <3>1. loop.pc \in {"publish", "done"}
      BY <1>0, <2>1, Zenon DEF ActiveInv
    <3> QED
      BY <1>0, <1>3, <3>1, Zenon DEF Kept, InHand, ActiveInv
  <2>2. CASE active /\ k = x.key
    <3>1. due'[k] # 0 \/ k \in lost'
      BY <1>0, <1>3, <2>2 DEF ScheduleCachedPolicyPrefetch, ScheduleLocked, Remove, Horizon
    <3> QED
      BY <3>1, Zenon DEF Kept
  <2>3. CASE active /\ k # x.key
    <3>1. due'[k] = due[k] /\ (k \in lost => k \in lost')
      BY <1>0, <1>3, <2>3, Zenon DEF ScheduleCachedPolicyPrefetch, ScheduleLocked, Remove
    <3> QED
      BY <1>0, <1>3, <2>3, <3>1, Zenon DEF Kept, InHand
  <2> QED
    BY <2>1, <2>2, <2>3, Zenon
<1>4. ASSUME NEW c \in Conns, ConnSchedule(c) PROVE Kept(k)'
  <2>1. conn[c].key \in Keys /\ conn[c] \in CallerStates
    BY <1>0, <1>4, Zenon DEF ConnSchedule, CallerInv
  <2>2. \A d \in Conns : conn'[d] = conn[d] \/ conn[d] = conn[c]
    BY <1>0, <1>4, Zenon DEF ConnSchedule
  <2> QED
    BY <1>3, <1>4, <2>1, <2>2, Zenon DEF ConnSchedule
<1>5. CASE TidySchedule
  BY <1>0, <1>3, <1>5, Zenon DEF TidySchedule, CallerInv
<1>6. CASE TidyUnschedule \/ ClearPrefetchSchedule
  <2>1. /\ UNCHANGED <<loop, worker, conn, cached, cancelled>>
        /\ \/ UNCHANGED <<due, lost>>
           \/ k \in lost'
           \/ due'[k] = due[k] /\ (k \in lost => k \in lost')
    BY <1>0, <1>6, Zenon DEF TidyUnschedule, ClearPrefetchSchedule, Remove, schedule
  <2> QED
    BY <1>0, <2>1, Zenon DEF Kept, InHand
<1>7. ASSUME NEW j \in Keys, WorkerStep(j) PROVE Kept(k)'
  <2>0. UNCHANGED <<loop, conn, cancelled>>
    BY <1>7, Zenon
    DEF WorkerStep, LookupEnd, WorkerSchedule, WorkerNotify, WorkerRemove,
      ScheduleRetryUntil, GiveUp, Drop, Release, callers
  <2>1. CASE k # j
    <3>1. k \in cached /\ due'[k] = due[k] /\ (k \in lost => k \in lost')
          /\ worker'[k] = worker[k]
      BY <1>0, <1>7, <2>1, Zenon
      DEF WorkerStep, LookupEnd, WorkerSchedule, WorkerNotify, WorkerRemove,
        ScheduleRetryUntil, GiveUp, Drop, Release, ScheduleLocked, Remove,
        schedule
    <3> QED
      BY <1>0, <2>0, <3>1, Zenon DEF Kept, InHand
  <2>2. CASE k = j /\ (LookupEnd(j) \/ GiveUp(j) \/ Drop(j))
    <3>1. worker'[k] \in {"renewed", "empty", "failed", "drop"}
      BY <1>0, <2>2, Zenon DEF LookupEnd, GiveUp, Drop
    <3> QED
      BY <3>1, Zenon DEF Kept, InHand
  <2>3. CASE k = j /\ (WorkerSchedule(j) \/ ScheduleRetryUntil(j) \/ WorkerRemove(j))
    <3>1. due'[k] # 0 \/ k \in lost'
      BY <1>0, <2>3
      DEF WorkerSchedule, ScheduleRetryUntil, WorkerRemove, ScheduleLocked, Remove, Horizon
    <3> QED
      BY <3>1, Zenon DEF Kept
  <2>4. CASE k = j /\ (WorkerNotify(j) \/ Release(j))
    <3>1. UNCHANGED <<due, lost, cached>> /\ worker[k] \in {"notify", "release"}
      BY <2>4, Zenon DEF WorkerNotify, Release, schedule
    <3> QED
      BY <1>0, <2>0, <3>1, Zenon DEF Kept, InHand
  <2> QED
    BY <1>7, <2>1, <2>2, <2>3, <2>4, Zenon DEF WorkerStep
<1>8. CASE Publish \/ ListItems
  <2>1. loop'.pc = "list" \/ loop'.keys = cached'
    <3>1. CASE Publish
      BY <3>1, Zenon DEF Publish, At
    <3>2. CASE ListItems
      BY <3>2, Zenon DEF ListItems, At
    <3> QED
      BY <1>8, <3>1, <3>2, Zenon
  <2> QED
    BY <2>1, Zenon DEF Kept, InHand
<1>9. CASE Woken \/ TimerFires \/ Return \/ NextDue \/ Decide \/ Filled \/ BatchDone \/ Drained
  <2>1. /\ UNCHANGED <<due, lost, worker, conn, cached, cancelled>>
        /\ loop.pc \notin {"publish", "list"}
        /\ loop.pc \notin {"fill", "each"} \/ loop.keys = {}
        /\ loop.pc \notin BatchPCs \ {"each"}
    BY <1>9, Zenon
    DEF Woken, TimerFires, Return, NextDue, Decide, Filled, BatchDone, Drained, schedule, callers,
      BatchPCs
  <2>2. k \notin loop.keys \cup {loop.key}
    BY <1>0, <2>1, Zenon DEF BatchInv, BatchPCs
  <2> QED
    BY <1>0, <2>1, <2>2, Zenon DEF Kept, InHand
<1>10. CASE Abandon
  BY <1>10, Zenon DEF Abandon, Kept
<1>11. CASE PopDue
  <2>1. /\ UNCHANGED <<lost, worker, conn, cached, cancelled>> /\ loop.pc = "pop"
        /\ loop'.keys = {j \in Scheduled : due[j] <= now}
        /\ due' = [j \in Keys |-> IF j \in {i \in Scheduled : due[i] <= now} THEN 0 ELSE due[j]]
    BY <1>11, Zenon DEF PopDue, At, callers
  <2>2. k \notin loop.keys \cup {loop.key}
    BY <1>0, <2>1, Zenon DEF BatchInv, BatchPCs
  <2> QED
    BY <1>0, <2>1, <2>2, Zenon DEF Kept, InHand, Scheduled
<1>12. CASE Check
  <2>1. PICK j \in loop.keys :
          \E pc \in IF j \in cached THEN {"discard", "postpone", "acquire"}
                    ELSE {"each", "discard", "unschedule"} :
            loop' = [loop EXCEPT !.pc = pc, !.keys = @ \ {j}, !.key = IF pc = "each" THEN NoKey ELSE j]
    BY <1>12, Zenon DEF Check
  <2>2. UNCHANGED <<due, lost, worker, conn, cached, cancelled>> /\ loop.pc = "each"
    BY <1>12, Zenon DEF Check, schedule, callers
  <2>3. loop'.keys = loop.keys \ {j} /\ (j \in cached => loop'.key = j)
    BY <1>0, <2>1, Zenon DEF LoopStates
  <2>4. loop.key = NoKey
    BY <1>0, <2>2, Zenon DEF BatchInv, BatchPCs
  <2> QED
    BY <1>0, <2>2, <2>3, <2>4, Zenon DEF Kept, InHand
<1>13. CASE Fill
  <2>1. PICK j \in loop.keys, t \in now .. Horizon :
          ScheduleLocked(j, t) /\ loop' = [loop EXCEPT !.keys = @ \ {j}]
    BY <1>13, ZenonT(60) DEF Fill
  <2>2. UNCHANGED <<worker, conn, cached, cancelled>> /\ loop.pc = "fill"
    BY <1>13 DEF Fill, callers
  <2>3. /\ loop'.keys = loop.keys \ {j} /\ loop'.key = loop.key
        /\ IF k = j THEN due'[k] # 0 ELSE due'[k] = due[k] /\ (k \in lost => k \in lost')
    BY <1>0, <2>1 DEF LoopStates, ScheduleLocked, Horizon
  <2> QED
    BY <1>0, <2>2, <2>3, Zenon DEF Kept, InHand
<1>14. CASE Discard \/ Unschedule \/ Postpone \/ Acquire
  <2>1. /\ UNCHANGED <<conn, cancelled>> /\ loop'.keys = loop.keys
        /\ loop.pc \in {"discard", "unschedule", "postpone", "acquire"}
        /\ k \in cached /\ (Discard => k # loop.key)
    BY <1>0, <1>14, ZenonT(60) DEF Discard, Unschedule, Postpone, Acquire, callers, LoopStates
  <2>2. CASE k = loop.key
    <3>1. due'[k] # 0 \/ k \in lost' \/ worker'[k] = "lookup"
      BY <1>0, <1>14, <2>1, <2>2
      DEF Unschedule, Postpone, Acquire, ScheduleLocked, Remove, LoopStates, Horizon
    <3> QED
      BY <3>1 DEF Kept, InHand
  <2>3. CASE k # loop.key
    <3>1. due'[k] = due[k] /\ (k \in lost => k \in lost') /\ worker'[k] = worker[k]
      BY <1>0, <1>14, <2>1, <2>3
      DEF Discard, Unschedule, Postpone, Acquire, ScheduleLocked, Remove, schedule
    <3> QED
      BY <1>0, <2>1, <2>3, <3>1 DEF Kept, InHand
  <2> QED
    BY <2>2, <2>3
<1> QED
  BY <1>1, <1>2, <1>4, <1>5, <1>6, <1>7, <1>8, <1>9, <1>10, <1>11, <1>12, <1>13, <1>14, ZenonT(60)
  DEF Next, LoopStep, ConnStep, TidyStep, PurgeStep

LEMMA Invariance == Spec => []IInv
<1>1. IInv /\ [Next]_vars => IInv'
  <2> SUFFICES ASSUME IInv, [Next]_vars PROVE IInv'
    OBVIOUS
  <2> QED
    BY TypeStep, BatchStep, CallerStep, ActiveStep, WakeupStep, TokensStep, ForgottenStep, Zenon DEF IInv
<1> QED
  BY InitInv, <1>1, PTL DEF Spec

(* Every variable of the prefetcher keeps its type; in particular the      *)
(* semaphore's channel never holds more than its capacity.                 *)
THEOREM TypeCorrect == Spec => []TypeOK
<1>1. IInv => TypeOK
  BY Zenon DEF IInv
<1> QED
  BY Invariance, <1>1, PTL

(* startPrefetching never oversleeps: nothing is due earlier than it will  *)
(* look again, unless a token or a notifier is under way.                  *)
THEOREM NoLostWakeupAlways == Spec => []NoLostWakeup
<1>1. IInv => NoLostWakeup
  BY Zenon DEF IInv
<1> QED
  BY Invariance, <1>1, PTL

(* The semaphore of prefetchDuePoliciesContext holds one token per running *)
(* worker.                                                                 *)
THEOREM TokensAccountedAlways == Spec => []TokensAccounted
<1>1. IInv => TokensAccounted
  BY Zenon DEF IInv
<1> QED
  BY Invariance, <1>1, PTL

(* No domain worth refreshing falls out of the schedule except through     *)
(* remove and clear.                                                       *)
THEOREM NothingForgottenAlways == Spec => []NothingForgotten
<1>1. IInv => NothingForgotten
  BY DEF IInv
<1> QED
  BY Invariance, <1>1, PTL
=============================================================================
