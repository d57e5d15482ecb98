------------------------- MODULE PolicyServerProofs -------------------------
(***************************************************************************)
(* What a client is told and what is stored, for every set of connections, *)
(* every lifetime and every outcome of lookups: without prefetching no     *)
(* answer rests on anything but a DANE lookup, with it none gives DANE up  *)
(* before the retries are over; failures are retried, and what is stored   *)
(* agrees with what was answered.                                          *)
(***************************************************************************)
EXTENDS PolicyServer, TLAPS

DaneOutcome(o) == o.policy \in InDane \cup {"TEMP"} /\ o.ttl \in Nat

MtaStsOutcome(o) == o.policy \in InMtaSts \cup {"TEMP"} /\ o.ttl \in Nat

(* The result says that a lookup found no DANE policy.                     *)
FoundAbsent(r) == HasLive(r.dane) /\ r.dane.policy = ""

---------------------------------------------------------------------------
(* The operators of PolicyBranches keep to their types.                    *)

(* nil, and an entry reduced to its counter, are entries.                  *)
LEMMA NoEntryType == NoEntry \in Entries /\ StatsOnly \in Entries
BY Zenon DEF NoEntry, StatsOnly, Entries, NoBranch, InDane, InMtaSts, Policies, DanePolicies

(* branchFromResult yields a DANE branch.                                  *)
LEMMA DaneBranchType ==
  ASSUME NEW o, DaneOutcome(o)
  PROVE  BranchFromResult(o) \in [policy : InDane, ttl : Nat]
BY BranchAssumption, Zenon DEF DaneOutcome, BranchFromResult, NoLive, AtMostMaxTTL, Larger, Smaller,
   DefaultTTL, InDane, DanePolicies

(* mtaStsBranchFromResult yields an MTA-STS branch.                        *)
LEMMA MtaStsBranchType ==
  ASSUME NEW o, MtaStsOutcome(o)
  PROVE  MtaStsBranchFromResult(o) \in [policy : InMtaSts, ttl : Nat]
BY BranchAssumption, Zenon DEF MtaStsOutcome, MtaStsBranchFromResult, NoLive, AtMostMaxTTL, Larger,
   Smaller, DefaultTTL, InMtaSts

(* A remaining lifetime is a number.                                       *)
LEMMA UntilType ==
  ASSUME NEW e \in Nat, NEW t \in Nat
  PROVE  Until(e, t) \in Nat /\ (Until(e, t) # 0 => e # 0)
BY DEF Until

(* freshBranchForSelection keeps the kind of branch.                       *)
LEMMA FreshKind ==
  ASSUME NEW S, "" \in S, NEW b \in [policy : S, exp : Nat], NEW t \in Nat
  PROVE  FreshBranch(b, t) \in [policy : S, ttl : Nat]
<1>1. b.exp \in Nat /\ b.policy \in S
  BY Zenon
<1>2. RemainingTTL(b, t) \in Nat
  BY <1>1, UntilType, Zenon DEF RemainingTTL
<1>. QED  BY <1>1, <1>2, Zenon DEF FreshBranch, NoLive

(* The branches picked for a selection are of their kind                   *)
(* (daneBranchForSelection too).                                           *)
LEMMA FreshType ==
  ASSUME NEW c \in Entries, NEW t \in Nat
  PROVE  /\ FreshBranch(c.mtaSts, t) \in [policy : InMtaSts, ttl : Nat]
         /\ DaneBranchForSelection(c, t) \in [policy : InDane, ttl : Nat]
<1>1. /\ c.dane \in [policy : InDane, exp : Nat]
      /\ c.mtaSts \in [policy : InMtaSts, exp : Nat]
      /\ c.daneLast \in Nat
  BY DEF Entries
<1>2. "" \in InDane /\ "" \in InMtaSts
  BY DEF InDane, InMtaSts
<1>3. FreshBranch(c.mtaSts, t) \in [policy : InMtaSts, ttl : Nat]
  BY <1>1, <1>2, FreshKind, Zenon
<1>4. FreshBranch(c.dane, t) \in [policy : InDane, ttl : Nat]
  BY <1>1, <1>2, FreshKind, Zenon
<1>5. CASE DaneThrottled(c, t)
  <2>1. t < c.daneLast + POLICY_BRANCH_RECHECK
    BY <1>5, Zenon DEF DaneThrottled
  <2>2. c.daneLast + POLICY_BRANCH_RECHECK - t \in Nat
    BY <1>1, <2>1, BranchAssumption
  <2>. QED  BY <1>2, <1>3, <1>4, <2>2, Zenon DEF DaneBranchForSelection
<1>6. CASE ~DaneThrottled(c, t)
  BY <1>3, <1>4, <1>6, Zenon DEF DaneBranchForSelection
<1>. QED  BY <1>5, <1>6

(* selectedPolicyFromBranches answers with a policy.                       *)
LEMMA SelectedType ==
  ASSUME NEW d \in [policy : InDane, ttl : Nat], NEW m \in [policy : InMtaSts, ttl : Nat]
  PROVE  /\ SelectedPolicyFromBranches(d, m).policy \in Policies
         /\ SelectedPolicyFromBranches(d, m).ttl \in Nat
BY Zenon DEF SelectedPolicyFromBranches, HasLive, NoLive, Smaller, Policies, InDane, InMtaSts

(* queryDomainBranches yields a result.                                    *)
LEMMA QueryType ==
  ASSUME NEW c \in Entries, NEW t \in Nat, NEW b \in Nat,
         NEW d, DaneOutcome(d), NEW m, MtaStsOutcome(m)
  PROVE  QueryDomainBranches(c, t, b, d, m) \in Results
<1>. DEFINE qd == ShouldQueryDane(c, t, b)
            qm == ShouldQueryMtaSts(c, t, b)
            fresh == FreshBranch(c.mtaSts, t)
            rep == qm /\ (~LivePolicyUnavailable(m) \/ ~HasLive(fresh))
            dane == IF qd THEN BranchFromResult(d) ELSE NoLive
            mta == IF rep THEN MtaStsBranchFromResult(m) ELSE NoLive
            ans == SelectedPolicyFromBranches(IF qd THEN dane ELSE DaneBranchForSelection(c, t),
                                              IF rep THEN mta ELSE fresh)
<1>1. dane \in [policy : InDane, ttl : Nat] /\ mta \in [policy : InMtaSts, ttl : Nat]
  BY DaneBranchType, MtaStsBranchType, Zenon DEF NoLive, InDane, InMtaSts
<1>2. ans.policy \in Policies /\ ans.ttl \in Nat
  <2>1. (IF qd THEN dane ELSE DaneBranchForSelection(c, t)) \in [policy : InDane, ttl : Nat]
    BY <1>1, FreshType, Zenon
  <2>2. (IF rep THEN mta ELSE fresh) \in [policy : InMtaSts, ttl : Nat]
    BY <1>1, FreshType, Zenon
  <2>. QED  BY <2>1, <2>2, SelectedType, Zenon
<1>3. qd \in BOOLEAN /\ qm \in BOOLEAN
  BY Zenon DEF ShouldQueryDane, ShouldQueryMtaSts
<1>. HIDE DEF qd, qm, rep, dane, mta, ans
<1>4. [policy |-> ans.policy, ttl |-> ans.ttl, dane |-> dane, mtaSts |-> mta,
       daneAttempted |-> qd, mtaStsAttempted |-> qm] \in Results
  BY <1>1, <1>2, <1>3 DEF Results
<1>. QED  BY <1>4, Zenon DEF QueryDomainBranches, qd, qm, rep, dane, mta, ans

(* Taking the branches of a result over keeps the entry an entry.          *)
LEMMA MergedType ==
  ASSUME NEW c \in Entries, NEW r \in Results, NEW t \in Nat, NEW j \in Nat
  PROVE  MergedBranches(c, r, t, j) \in Entries
<1>. DEFINE mp == IF HasLive(r.mtaSts) THEN r.mtaSts.policy ELSE c.mtaSts.policy
            dp == IF HasLive(r.dane) THEN r.dane.policy ELSE c.dane.policy
            ld == Lengthened(r.dane, mp)
            lm == Lengthened(r.mtaSts, dp)
            nd == IF HasLive(r.dane) THEN ExpireBranch(ld, t, j) ELSE c.dane
            nm == IF HasLive(r.mtaSts) THEN ExpireMtaStsBranch(lm, t) ELSE c.mtaSts
<1>1. r.dane \in [policy : InDane, ttl : Nat] /\ r.mtaSts \in [policy : InMtaSts, ttl : Nat]
  BY DEF Results
<1>2. ld \in [policy : InDane, ttl : Nat] /\ lm \in [policy : InMtaSts, ttl : Nat]
  <2>. HIDE DEF mp, dp
  <2>. QED  BY <1>1, BranchAssumption, Zenon DEF Lengthened
<1>. HIDE DEF ld, lm
<1>3. nd \in [policy : InDane, exp : Nat] /\ nm \in [policy : InMtaSts, exp : Nat]
  BY <1>1, <1>2 DEF Entries, ExpireBranch, ExpireMtaStsBranch
<1>. HIDE DEF nd, nm
<1>4. [c EXCEPT !.found = TRUE, !.dane = nd, !.mtaSts = nm,
                !.daneLast = IF r.daneAttempted THEN t ELSE @,
                !.mtaStsLast = IF r.mtaStsAttempted THEN t ELSE @] \in Entries
  BY <1>3, Zenon DEF Entries
<1>. QED  BY <1>4 DEF MergedBranches, nd, nm, ld, lm

(* mergeCacheResult yields an entry.                                       *)
LEMMA MergeType ==
  ASSUME NEW c \in Entries, NEW r \in Results, NEW t \in Nat, NEW j \in Nat
  PROVE  MergeCacheResult(c, r, t, j) \in Entries
<1>. DEFINE m == MergedBranches(c, r, t, j)
<1>1. m \in Entries
  BY MergedType
<1>2. r.policy \in Policies /\ "" \in Policies
  BY Zenon DEF Results, Policies
<1>. HIDE DEF m
<1>3. /\ [m EXCEPT !.policy = "", !.exp = 0] \in Entries
      /\ [m EXCEPT !.policy = r.policy] \in Entries
  BY <1>1, <1>2, Zenon DEF Entries
<1>. QED  BY <1>1, <1>3 DEF MergeCacheResult, m

---------------------------------------------------------------------------
(* The decisions are sound: "no DANE" is only ever passed on.              *)

(* A branch with time left has data.                                       *)
LEMMA RemainingHasData ==
  ASSUME NEW c \in Entries, NEW t \in Nat
  PROVE  /\ RemainingTTL(c.dane, t) # 0 => HasData(c.dane)
         /\ RemainingTTL(c.mtaSts, t) # 0 => HasData(c.mtaSts)
<1>. c.dane.exp \in Nat /\ c.mtaSts.exp \in Nat
  BY DEF Entries
<1>. QED  BY UntilType, Zenon DEF RemainingTTL, HasData

(* selectCachedPolicy answers without DANE only from an entry that says    *)
(* there is none.                                                          *)
LEMMA SelectSound ==
  ASSUME NEW c \in Entries, NEW t \in Nat,
         SelectCachedPolicy(c, t).ok, SelectCachedPolicy(c, t).policy \in {"", "secure"}
  PROVE  KnownAbsent(c)
<1>. DEFINE daneTTL == RemainingTTL(c.dane, t)
            mtaStsTTL == RemainingTTL(c.mtaSts, t)
            sel == SelectCachedPolicy(c, t)
<1>0. sel.ok /\ sel.policy \in {"", "secure"}
  BY Zenon
<1>1. daneTTL # 0 => HasData(c.dane) /\ HasBranches(c)
  BY RemainingHasData, Zenon DEF HasBranches
<1>2. c.dane.policy \in InDane
  BY Zenon DEF Entries
<1>. HIDE DEF daneTTL, mtaStsTTL, sel
<1>3. CASE ~HasBranches(c) /\ c.policy \in DanePolicies /\ c.exp > t
  <2>1. sel = Selected(c.policy, c.exp - t)
    BY <1>1, <1>3, Zenon DEF sel, SelectCachedPolicy, daneTTL, mtaStsTTL
  <2>. QED  BY <1>0, <1>3, <2>1, Zenon DEF Selected, DanePolicies
<1>4. CASE daneTTL # 0 /\ c.dane.policy # ""
  <2>1. sel = Selected(c.dane.policy, daneTTL)
    BY <1>1, <1>4, Zenon DEF sel, SelectCachedPolicy, daneTTL, mtaStsTTL
  <2>. QED  BY <1>0, <1>2, <1>4, <2>1, Zenon DEF Selected, InDane, DanePolicies
<1>5. CASE daneTTL # 0 /\ c.dane.policy = ""
  BY <1>1, <1>5, Zenon DEF KnownAbsent
<1>6. CASE daneTTL = 0 /\ ~(~HasBranches(c) /\ c.policy \in DanePolicies /\ c.exp > t)
  <2>1. sel = NotSelected
    BY <1>6, Zenon DEF sel, SelectCachedPolicy, daneTTL, mtaStsTTL
  <2>. QED  BY <1>0, <2>1, Zenon DEF NotSelected
<1>. QED  BY <1>3, <1>4, <1>5, <1>6, Zenon

(* queryDomainBranches answers without DANE only if its lookup found none, *)
(* or the entry it started from says so.                                   *)
LEMMA QuerySound ==
  ASSUME NEW c \in Entries, NEW t \in Nat, NEW b \in Nat,
         NEW d, DaneOutcome(d), NEW m, MtaStsOutcome(m),
         QueryDomainBranches(c, t, b, d, m).policy \in {"", "secure"}
  PROVE  FoundAbsent(QueryDomainBranches(c, t, b, d, m)) \/ KnownAbsent(c)
<1>. DEFINE qd == ShouldQueryDane(c, t, b)
            fresh == FreshBranch(c.mtaSts, t)
            rep == ShouldQueryMtaSts(c, t, b) /\ (~LivePolicyUnavailable(m) \/ ~HasLive(fresh))
            dane == IF qd THEN BranchFromResult(d) ELSE NoLive
            mta == IF rep THEN MtaStsBranchFromResult(m) ELSE NoLive
            used == IF qd THEN dane ELSE DaneBranchForSelection(c, t)
            sts == IF rep THEN mta ELSE fresh
            r == QueryDomainBranches(c, t, b, d, m)
<1>1. r.policy = SelectedPolicyFromBranches(used, sts).policy /\ r.dane = dane
  BY Zenon DEF QueryDomainBranches
<1>2. used \in [policy : InDane, ttl : Nat]
  BY DaneBranchType, FreshType, Zenon
<1>. HIDE DEF r, sts, rep, mta, fresh
<1>3. HasLive(used) /\ used.policy = ""
  <2>. HIDE DEF used
  <2>1. SelectedPolicyFromBranches(used, sts).policy \in {"", "secure"}
    BY <1>1, Zenon DEF r
  <2>. QED  BY <2>1, <1>2, Zenon DEF SelectedPolicyFromBranches, HasLive, InDane, DanePolicies
<1>4. CASE qd
  BY <1>1, <1>3, <1>4, Zenon DEF FoundAbsent, r
<1>5. CASE ~qd
  <2>1. DaneBranchForSelection(c, t).ttl # 0 /\ DaneBranchForSelection(c, t).policy = ""
    BY <1>3, <1>5, Zenon DEF HasLive
  <2>. QED
    <3>1. CASE RemainingTTL(c.dane, t) = 0 /\ DaneThrottled(c, t)
      BY <3>1, Zenon DEF DaneThrottled, KnownAbsent
    <3>2. CASE ~(RemainingTTL(c.dane, t) = 0 /\ DaneThrottled(c, t))
      <4>1. FreshBranch(c.dane, t).ttl # 0 /\ FreshBranch(c.dane, t).policy = ""
        BY <2>1, <3>2, Zenon DEF DaneBranchForSelection
      <4>2. RemainingTTL(c.dane, t) # 0 /\ c.dane.policy = ""
        BY <4>1, Zenon DEF FreshBranch, NoLive
      <4>. QED  BY <4>2, RemainingHasData, Zenon DEF KnownAbsent
    <3>. QED  BY <3>1, <3>2, Zenon
<1>. QED  BY <1>4, <1>5, Zenon

(* mergeCacheResult stores "no DANE" only from the result, or where it was *)
(* already stored.                                                         *)
LEMMA MergeSound ==
  ASSUME NEW c \in Entries, NEW r \in Results, NEW t \in Nat, NEW j \in Nat,
         KnownAbsent(MergeCacheResult(c, r, t, j))
  PROVE  FoundAbsent(r) \/ KnownAbsent(c)
<1>. DEFINE m == MergedBranches(c, r, t, j)
<1>1. m \in Entries
  BY MergedType
<1>2. m.dane = IF HasLive(r.dane)
               THEN ExpireBranch(Lengthened(r.dane, IF HasLive(r.mtaSts) THEN r.mtaSts.policy
                                                    ELSE c.mtaSts.policy), t, j)
               ELSE c.dane
  BY DEF MergedBranches, Entries
<1>3. MergeCacheResult(c, r, t, j).dane = m.dane
  <2>. HIDE DEF m
  <2>1. /\ [m EXCEPT !.policy = "", !.exp = 0].dane = m.dane
        /\ [m EXCEPT !.policy = r.policy].dane = m.dane
    BY <1>1, Zenon DEF Entries
  <2>. QED  BY <2>1 DEF MergeCacheResult, m
<1>4. CASE HasLive(r.dane)
  <2>1. m.dane.policy = r.dane.policy
    <3>. r.dane \in [policy : InDane, ttl : Nat]
      BY DEF Results
    <3>1. \A other : Lengthened(r.dane, other).policy = r.dane.policy
      BY Zenon DEF Lengthened
    <3>. QED  BY <1>2, <1>4, <3>1 DEF ExpireBranch
  <2>. QED  BY <1>3, <1>4, <2>1, Zenon DEF KnownAbsent, FoundAbsent
<1>5. CASE ~HasLive(r.dane)
  BY <1>2, <1>3, <1>5, Zenon DEF KnownAbsent
<1>. QED  BY <1>4, <1>5
---------------------------------------------------------------------------
(* The types of the schedule's operators.                                  *)

(* selectCachedPolicy's three results.                                     *)
LEMMA SelectType ==
  ASSUME NEW c \in Entries, NEW t \in Nat
  PROVE  SelectCachedPolicy(c, t) \in [ok : BOOLEAN, policy : Policies, ttl : Nat]
<1>. DEFINE daneTTL == RemainingTTL(c.dane, t)
            mtaStsTTL == RemainingTTL(c.mtaSts, t)
<1>1. /\ c.dane.policy \in Policies /\ c.mtaSts.policy \in Policies /\ c.policy \in Policies
      /\ c.exp \in Nat /\ c.dane.exp \in Nat /\ c.mtaSts.exp \in Nat
  BY Zenon DEF Entries, InDane, InMtaSts, Policies
<1>2. daneTTL \in Nat /\ mtaStsTTL \in Nat
  BY <1>1, UntilType, Zenon DEF RemainingTTL
<1>3. daneTTL # 0 => HasBranches(c)
  BY RemainingHasData DEF HasBranches
<1>4. Smaller(daneTTL, mtaStsTTL) \in Nat
  BY <1>2 DEF Smaller
<1>5. ASSUME NEW p \in Policies, NEW n \in Nat
      PROVE  Selected(p, n) \in [ok : BOOLEAN, policy : Policies, ttl : Nat]
  BY DEF Selected
<1>6. NotSelected \in [ok : BOOLEAN, policy : Policies, ttl : Nat]
  BY DEF NotSelected, Policies
<1>. HIDE DEF daneTTL, mtaStsTTL
<1>7. CASE ~HasBranches(c) /\ c.policy \in DanePolicies /\ c.exp > t
  <2>1. SelectCachedPolicy(c, t) = Selected(c.policy, c.exp - t)
    BY <1>3, <1>7, Zenon DEF SelectCachedPolicy, daneTTL, mtaStsTTL
  <2>2. c.exp - t \in Nat
    BY <1>1, <1>7
  <2>. QED  BY <1>1, <1>5, <2>1, <2>2, Zenon
<1>8. CASE daneTTL # 0 /\ c.dane.policy # ""
  <2>1. SelectCachedPolicy(c, t) = Selected(c.dane.policy, daneTTL)
    BY <1>3, <1>8, Zenon DEF SelectCachedPolicy, daneTTL, mtaStsTTL
  <2>. QED  BY <1>1, <1>2, <1>5, <2>1, ZenonT(60)
<1>9. CASE daneTTL # 0 /\ c.dane.policy = "" /\ mtaStsTTL # 0
  <2>1. SelectCachedPolicy(c, t) = Selected(c.mtaSts.policy, Smaller(daneTTL, mtaStsTTL))
    BY <1>3, <1>9, Zenon DEF SelectCachedPolicy, daneTTL, mtaStsTTL
  <2>. QED  BY <1>1, <1>4, <1>5, <2>1, ZenonT(60)
<1>10. CASE /\ ~(~HasBranches(c) /\ c.policy \in DanePolicies /\ c.exp > t)
            /\ ~(daneTTL # 0 /\ c.dane.policy # "")
            /\ ~(daneTTL # 0 /\ c.dane.policy = "" /\ mtaStsTTL # 0)
  <2>1. SelectCachedPolicy(c, t) = NotSelected
    BY <1>10, Zenon DEF SelectCachedPolicy, daneTTL, mtaStsTTL
  <2>. QED  BY <1>6, <2>1
<1>. QED  BY <1>7, <1>8, <1>9, <1>10, Zenon

(* A batch begins at a time.                                               *)
LEMMA BatchType ==
  ASSUME NEW t \in Nat, NEW n \in Nat
  PROVE  BatchAtOrAfter(t + n) \subseteq Nat /\ NextPolicyPrefetchTime(t, n) \subseteq Nat
BY ServerAssumption DEF BatchAtOrAfter, NextPolicyPrefetchTime

(* nextPrefetchTime, scheduleCachedPolicyPrefetch and                      *)
(* nextPrefetchTimeAfterMiss choose times.                                 *)
LEMMA DueType ==
  ASSUME NEW c \in Entries, NEW t \in Nat
  PROVE  /\ NextPrefetchTime(c, t) \subseteq Nat
         /\ DueTimes(c, t) \subseteq Nat
         /\ NextPrefetchTimeAfterMiss(c, t) \subseteq Nat
<1>. DEFINE sel == SelectCachedPolicy(c, t)
            old == EntryAge(c, t) >= CACHE_MAX_AGE
<1>1. sel.ttl \in Nat /\ sel.ok \in BOOLEAN
  BY SelectType
<1>2. /\ BatchAtOrAfter(t + sel.ttl) \subseteq Nat
      /\ NextPolicyPrefetchTime(t, sel.ttl) \subseteq Nat
  BY <1>1, BatchType
<1>3. BatchAtOrAfter(t) \subseteq Nat
  BY ServerAssumption DEF BatchAtOrAfter
<1>4. NextPrefetchTime(c, t) \subseteq Nat
  BY <1>2, Zenon DEF NextPrefetchTime
<1>5. DueTimes(c, t) \subseteq Nat
  <2>1. \/ DueTimes(c, t) = NextPrefetchTime(c, t)
        \/ DueTimes(c, t) = BatchAtOrAfter(t)
        \/ DueTimes(c, t) = {}
    BY Zenon DEF DueTimes
  <2>. QED  BY <1>3, <1>4, <2>1
<1>6. NextPrefetchTimeAfterMiss(c, t) \subseteq Nat
  BY <1>2, Zenon DEF NextPrefetchTimeAfterMiss
<1>. QED  BY <1>4, <1>5, <1>6
(* scheduleCachedPolicyPrefetch keeps the schedule's type, and leaves it   *)
(* alone when prefetching is off.                                          *)
LEMMA ScheduleType ==
  ASSUME NEW c \in Entries, NEW t \in Nat, NEW fail \in Failures,
         due \in Nat, failure \in Failures,
         ScheduleCachedPolicyPrefetch(c, t, fail)
  PROVE  /\ due' \in Nat /\ failure' \in Failures
         /\ ~Prefetch => due' = due /\ failure' = failure
<1>1. CASE ~Prefetch
  BY <1>1 DEF ScheduleCachedPolicyPrefetch, schedule
<1>2. CASE Prefetch
  <2>1. CASE due' \in DueTimes(c, t) /\ failure' = fail
    BY <1>2, <2>1, DueType, Zenon
  <2>2. CASE UnscheduleCachedPolicyPrefetch
    BY <1>2, <2>2, Zenon DEF UnscheduleCachedPolicyPrefetch, NoFailure, Failures
  <2>. QED  BY <1>2, <2>1, <2>2, Zenon DEF ScheduleCachedPolicyPrefetch
<1>. QED  BY <1>1, <1>2, Zenon

(* failedPolicyGraceDeadline is a time.                                    *)
LEMMA GraceType ==
  ASSUME NEW c \in Entries, NEW r \in Results
  PROVE  FailedPolicyGraceDeadline(c, r) \in Nat
<1>1. c.dane.exp \in Nat /\ c.mtaSts.exp \in Nat
  BY DEF Entries
<1>. DEFINE d == IF DaneFailed(r) /\ c.dane.policy # ""
                 THEN c.dane.exp + POLICY_BRANCH_RECHECK ELSE 0
            m == IF MtaStsFailed(r) /\ c.mtaSts.policy # ""
                 THEN c.mtaSts.exp + POLICY_BRANCH_RECHECK ELSE 0
<1>2. d \in Nat /\ m \in Nat
  <2>1. /\ c.dane.exp + POLICY_BRANCH_RECHECK \in Nat
        /\ c.mtaSts.exp + POLICY_BRANCH_RECHECK \in Nat
    BY <1>1, BranchAssumption
  <2>. QED  BY <2>1, Zenon
<1>. HIDE DEF d, m
<1>3. Larger(d, m) \in Nat
  BY <1>2 DEF Larger
<1>. QED  BY <1>3, Zenon DEF FailedPolicyGraceDeadline, d, m

(* scheduleRetryUntil keeps the schedule's type.                           *)
LEMMA RetryType ==
  ASSUME NEW t \in Nat, NEW grace \in Nat, failure \in Failures, ScheduleRetryUntil(t, grace)
  PROVE  due' \in Nat /\ failure' \in Failures
<1>. DEFINE delay == PrefetchRetryDelay(failure.delay)
            deadline == RetryDeadline(t, grace)
<1>1. delay \in Nat
  BY ServerAssumption DEF PrefetchRetryDelay, Smaller, Failures
<1>2. FirstFailed(t) \in Nat
  BY DEF FirstFailed, Failures
<1>3. deadline \in Nat
  BY <1>2, ServerAssumption DEF RetryDeadline, Larger
<1>4. BatchAtOrAfter(t + delay) \subseteq Nat
  BY <1>1, BatchType, Zenon
<1>. HIDE DEF delay, deadline
<1>5. PICK d \in BatchAtOrAfter(t + delay) : due' = Smaller(d, deadline)
  BY DEF ScheduleRetryUntil, delay, deadline
<1>6. failure' = [first |-> FirstFailed(t), delay |-> delay]
  BY Zenon DEF ScheduleRetryUntil, delay
<1>. QED  BY <1>1, <1>2, <1>3, <1>4, <1>5, <1>6, Zenon DEF Smaller, Failures

(* cacheAfterFailedBranchDiscard yields an entry.                          *)
LEMMA DiscardType ==
  ASSUME NEW c \in Entries, NEW r \in Results, NEW t \in Nat, NEW j \in Nat
  PROVE  CacheAfterFailedBranchDiscard(c, r, t, j) \in Entries
<1>. DEFINE none == ExpireBranch([NoLive EXCEPT !.ttl = POLICY_BRANCH_RECHECK], t, j)
<1>1. none \in [policy : InDane, exp : Nat] /\ none \in [policy : InMtaSts, exp : Nat]
  BY BranchAssumption DEF ExpireBranch, NoLive, InDane, InMtaSts
<1>. HIDE DEF none
<1>2. /\ [c EXCEPT !.dane = none, !.daneLast = t] \in Entries
      /\ [c EXCEPT !.mtaSts = none, !.mtaStsLast = t] \in Entries
  BY <1>1, Zenon DEF Entries
<1>. QED  BY <1>2, NoEntryType, Zenon DEF CacheAfterFailedBranchDiscard, none
---------------------------------------------------------------------------
(* The idle states have their types.                                       *)
LEMMA IdleType ==
  /\ NoResult \in Results /\ NoFailure \in Failures /\ NoFlight \in FlightStates
  /\ IdleConn \in ConnStates /\ IdleWorker \in WorkerStates /\ IdleTidy \in TidyStates
<1>1. NoResult \in Results
  BY DEF NoResult, Results, NoLive, Policies, InDane, InMtaSts
<1>2. NoFailure \in Failures
  BY DEF NoFailure, Failures
<1>3. NoFlight \in FlightStates
  BY NoEntryType DEF NoFlight, FlightStates
<1>4. IdleConn \in ConnStates
  BY <1>1, NoEntryType DEF IdleConn, ConnStates
<1>5. IdleWorker \in WorkerStates
  BY <1>1, NoEntryType DEF IdleWorker, WorkerStates
<1>6. IdleTidy \in TidyStates
  BY NoEntryType DEF IdleTidy, TidyStates
<1>. QED  BY <1>1, <1>2, <1>3, <1>4, <1>5, <1>6

(* The daemon starts in a state of its types.                              *)
LEMMA InitType == Init => TypeOK
<1>. SUFFICES ASSUME Init PROVE TypeOK
  OBVIOUS
<1>1. now \in Nat \ {0} /\ entry \in Entries
  BY ServerAssumption DEF Init
<1>2. /\ conn \in [Conns -> ConnStates] /\ flight \in FlightStates
      /\ failure \in Failures /\ worker \in WorkerStates /\ tidy \in TidyStates
  BY IdleType DEF Init
<1>3. due \in Nat /\ (~Prefetch => due = 0)
  BY <1>1, DueType DEF Init
<1>4. purging \in BOOLEAN /\ firstFailure \in Nat
  BY Zenon DEF Init
<1>5. absent \in BOOLEAN
  BY Zenon DEF Init, KnownAbsent, HasData
<1>6. OffWhenDisabled
  BY <1>3 DEF Init, OffWhenDisabled
<1>. QED  BY <1>1, <1>2, <1>3, <1>4, <1>5, <1>6 DEF TypeOK

(* The ghosts keep their types.                                            *)
LEMMA WitnessedType ==
  ASSUME NEW r \in Results, TypeOK, Witnessed(r)
  PROVE  absent' \in BOOLEAN /\ firstFailure' \in Nat
<1>1. now \in Nat /\ firstFailure \in Nat
  BY DEF TypeOK
<1>2. absent' \in BOOLEAN
  BY Zenon DEF Witnessed, HasLive
<1>3. firstFailure' \in Nat
  BY <1>1, Zenon DEF Witnessed
<1>. QED  BY <1>2, <1>3
(* Every step of a connection and every lookup it waits for keeps the      *)
(* types.                                                                  *)
LEMMA ConnectionType ==
  ASSUME TypeOK,
         \/ \E c \in Conns : TryCachedPolicy(c) \/ ConnStep(c)
         \/ Lookup
  PROVE  TypeOK'
<1>. USE DEF TypeOK
<1>1. ASSUME NEW c \in Conns, TryCachedPolicy(c) PROVE TypeOK'
  <2>. DEFINE sel == SelectCachedPolicy(entry, now)
              hit == [IdleConn EXCEPT !.pc = "hit", !.res = [NoResult EXCEPT !.policy = sel.policy]]
              miss == [IdleConn EXCEPT !.pc = "miss", !.base = entry]
  <2>1. sel.policy \in Policies
    BY SelectType, Zenon
  <2>2. [NoResult EXCEPT !.policy = sel.policy] \in Results
    BY <2>1, IdleType, Zenon DEF Results
  <2>3. hit \in ConnStates
    BY <2>2, IdleType, Zenon DEF ConnStates
  <2>4. miss \in ConnStates
    BY IdleType, Zenon DEF ConnStates
  <2>. HIDE DEF hit, miss, sel
  <2>5. conn' = [conn EXCEPT ![c] = IF sel.ok THEN hit ELSE miss]
    BY <1>1, Zenon DEF TryCachedPolicy, hit, miss, sel
  <2>6. conn' \in [Conns -> ConnStates]
    BY <2>3, <2>4, <2>5, Zenon
  <2>. QED  BY <1>1, <2>6, Zenon DEF TryCachedPolicy, OffWhenDisabled, schedule, ghosts
<1>2. ASSUME NEW c \in Conns, HitDelivered(c) PROVE TypeOK'
  BY <1>2, IdleType, Zenon DEF HitDelivered, OffWhenDisabled, schedule, ghosts
<1>3. ASSUME NEW c \in Conns, RefreshDomain(c) PROVE TypeOK'
  <2>1. conn[c].base \in Entries
    BY DEF ConnStates
  <2>2. flight' \in FlightStates
    BY <1>3, <2>1, Zenon DEF RefreshDomain, FlightStates
  <2>3. conn' \in [Conns -> ConnStates]
    BY <1>3, ZenonT(60) DEF RefreshDomain, ConnStates
  <2>. QED  BY <1>3, <2>2, <2>3, Zenon DEF RefreshDomain, OffWhenDisabled, schedule, ghosts
<1>4. ASSUME NEW c \in Conns, ReplySocketmap(c) PROVE TypeOK'
  <2>1. PICK j \in 0 .. EXPIRY_JITTER :
          LET cs == MergeCacheResult(conn[c].base, conn[c].res, now, j)
              store == WorthStoring(conn[c].base, conn[c].res)
          IN  /\ entry' = IF store THEN cs ELSE entry
              /\ conn' = [conn EXCEPT ![c] =
                   IF store /\ Prefetch THEN [IdleConn EXCEPT !.pc = "schedule", !.base = cs]
                                        ELSE IdleConn]
              /\ UNCHANGED <<now, flight, schedule, worker, tidy, purging, ghosts>>
    BY <1>4, Zenon DEF ReplySocketmap
  <2>. DEFINE cs == MergeCacheResult(conn[c].base, conn[c].res, now, j)
  <2>2. conn[c].base \in Entries /\ conn[c].res \in Results /\ j \in Nat
    BY BranchAssumption DEF ConnStates
  <2>3. cs \in Entries
    BY <2>2, MergeType, Zenon
  <2>. HIDE DEF cs
  <2>4. [IdleConn EXCEPT !.pc = "schedule", !.base = cs] \in ConnStates
    BY <2>3, IdleType, Zenon DEF ConnStates
  <2>5. entry' \in Entries /\ conn' \in [Conns -> ConnStates]
    BY <2>1, <2>3, <2>4, IdleType DEF cs
  <2>. QED  BY <2>1, <2>5, Zenon DEF OffWhenDisabled, schedule, ghosts
<1>5. ASSUME NEW c \in Conns, ScheduleResult(c) PROVE TypeOK'
  <2>1. conn[c].base \in Entries
    BY DEF ConnStates
  <2>. DEFINE fail == IF SelectCachedPolicy(conn[c].base, now).ok THEN NoFailure ELSE failure
  <2>2. fail \in Failures
    BY IdleType
  <2>. HIDE DEF fail
  <2>3. ScheduleCachedPolicyPrefetch(conn[c].base, now, fail)
    BY <1>5 DEF ScheduleResult, fail
  <2>4. due' \in Nat /\ failure' \in Failures /\ (~Prefetch => due' = due /\ failure' = failure)
    BY <2>1, <2>2, <2>3, ScheduleType
  <2>5. conn' \in [Conns -> ConnStates]
    BY <1>5, IdleType DEF ScheduleResult
  <2>. QED  BY <1>5, <2>4, <2>5 DEF ScheduleResult, OffWhenDisabled, ghosts
<1>6. ASSUME NEW d \in DaneOutcomes, NEW m \in MtaStsOutcomes, FlightEnd(d, m) PROVE TypeOK'
  <2>. DEFINE r == QueryDomainBranches(flight.base, flight.start, 0, d, m)
  <2>1. flight.base \in Entries /\ flight.start \in Nat
    BY Zenon DEF FlightStates
  <2>2. DaneOutcome(d) /\ MtaStsOutcome(m)
    BY ServerAssumption, Zenon DEF DaneOutcome, MtaStsOutcome
  <2>3. r \in Results
    BY <2>1, <2>2, QueryType, Zenon
  <2>. HIDE DEF r
  <2>5. /\ conn' = [c \in Conns |->
              IF conn[c].pc = "wait"
              THEN [conn[c] EXCEPT !.pc = "reply", !.res = r, !.at = now]
              ELSE conn[c]]
        /\ flight' = NoFlight /\ Witnessed(r)
        /\ UNCHANGED <<now, entry, schedule, worker, tidy, purging>>
    BY <1>6, Zenon DEF FlightEnd, r
  <2>6. conn' \in [Conns -> ConnStates]
    BY <2>3, <2>5, ZenonT(60) DEF ConnStates
  <2>7. absent' \in BOOLEAN /\ firstFailure' \in Nat
    BY <2>3, <2>5, WitnessedType, Zenon
  <2>. QED  BY <2>5, <2>6, <2>7, IdleType, Zenon DEF OffWhenDisabled, schedule
<1>. QED  BY <1>1, <1>2, <1>3, <1>4, <1>5, <1>6, Zenon DEF ConnStep, Lookup
(* The steps that unschedule the domain, or schedule an entry again, keep  *)
(* the schedule's type.                                                    *)
LEMMA UnscheduleType ==
  ASSUME UnscheduleCachedPolicyPrefetch
  PROVE  /\ due' \in Nat /\ failure' \in Failures
         /\ due' = 0 /\ failure' = NoFailure
BY IdleType, Zenon DEF UnscheduleCachedPolicyPrefetch

(* Every step of the prefetcher keeps the types.                           *)
LEMMA PrefetchType ==
  ASSUME TypeOK, PrefetchStep
  PROVE  TypeOK'
<1>. USE DEF TypeOK
<1>. worker.base \in Entries /\ worker.res \in Results /\ worker.at \in Nat
  BY Zenon DEF WorkerStates
<1>0. worker.pc # "idle" => Prefetch
  BY DEF OffWhenDisabled, IdleWorker
<1>. IdleWorker \in WorkerStates
  BY IdleType, Zenon
<1>1. CASE PopDue
  <2>1. worker' \in WorkerStates
    BY <1>1, Zenon DEF PopDue, WorkerStates
  <2>2. Prefetch
    BY <1>1, Zenon DEF PopDue, OffWhenDisabled
  <2>. QED  BY <1>1, <2>1, <2>2, Zenon DEF PopDue, OffWhenDisabled, ghosts
<1>2. CASE PrefetchGet
  <2>1. worker' \in WorkerStates
    BY <1>2, Zenon DEF PrefetchGet, WorkerStates
  <2>. QED  BY <1>0, <1>2, <2>1, Zenon DEF PrefetchGet, OffWhenDisabled, schedule, ghosts
<1>3. CASE PrefetchDiscard
  <2>1. worker' \in WorkerStates
    BY <1>3 DEF PrefetchDiscard, WorkerStates
  <2>. QED
    BY <1>0, <1>3, <2>1, NoEntryType DEF PrefetchDiscard, OffWhenDisabled, schedule, ghosts
<1>4. CASE PrefetchUnschedule
  <2>1. due' \in Nat /\ failure' \in Failures
    BY <1>4, UnscheduleType DEF PrefetchUnschedule
  <2>. QED  BY <1>0, <1>4, <2>1 DEF PrefetchUnschedule, OffWhenDisabled, ghosts
<1>5. CASE PrefetchPostpone
  <2>1. due' \in Nat /\ failure' \in Failures
    BY <1>5, ScheduleType, Zenon DEF PrefetchPostpone
  <2>. QED  BY <1>0, <1>5, <2>1, Zenon DEF PrefetchPostpone, OffWhenDisabled, ghosts
<1>6. CASE PrefetchBegin
  <2>1. worker' \in WorkerStates
    BY <1>6, Zenon DEF PrefetchBegin, WorkerStates
  <2>. QED  BY <1>0, <1>6, <2>1, Zenon DEF PrefetchBegin, OffWhenDisabled, schedule, ghosts
<1>7. ASSUME NEW d \in DaneOutcomes, NEW m \in MtaStsOutcomes, PrefetchLookup(d, m)
      PROVE  TypeOK'
  <2>1. PICK j \in 0 .. EXPIRY_JITTER :
          LET c == worker.base
              r == QueryDomainBranches(c, worker.at, PREFETCH_INTERVAL, d, m)
              attempted == r.daneAttempted \/ r.mtaStsAttempted
              merged == MergeCacheResult(c, r, now, j)
              selected == SelectCachedPolicy(merged, now).ok
              pc == CASE attempted /\ selected /\ ~DaneFailed(r) /\ ~MtaStsFailed(r) -> "renewed"
                      [] ~attempted /\ SelectCachedPolicy(c, now).ok -> "missed"
                      [] OTHER -> "failed"
          IN  /\ worker.pc = "lookup"
              /\ entry' = IF attempted THEN merged ELSE entry
              /\ worker' = [pc |-> pc, base |-> IF attempted /\ selected THEN merged ELSE c,
                            at |-> 0, res |-> r,
                            none |-> r.mtaStsAttempted /\ m.fetched /\ m.policy = "" /\ m.ttl # 0]
              /\ Witnessed(r)
              /\ UNCHANGED <<now, conn, flight, schedule, tidy, purging>>
    BY <1>7, ZenonT(60) DEF PrefetchLookup
  <2>. DEFINE c == worker.base
              r == QueryDomainBranches(c, worker.at, PREFETCH_INTERVAL, d, m)
              attempted == r.daneAttempted \/ r.mtaStsAttempted
              merged == MergeCacheResult(c, r, now, j)
              selected == SelectCachedPolicy(merged, now).ok
              pc == CASE attempted /\ selected /\ ~DaneFailed(r) /\ ~MtaStsFailed(r) -> "renewed"
                      [] ~attempted /\ SelectCachedPolicy(c, now).ok -> "missed"
                      [] OTHER -> "failed"
              none == r.mtaStsAttempted /\ m.fetched /\ m.policy = "" /\ m.ttl # 0
  <2>2. DaneOutcome(d) /\ MtaStsOutcome(m)
    BY ServerAssumption DEF DaneOutcome, MtaStsOutcome
  <2>3. r \in Results
    BY <2>2, QueryType, ServerAssumption
  <2>4. j \in Nat
    BY BranchAssumption
  <2>5. merged \in Entries
    <3>. HIDE DEF r
    <3>. QED  BY <2>3, <2>4, MergeType, Zenon
  <2>6. pc \in {"renewed", "missed", "failed"}
    <3>. HIDE DEF attempted, selected, r, c
    <3>. QED  OBVIOUS
  <2>7. none \in BOOLEAN
    BY Zenon
  <2>8. /\ worker.pc = "lookup"
        /\ entry' = IF attempted THEN merged ELSE entry
        /\ worker' = [pc |-> pc, base |-> IF attempted /\ selected THEN merged ELSE c,
                      at |-> 0, res |-> r, none |-> none]
        /\ Witnessed(r)
        /\ UNCHANGED <<now, conn, flight, schedule, tidy, purging>>
    BY <2>1, Zenon
  <2>. HIDE DEF r, attempted, merged, selected, pc, none
  <2>9. worker' \in WorkerStates /\ entry' \in Entries
    BY <2>3, <2>5, <2>6, <2>7, <2>8, Zenon DEF WorkerStates
  <2>10. absent' \in BOOLEAN /\ firstFailure' \in Nat
    BY <2>3, <2>8, WitnessedType, Zenon
  <2>. QED  BY <1>0, <2>8, <2>9, <2>10 DEF OffWhenDisabled, schedule
<1>8. CASE PrefetchRenewed
  <2>1. due' \in Nat /\ failure' \in Failures
    BY <1>8, ScheduleType, IdleType, Zenon DEF PrefetchRenewed
  <2>. QED  BY <1>0, <1>8, <2>1, Zenon DEF PrefetchRenewed, OffWhenDisabled, ghosts
<1>9. CASE PrefetchMissed
  <2>1. due' \in Nat /\ failure' \in Failures
    BY <1>9, ScheduleType, DueType, IdleType, Zenon DEF PrefetchMissed
  <2>. QED  BY <1>0, <1>9, <2>1, Zenon DEF PrefetchMissed, OffWhenDisabled, ghosts
<1>10. CASE PrefetchRetry
  <2>1. due' \in Nat /\ failure' \in Failures
    BY <1>10, RetryType, GraceType, Zenon DEF PrefetchRetry
  <2>. QED  BY <1>0, <1>10, <2>1, Zenon DEF PrefetchRetry, OffWhenDisabled, ghosts
<1>11. CASE PrefetchGiveUp
  <2>1. due' \in Nat /\ failure' \in Failures
    BY <1>11, UnscheduleType, Zenon DEF PrefetchGiveUp
  <2>2. worker' \in WorkerStates
    BY <1>11, Zenon DEF PrefetchGiveUp, WorkerStates
  <2>. QED  BY <1>0, <1>11, <2>1, <2>2, Zenon DEF PrefetchGiveUp, OffWhenDisabled, ghosts
<1>12. CASE PrefetchDrop
  <2>1. PICK j \in 0 .. EXPIRY_JITTER :
          LET updated == CacheAfterFailedBranchDiscard(worker.base, worker.res, now, j)
          IN  /\ worker.pc = "drop"
              /\ entry' = updated
              /\ worker' = IF updated = StatsOnly THEN IdleWorker
                           ELSE [IdleWorker EXCEPT !.pc = "dropped", !.base = updated]
              /\ UNCHANGED <<now, conn, flight, schedule, tidy, purging, ghosts>>
    BY <1>12, Zenon DEF PrefetchDrop
  <2>2. CacheAfterFailedBranchDiscard(worker.base, worker.res, now, j) \in Entries
    BY DiscardType, BranchAssumption
  <2>3. entry' \in Entries /\ worker' \in WorkerStates
    BY <2>1, <2>2, Zenon DEF WorkerStates
  <2>. QED  BY <1>0, <2>1, <2>3, Zenon DEF OffWhenDisabled, schedule, ghosts
<1>13. CASE PrefetchDropped
  <2>1. due' \in Nat
    BY <1>13, DueType DEF PrefetchDropped
  <2>. QED  BY <1>0, <1>13, <2>1 DEF PrefetchDropped, OffWhenDisabled, ghosts
<1>. QED
  BY <1>1, <1>2, <1>3, <1>4, <1>5, <1>6, <1>7, <1>8, <1>9, <1>10, <1>11, <1>12, <1>13, Zenon
     DEF PrefetchStep
(* Every step of tidyCache keeps the types.                                *)
LEMMA TidyType ==
  ASSUME TypeOK, TidyStep
  PROVE  TypeOK'
<1>. USE DEF TypeOK
<1>. tidy.base \in Entries /\ IdleTidy \in TidyStates
  BY IdleType DEF TidyStates
<1>1. CASE TidyItems
  BY <1>1 DEF TidyItems, TidyStates, OffWhenDisabled, schedule, ghosts
<1>2. CASE TidyKeep
  BY <1>2 DEF TidyKeep, TidyStates, OffWhenDisabled, schedule, ghosts
<1>3. CASE TidyDiscard
  <2>1. tidy' \in TidyStates
    BY <1>3 DEF TidyDiscard, TidyStates
  <2>. QED  BY <1>3, <2>1, NoEntryType DEF TidyDiscard, OffWhenDisabled, schedule, ghosts
<1>4. CASE TidyReplaced
  <2>1. tidy' \in TidyStates
    BY <1>4 DEF TidyReplaced, TidyStates
  <2>. QED  BY <1>4, <2>1 DEF TidyReplaced, OffWhenDisabled, schedule, ghosts
<1>5. CASE TidyUnschedule
  <2>1. due' \in Nat /\ failure' \in Failures /\ due' = 0 /\ failure' = NoFailure
    BY <1>5, UnscheduleType, Zenon DEF TidyUnschedule
  <2>. QED  BY <1>5, <2>1, Zenon DEF TidyUnschedule, OffWhenDisabled, ghosts
<1>6. CASE TidySchedule
  <2>1. /\ due' \in Nat /\ failure' \in Failures
        /\ ~Prefetch => due' = due /\ failure' = failure
    BY <1>6, ScheduleType, Zenon DEF TidySchedule
  <2>. QED  BY <1>6, <2>1, Zenon DEF TidySchedule, OffWhenDisabled, ghosts
<1>. QED  BY <1>1, <1>2, <1>3, <1>4, <1>5, <1>6, Zenon DEF TidyStep

(* Whoever takes a step, every variable keeps its type.                    *)
LEMMA NextType == TypeOK /\ [Next]_vars => TypeOK'
<1>. SUFFICES ASSUME TypeOK, [Next]_vars PROVE TypeOK'
  BY Zenon
<1>1. CASE Tick
  BY <1>1 DEF Tick, TypeOK, OffWhenDisabled, schedule, ghosts
<1>2. CASE (\E c \in Conns : TryCachedPolicy(c) \/ ConnStep(c)) \/ Lookup
  BY <1>2, ConnectionType
<1>3. CASE PrefetchStep
  BY <1>3, PrefetchType
<1>4. CASE TidyStep
  BY <1>4, TidyType, Zenon
<1>5. CASE Purge
  BY <1>5, NoEntryType, Zenon DEF Purge, TypeOK, OffWhenDisabled, schedule, ghosts
<1>6. CASE ClearPrefetchSchedule
  <2>1. due' \in Nat /\ failure' \in Failures /\ due' = 0 /\ failure' = NoFailure
    BY <1>6, UnscheduleType DEF ClearPrefetchSchedule
  <2>. QED  BY <1>6, <2>1, Zenon DEF ClearPrefetchSchedule, TypeOK, OffWhenDisabled, ghosts
<1>7. CASE UNCHANGED vars
  BY <1>7 DEF vars, TypeOK, OffWhenDisabled
<1>. QED  BY <1>1, <1>2, <1>3, <1>4, <1>5, <1>6, <1>7, Zenon DEF Next

(* Every variable keeps its type, and with prefetching off nothing is ever *)
(* scheduled: no policy but the four there are is stored or answered.      *)
THEOREM TypeCorrect == Spec => []TypeOK
<1>. QED  BY InitType, NextType, PTL DEF Spec

---------------------------------------------------------------------------
(* Every copy of the entry that may still be looked up from or stored says *)
(* "no DANE" only after a lookup has said so, as does every result.        *)
AbsenceInv ==
  /\ KnownAbsent(entry) => absent
  /\ KnownAbsent(flight.base) => absent
  /\ \A c \in Conns : /\ KnownAbsent(conn[c].base) => absent
                      /\ FoundAbsent(conn[c].res) => absent
  /\ DaneAbsenceProven

(* The idle states claim nothing.                                          *)
LEMMA IdleClaimsNothing ==
  /\ ~KnownAbsent(NoEntry) /\ ~KnownAbsent(StatsOnly)
  /\ ~FoundAbsent(NoResult)
  /\ IdleConn.base = NoEntry /\ IdleConn.res = NoResult /\ IdleConn.pc = "idle"
  /\ NoFlight.base = NoEntry
BY Zenon DEF KnownAbsent, FoundAbsent, HasData, HasLive, NoEntry, StatsOnly, NoBranch, NoResult,
             NoLive,
   IdleConn, NoFlight

(* What is cached at the start was found out by lookups of an earlier run. *)
LEMMA InitAbsence == Init => AbsenceInv
BY IdleClaimsNothing, Zenon DEF Init, AbsenceInv, DaneAbsenceProven, Answering
(* A connection's steps, and the lookups, keep it.                         *)
LEMMA ConnectionAbsence ==
  ASSUME TypeOK, AbsenceInv,
         \/ \E c \in Conns : TryCachedPolicy(c) \/ ConnStep(c)
         \/ Lookup
  PROVE  AbsenceInv'
<1>. USE DEF AbsenceInv
<1>. now \in Nat /\ entry \in Entries /\ conn \in [Conns -> ConnStates]
  BY DEF TypeOK
<1>1. ASSUME NEW c \in Conns, TryCachedPolicy(c) PROVE AbsenceInv'
  <2>. DEFINE sel == SelectCachedPolicy(entry, now)
              hit == [IdleConn EXCEPT !.pc = "hit", !.res = [NoResult EXCEPT !.policy = sel.policy]]
              miss == [IdleConn EXCEPT !.pc = "miss", !.base = entry]
  <2>1. sel.ok /\ sel.policy \in {"", "secure"} => absent
    BY SelectSound, Zenon
  <2>. HIDE DEF sel
  <2>2. /\ hit.pc = "hit" /\ hit.base = NoEntry /\ hit.res.policy = sel.policy
        /\ hit.res.dane = NoLive
        /\ miss.pc = "miss" /\ miss.base = entry /\ miss.res = NoResult
    BY Zenon DEF IdleConn, NoResult
  <2>. HIDE DEF hit, miss
  <2>3. ~FoundAbsent(hit.res)
    <3>1. NoLive.ttl = 0
      BY DEF NoLive
    <3>. QED  BY <2>2, <3>1, Zenon DEF FoundAbsent, HasLive
  <2>4. /\ conn' = [conn EXCEPT ![c] = IF sel.ok THEN hit ELSE miss]
        /\ UNCHANGED <<entry, flight, absent>>
    BY <1>1 DEF TryCachedPolicy, hit, miss, sel, ghosts
  <2>. QED
    BY <2>1, <2>2, <2>3, <2>4, IdleClaimsNothing, Zenon DEF DaneAbsenceProven, Answering
<1>2. ASSUME NEW c \in Conns, HitDelivered(c) PROVE AbsenceInv'
  BY <1>2, IdleClaimsNothing, Zenon DEF HitDelivered, DaneAbsenceProven, Answering, ghosts
<1>3. ASSUME NEW c \in Conns, RefreshDomain(c) PROVE AbsenceInv'
  <2>1. conn[c] \in ConnStates
    BY Zenon
  <2>2. /\ \A x \in Conns : conn'[x].base = conn[x].base /\ conn'[x].res = conn[x].res
        /\ \A x \in Conns : x # c => conn'[x].pc = conn[x].pc
        /\ conn'[c].pc = "wait"
        /\ UNCHANGED <<entry, absent>>
    BY <1>3, <2>1, Zenon DEF RefreshDomain, ConnStates, ghosts
  <2>3. flight'.base = flight.base \/ flight'.base = conn[c].base
    BY <1>3, Zenon DEF RefreshDomain
  <2>. QED  BY <2>2, <2>3, Zenon DEF DaneAbsenceProven, Answering
<1>4. ASSUME NEW c \in Conns, ReplySocketmap(c) PROVE AbsenceInv'
  <2>1. PICK j \in 0 .. EXPIRY_JITTER :
          LET cs == MergeCacheResult(conn[c].base, conn[c].res, now, j)
              store == WorthStoring(conn[c].base, conn[c].res)
          IN  /\ entry' = IF store THEN cs ELSE entry
              /\ conn' = [conn EXCEPT ![c] =
                   IF store /\ Prefetch THEN [IdleConn EXCEPT !.pc = "schedule", !.base = cs]
                                        ELSE IdleConn]
              /\ UNCHANGED <<now, flight, schedule, worker, tidy, purging, ghosts>>
    BY <1>4, Zenon DEF ReplySocketmap
  <2>. DEFINE cs == MergeCacheResult(conn[c].base, conn[c].res, now, j)
              next == [IdleConn EXCEPT !.pc = "schedule", !.base = cs]
  <2>2. conn[c].base \in Entries /\ conn[c].res \in Results /\ j \in Nat
    BY BranchAssumption DEF ConnStates
  <2>3. KnownAbsent(cs) => absent
    BY <2>2, MergeSound, Zenon
  <2>. HIDE DEF cs
  <2>4. next.pc = "schedule" /\ next.base = cs /\ next.res = NoResult
    BY DEF IdleConn
  <2>5. /\ entry' = cs \/ entry' = entry
        /\ \/ conn' = [conn EXCEPT ![c] = next]
           \/ conn' = [conn EXCEPT ![c] = IdleConn]
        /\ UNCHANGED <<flight, absent>>
    BY <2>1, Zenon DEF cs, ghosts
  <2>. HIDE DEF next
  <2>. QED
    BY <2>3, <2>4, <2>5, IdleClaimsNothing, Zenon DEF DaneAbsenceProven, Answering
<1>5. ASSUME NEW c \in Conns, ScheduleResult(c) PROVE AbsenceInv'
  BY <1>5, IdleClaimsNothing, Zenon DEF ScheduleResult, DaneAbsenceProven, Answering, ghosts
<1>6. ASSUME NEW d \in DaneOutcomes, NEW m \in MtaStsOutcomes, FlightEnd(d, m) PROVE AbsenceInv'
  <2>. DEFINE r == QueryDomainBranches(flight.base, flight.start, 0, d, m)
  <2>1. flight.base \in Entries /\ flight.start \in Nat
    BY Zenon DEF TypeOK, FlightStates
  <2>2. DaneOutcome(d) /\ MtaStsOutcome(m)
    BY ServerAssumption, Zenon DEF DaneOutcome, MtaStsOutcome
  <2>3. r.policy \in {"", "secure"} => FoundAbsent(r) \/ absent
    BY <2>1, <2>2, QuerySound, Zenon
  <2>. HIDE DEF r
  <2>4. /\ conn' = [c \in Conns |->
              IF conn[c].pc = "wait"
              THEN [conn[c] EXCEPT !.pc = "reply", !.res = r, !.at = now]
              ELSE conn[c]]
        /\ flight' = NoFlight /\ Witnessed(r) /\ UNCHANGED entry
    BY <1>6, Zenon DEF FlightEnd, r
  <2>5. (absent \/ FoundAbsent(r)) => absent'
    BY <2>4, Zenon DEF Witnessed, FoundAbsent
  <2>6. \A c \in Conns : \/ conn'[c] = conn[c]
                         \/ conn'[c].base = conn[c].base /\ conn'[c].res = r
    BY <2>4, Zenon DEF ConnStates
  <2>. QED
    BY <2>3, <2>4, <2>5, <2>6, IdleClaimsNothing, Zenon DEF DaneAbsenceProven, Answering
<1>. QED  BY <1>1, <1>2, <1>3, <1>4, <1>5, <1>6, Zenon DEF ConnStep, Lookup

(* With prefetching off, so does every step.                               *)
LEMMA NextAbsence ==
  ASSUME ~Prefetch, TypeOK, AbsenceInv, [Next]_vars
  PROVE  AbsenceInv'
<1>. USE DEF AbsenceInv, DaneAbsenceProven, Answering
<1>1. CASE Tick
  BY <1>1, Zenon DEF Tick, ghosts
<1>2. CASE (\E c \in Conns : TryCachedPolicy(c) \/ ConnStep(c)) \/ Lookup
  BY <1>2, ConnectionAbsence, Zenon
<1>3. CASE PrefetchStep
  <2>1. worker = IdleWorker /\ due = 0
    BY Zenon DEF TypeOK, OffWhenDisabled
  <2>2. worker.pc = "idle"
    BY <2>1, Zenon DEF IdleWorker
  <2>. QED
    BY <1>3, <2>1, <2>2, ZenonT(60) DEF PrefetchStep, PopDue, PrefetchGet, PrefetchDiscard,
                                   PrefetchUnschedule,
       PrefetchPostpone, PrefetchBegin, PrefetchLookup, PrefetchRenewed, PrefetchMissed,
       PrefetchRetry, PrefetchGiveUp, PrefetchDrop, PrefetchDropped
<1>4. CASE TidyStep
  <2>1. entry' = entry \/ entry' = StatsOnly
    BY <1>4, Zenon DEF TidyStep, TidyItems, TidyKeep, TidyDiscard, TidyReplaced, TidyUnschedule,
       TidySchedule
  <2>2. UNCHANGED <<conn, flight, absent>>
    BY <1>4, Zenon DEF TidyStep, TidyItems, TidyKeep, TidyDiscard, TidyReplaced, TidyUnschedule,
       TidySchedule, ghosts
  <2>. QED  BY <2>1, <2>2, IdleClaimsNothing, Zenon
<1>5. CASE Purge \/ ClearPrefetchSchedule
  <2>1. entry' = entry \/ entry' = NoEntry
    BY <1>5, Zenon DEF Purge, ClearPrefetchSchedule
  <2>2. UNCHANGED <<conn, flight, absent>>
    BY <1>5, Zenon DEF Purge, ClearPrefetchSchedule, ghosts
  <2>. QED  BY <2>1, <2>2, IdleClaimsNothing, Zenon
<1>6. CASE UNCHANGED vars
  BY <1>6, Zenon DEF vars
<1>. QED  BY <1>1, <1>2, <1>3, <1>4, <1>5, <1>6, Zenon DEF Next

(* With prefetching off, no client is told anything but a DANE policy or a *)
(* temporary failure unless a DANE lookup has found that there is none:    *)
(* for any number of connections sharing lookups, whatever entry a slow    *)
(* one stores over a newer one, and whatever tidyCache and PURGE remove.   *)
THEOREM DaneAbsenceProvenAlways ==
  ASSUME ~Prefetch
  PROVE  Spec => []DaneAbsenceProven
<1>1. TypeOK /\ AbsenceInv /\ [Next]_vars => AbsenceInv'
  BY NextAbsence
<1>2. AbsenceInv => DaneAbsenceProven
  BY DEF AbsenceInv
<1>. QED  BY <1>1, <1>2, InitAbsence, TypeCorrect, PTL DEF Spec
---------------------------------------------------------------------------
(* A branch that has been expired for any time has none left.              *)
LEMMA SinceUntil ==
  ASSUME NEW e \in Nat, NEW t \in Nat, Since(e, t) > 0
  PROVE  Until(e, t) = 0
BY BranchAssumption DEF Since, Until

(* What tidyCache judges removable has no branch that is still valid.      *)
LEMMA RemovableIsExpired ==
  ASSUME NEW c \in Entries, NEW t \in Nat, Removable(c, t)
  PROVE  EntryRemainingTTL(c, t) = 0
<1>. DEFINE d == c.dane.exp
            m == c.mtaSts.exp
<1>1. d \in Nat /\ m \in Nat /\ c.exp \in Nat
  BY DEF Entries
<1>. SUFFICES ASSUME EntryAge(c, t) >= CACHE_MAX_AGE PROVE EntryRemainingTTL(c, t) = 0
  BY DEF Removable
<1>2. \A e \in Nat : Since(e, t) \in Nat
  BY BranchAssumption DEF Since
<1>3. \A e \in Nat : Since(e, t) >= CACHE_MAX_AGE => Until(e, t) = 0
  BY <1>2, SinceUntil, BranchAssumption
<1>4. \A e \in Nat : e = 0 => Until(e, t) = 0
  BY DEF Until
<1>5. CASE ~HasBranches(c)
  <2>1. EntryAge(c, t) = Since(c.exp, t)
    BY <1>5 DEF EntryAge, HasBranches
  <2>. QED  BY <1>1, <1>3, <1>5, <2>1 DEF EntryRemainingTTL
<1>6. CASE HasBranches(c)
  <2>. SUFFICES Until(d, t) = 0 /\ Until(m, t) = 0
    BY <1>6, Zenon DEF EntryRemainingTTL, RemainingTTL, Larger
  <2>1. CASE ~HasData(c.dane)
    <3>1. EntryAge(c, t) = Since(m, t)
      BY <1>6, <2>1, Zenon DEF EntryAge, HasBranches
    <3>. QED  BY <1>1, <1>3, <1>4, <2>1, <3>1, Zenon DEF HasData
  <2>2. CASE HasData(c.dane) /\ ~HasData(c.mtaSts)
    <3>1. EntryAge(c, t) = Since(d, t)
      BY <1>6, <2>2 DEF EntryAge, HasBranches
    <3>. QED  BY <1>1, <1>3, <1>4, <2>2, <3>1, Zenon DEF HasData
  <2>3. CASE HasData(c.dane) /\ HasData(c.mtaSts)
    <3>1. EntryAge(c, t) = Smaller(Since(d, t), Since(m, t))
      BY <1>6, <2>3, Zenon DEF EntryAge, HasBranches
    <3>2. Since(d, t) >= CACHE_MAX_AGE /\ Since(m, t) >= CACHE_MAX_AGE
      BY <1>1, <1>2, <3>1, BranchAssumption DEF Smaller
    <3>. QED  BY <1>1, <1>3, <3>2, Zenon
  <2>. QED  BY <2>1, <2>2, <2>3, Zenon
<1>. QED  BY <1>5, <1>6, Zenon

(* tidyCache never discards an entry of which a branch is still valid: for *)
(* any interleaving with connections, prefetches and PURGE that replace    *)
(* the entry after tidyCache listed it.                                    *)
THEOREM TidyDiscardsOnlyExpiredAlways == Spec => TidyDiscardsOnlyExpired
<1>. DEFINE A == tidy.pc = "judge" /\ tidy'.pc = "unschedule" => EntryRemainingTTL(entry, now) = 0
<1>1. TypeOK /\ [Next]_vars => [A]_vars
  <2>. SUFFICES ASSUME TypeOK, Next, tidy.pc = "judge", tidy'.pc = "unschedule"
                PROVE  EntryRemainingTTL(entry, now) = 0
    OBVIOUS
  <2>1. CASE TidyStep
    <3>1. TidyDiscard
      <4>1. IdleTidy.pc = "idle"
        BY DEF IdleTidy
      <4>. QED
        BY <2>1, <4>1 DEF TidyStep, TidyItems, TidyKeep, TidyReplaced, TidyUnschedule, TidySchedule,
           TypeOK, TidyStates
    <3>2. Removable(tidy.base, now) /\ entry = tidy.base
      BY <3>1 DEF TidyDiscard, IsCurrent
    <3>. QED  BY <3>2, RemovableIsExpired, Zenon DEF TypeOK
  <2>2. CASE ~TidyStep
    <3>1. tidy' = tidy
      BY <2>2, ZenonT(60) DEF Next, Tick, TryCachedPolicy, ConnStep, HitDelivered, RefreshDomain,
         ReplySocketmap, ScheduleResult, Lookup, FlightEnd, PrefetchStep, PopDue, PrefetchGet,
         PrefetchDiscard, PrefetchUnschedule, PrefetchPostpone, PrefetchBegin, PrefetchLookup,
         PrefetchRenewed, PrefetchMissed, PrefetchRetry, PrefetchGiveUp, PrefetchDrop,
         PrefetchDropped, Purge, ClearPrefetchSchedule
    <3>. QED  BY <3>1, Zenon
  <2>. QED  BY <2>1, <2>2, Zenon
<1>. QED  BY <1>1, TypeCorrect, PTL DEF Spec, TidyDiscardsOnlyExpired

(* A refresh whose MTA-STS lookup fails or yields nothing leaves the       *)
(* MTA-STS branch of the entry it started from as it is, as long as that   *)
(* branch has not expired when the lookup begins: queryDomainBranches and  *)
(* mergeCacheResult together, whatever the DANE lookup returns, for a      *)
(* connection's refresh and a prefetch alike.                              *)
THEOREM UnavailableKeepsMtaSts ==
  ASSUME NEW c \in Entries, NEW t \in Nat, NEW b \in Nat,
         NEW d, DaneOutcome(d), NEW m, MtaStsOutcome(m), LivePolicyUnavailable(m),
         RemainingTTL(c.mtaSts, t) # 0,
         NEW stored \in Nat, NEW j \in Nat
  PROVE  MergeCacheResult(c, QueryDomainBranches(c, t, b, d, m), stored, j).mtaSts = c.mtaSts
<1>. DEFINE r == QueryDomainBranches(c, t, b, d, m)
            merged == MergedBranches(c, r, stored, j)
<1>1. HasLive(FreshBranch(c.mtaSts, t))
  BY DEF HasLive, FreshBranch
<1>2. r.mtaSts = NoLive
  BY <1>1 DEF QueryDomainBranches
<1>3. r \in Results
  BY QueryType
<1>. HIDE DEF r
<1>4. ~HasLive(r.mtaSts)
  <2>1. NoLive.ttl = 0
    BY DEF NoLive
  <2>. QED  BY <1>2, <2>1 DEF HasLive
<1>5. merged \in Entries
  BY <1>3, MergedType
<1>6. merged.mtaSts = c.mtaSts
  BY <1>4 DEF MergedBranches, Entries
<1>. HIDE DEF merged
<1>7. /\ [merged EXCEPT !.policy = "", !.exp = 0].mtaSts = merged.mtaSts
      /\ [merged EXCEPT !.policy = r.policy].mtaSts = merged.mtaSts
  BY <1>5 DEF Entries
<1>8. MergeCacheResult(c, r, stored, j).mtaSts = merged.mtaSts
  BY <1>7 DEF MergeCacheResult, merged
<1>. QED  BY <1>6, <1>8 DEF r
---------------------------------------------------------------------------
(* FailuresAreRetried holds for longer than it says: once the retries are  *)
(* over no failure is recorded until the failed branch has been dropped,   *)
(* and tidyCache discards, leaving an entry behind, only one it listed.    *)
RetryInv ==
  /\ FailuresAreRetried
  /\ worker.pc = "drop" => failure.first = 0
  /\ tidy.pc = "judge" => tidy.base.found

(* Nothing is ever scheduled for the zero time.                            *)
LEMMA DueNonzero ==
  ASSUME NEW c \in Entries, NEW t \in Nat \ {0}
  PROVE  /\ 0 \notin NextPrefetchTime(c, t)
         /\ 0 \notin DueTimes(c, t)
         /\ 0 \notin NextPrefetchTimeAfterMiss(c, t)
<1>. DEFINE sel == SelectCachedPolicy(c, t)
<1>1. sel.ttl \in Nat
  BY SelectType
<1>. HIDE DEF sel
<1>2. /\ 0 \notin BatchAtOrAfter(t + sel.ttl)
      /\ 0 \notin NextPolicyPrefetchTime(t, sel.ttl)
      /\ 0 \notin BatchAtOrAfter(t)
  BY <1>1, ServerAssumption DEF BatchAtOrAfter, NextPolicyPrefetchTime
<1>3. 0 \notin NextPrefetchTime(c, t)
  BY <1>2, Zenon DEF NextPrefetchTime, sel
<1>4. \/ DueTimes(c, t) = NextPrefetchTime(c, t)
      \/ DueTimes(c, t) = BatchAtOrAfter(t)
      \/ DueTimes(c, t) = {}
  BY Zenon DEF DueTimes
<1>5. 0 \notin NextPrefetchTimeAfterMiss(c, t)
  BY <1>2, Zenon DEF NextPrefetchTimeAfterMiss, sel
<1>. QED  BY <1>2, <1>3, <1>4, <1>5

(* scheduleCachedPolicyPrefetch leaves a failure recorded only beside a    *)
(* due time, and records none itself.                                      *)
LEMMA ScheduleKeepsRetry ==
  ASSUME TypeOK, NEW c \in Entries, NEW fail, fail = failure \/ fail = NoFailure,
         ScheduleCachedPolicyPrefetch(c, now, fail), failure'.first # 0
  PROVE  due' # 0 /\ failure.first # 0
<1>1. NoFailure.first = 0
  BY DEF NoFailure
<1>2. Prefetch
  BY <1>1 DEF TypeOK, OffWhenDisabled, ScheduleCachedPolicyPrefetch, schedule
<1>3. due' \in DueTimes(c, now) /\ failure' = fail
  BY <1>1, <1>2 DEF ScheduleCachedPolicyPrefetch, UnscheduleCachedPolicyPrefetch
<1>4. now \in Nat \ {0}
  BY DEF TypeOK
<1>. QED  BY <1>1, <1>3, <1>4, DueNonzero

(* A connection's steps, and the lookups, keep it.                         *)
LEMMA ConnectionRetry ==
  ASSUME TypeOK, RetryInv,
         \/ \E c \in Conns : TryCachedPolicy(c) \/ ConnStep(c)
         \/ Lookup
  PROVE  RetryInv'
<1>. USE DEF RetryInv, FailuresAreRetried
<1>. conn \in [Conns -> ConnStates]
  BY Zenon DEF TypeOK
<1>1. ASSUME NEW c \in Conns, TryCachedPolicy(c) PROVE RetryInv'
  BY <1>1, Zenon DEF TryCachedPolicy, schedule
<1>2. ASSUME NEW c \in Conns, HitDelivered(c) PROVE RetryInv'
  BY <1>2, Zenon DEF HitDelivered, schedule
<1>3. ASSUME NEW c \in Conns, RefreshDomain(c) PROVE RetryInv'
  <2>1. \A x \in Conns : conn[x].pc = "schedule" => conn'[x].pc = "schedule"
    BY <1>3, Zenon DEF RefreshDomain, ConnStates
  <2>. QED  BY <1>3, <2>1, Zenon DEF RefreshDomain, schedule
<1>4. ASSUME NEW c \in Conns, ReplySocketmap(c) PROVE RetryInv'
  <2>1. /\ UNCHANGED <<due, failure, worker, tidy, purging>>
        /\ conn[c].pc = "reply"
        /\ \A x \in Conns : x # c => conn'[x] = conn[x]
    BY <1>4, Zenon DEF ReplySocketmap, schedule
  <2>2. Prefetch => entry' = entry \/ conn'[c].pc = "schedule"
    BY <1>4, ZenonT(60) DEF ReplySocketmap, IdleConn
  <2>3. ~Prefetch => failure.first = 0
    BY DEF TypeOK, OffWhenDisabled, NoFailure
  <2>. QED  BY <2>1, <2>2, <2>3, Zenon
<1>5. ASSUME NEW c \in Conns, ScheduleResult(c) PROVE RetryInv'
  <2>1. conn[c].base \in Entries
    BY Zenon DEF ConnStates
  <2>. DEFINE fail == IF SelectCachedPolicy(conn[c].base, now).ok THEN NoFailure ELSE failure
  <2>2. fail = failure \/ fail = NoFailure
    BY Zenon
  <2>. HIDE DEF fail
  <2>3. ScheduleCachedPolicyPrefetch(conn[c].base, now, fail)
    BY <1>5, Zenon DEF ScheduleResult, fail
  <2>4. failure'.first # 0 => due' # 0 /\ failure.first # 0
    BY <2>1, <2>2, <2>3, ScheduleKeepsRetry, Zenon
  <2>. QED  BY <1>5, <2>4, Zenon DEF ScheduleResult
<1>6. ASSUME NEW d \in DaneOutcomes, NEW m \in MtaStsOutcomes, FlightEnd(d, m) PROVE RetryInv'
  <2>1. \A x \in Conns : conn[x].pc = "schedule" => conn'[x].pc = "schedule"
    BY <1>6, Zenon DEF FlightEnd
  <2>. QED  BY <1>6, <2>1, Zenon DEF FlightEnd, schedule
<1>. QED  BY <1>1, <1>2, <1>3, <1>4, <1>5, <1>6, Zenon DEF ConnStep, Lookup

(* What prefetchDuePoliciesContext does once the lookups of a refresh are  *)
(* back: it stores the merged entry if anything was looked up, and goes on *)
(* to a failure only when a lookup failed or nothing can be selected.      *)
LEMMA LookupEffect ==
  ASSUME TypeOK, NEW d \in DaneOutcomes, NEW m \in MtaStsOutcomes, PrefetchLookup(d, m)
  PROVE  \E j \in Nat :
           LET c == worker.base
               r == QueryDomainBranches(c, worker.at, PREFETCH_INTERVAL, d, m)
               attempted == r.daneAttempted \/ r.mtaStsAttempted
               merged == MergeCacheResult(c, r, now, j)
           IN  /\ r \in Results
               /\ worker.pc = "lookup"
               /\ entry' = IF attempted THEN merged ELSE entry
               /\ worker'.pc \in {"renewed", "missed", "failed"}
               /\ worker'.pc = "failed" =>
                    \/ DaneFailed(r) \/ MtaStsFailed(r)
                    \/ attempted /\ ~SelectCachedPolicy(merged, now).ok
                    \/ ~attempted /\ ~SelectCachedPolicy(c, now).ok
               /\ worker'.base = merged \/ worker'.base = c
               /\ worker'.none => r.mtaStsAttempted /\ m.policy = "" /\ m.ttl # 0
               /\ Witnessed(r)
               /\ UNCHANGED <<now, conn, flight, due, failure, tidy, purging>>
<1>1. PICK j \in 0 .. EXPIRY_JITTER :
        LET c == worker.base
            r == QueryDomainBranches(c, worker.at, PREFETCH_INTERVAL, d, m)
            attempted == r.daneAttempted \/ r.mtaStsAttempted
            merged == MergeCacheResult(c, r, now, j)
            selected == SelectCachedPolicy(merged, now).ok
            pc == CASE attempted /\ selected /\ ~DaneFailed(r) /\ ~MtaStsFailed(r) -> "renewed"
                    [] ~attempted /\ SelectCachedPolicy(c, now).ok -> "missed"
                    [] OTHER -> "failed"
        IN  /\ worker.pc = "lookup"
            /\ entry' = IF attempted THEN merged ELSE entry
            /\ worker' = [pc |-> pc, base |-> IF attempted /\ selected THEN merged ELSE c,
                          at |-> 0, res |-> r,
                          none |-> r.mtaStsAttempted /\ m.fetched /\ m.policy = "" /\ m.ttl # 0]
            /\ Witnessed(r)
            /\ UNCHANGED <<now, conn, flight, schedule, tidy, purging>>
  BY ZenonT(60) DEF PrefetchLookup
<1>. DEFINE c == worker.base
            r == QueryDomainBranches(c, worker.at, PREFETCH_INTERVAL, d, m)
            attempted == r.daneAttempted \/ r.mtaStsAttempted
            merged == MergeCacheResult(c, r, now, j)
            selected == SelectCachedPolicy(merged, now).ok
            usable == SelectCachedPolicy(c, now).ok
            failed == DaneFailed(r) \/ MtaStsFailed(r)
            pc == CASE attempted /\ selected /\ ~DaneFailed(r) /\ ~MtaStsFailed(r) -> "renewed"
                    [] ~attempted /\ SelectCachedPolicy(c, now).ok -> "missed"
                    [] OTHER -> "failed"
            none == r.mtaStsAttempted /\ m.fetched /\ m.policy = "" /\ m.ttl # 0
<1>2. /\ worker.pc = "lookup"
      /\ entry' = IF attempted THEN merged ELSE entry
      /\ worker' = [pc |-> pc, base |-> IF attempted /\ selected THEN merged ELSE c,
                    at |-> 0, res |-> r, none |-> none]
      /\ Witnessed(r)
      /\ UNCHANGED <<now, conn, flight, due, failure, tidy, purging>>
  BY <1>1, Zenon DEF schedule
<1>3. r \in Results
  <2>1. DaneOutcome(d) /\ MtaStsOutcome(m)
    BY ServerAssumption DEF DaneOutcome, MtaStsOutcome
  <2>. QED  BY <2>1, QueryType, ServerAssumption DEF TypeOK, WorkerStates
<1>4. j \in Nat
  BY BranchAssumption
<1>. HIDE DEF c, r, merged, selected, usable, attempted, failed
<1>5. pc = CASE attempted /\ selected /\ ~failed -> "renewed"
            [] ~attempted /\ usable -> "missed"
            [] OTHER -> "failed"
  BY Zenon DEF failed, usable
<1>. HIDE DEF pc
<1>6. /\ pc \in {"renewed", "missed", "failed"}
      /\ pc = "failed" => failed \/ (attempted /\ ~selected) \/ (~attempted /\ ~usable)
  BY <1>5
<1>7. none => r.mtaStsAttempted /\ m.policy = "" /\ m.ttl # 0
  BY Zenon
<1>. HIDE DEF none
<1>8. /\ worker'.pc = pc /\ worker'.none = none
      /\ worker'.base = merged \/ worker'.base = c
  BY <1>2, Zenon
<1>. QED
  BY <1>2, <1>3, <1>4, <1>6, <1>7, <1>8, Zenon DEF c, r, merged, attempted, selected, usable, failed

(* So do the prefetcher's: between scheduleFailedPolicyPrefetch and the    *)
(* store that drops the failed branch no failure is recorded.              *)
LEMMA PrefetchRetries ==
  ASSUME TypeOK, RetryInv, PrefetchStep
  PROVE  RetryInv'
<1>. USE DEF RetryInv, FailuresAreRetried
<1>. /\ worker \in WorkerStates /\ now \in Nat \ {0} /\ failure \in Failures
     /\ worker.base \in Entries /\ worker.res \in Results
  BY Zenon DEF TypeOK, WorkerStates
<1>0. NoFailure.first = 0 /\ IdleWorker.pc = "idle"
  BY Zenon DEF NoFailure, IdleWorker
<1>1. CASE PopDue
  BY <1>1, Zenon DEF PopDue, WorkerStates
<1>2. CASE PrefetchGet
  <2>1. worker'.pc = "decide" \/ (worker' = IdleWorker /\ ~entry.found)
    BY <1>2, Zenon DEF PrefetchGet, WorkerStates
  <2>. QED  BY <1>0, <1>2, <2>1, Zenon DEF PrefetchGet, schedule
<1>3. CASE PrefetchDiscard
  <2>1. worker'.pc = "unschedule"
    BY <1>3, Zenon DEF PrefetchDiscard, IdleWorker
  <2>. QED  BY <1>3, <2>1, Zenon DEF PrefetchDiscard, schedule
<1>4. CASE PrefetchUnschedule
  BY <1>0, <1>4, Zenon DEF PrefetchUnschedule, UnscheduleCachedPolicyPrefetch
<1>5. CASE PrefetchPostpone
  <2>1. failure'.first # 0 => due' # 0
    BY <1>5, ScheduleKeepsRetry, Zenon DEF PrefetchPostpone
  <2>. QED  BY <1>0, <1>5, <2>1, Zenon DEF PrefetchPostpone
<1>6. CASE PrefetchBegin
  <2>1. worker'.pc = "lookup"
    BY <1>6, Zenon DEF PrefetchBegin, WorkerStates
  <2>. QED  BY <1>6, <2>1, Zenon DEF PrefetchBegin, schedule
<1>7. ASSUME NEW d \in DaneOutcomes, NEW m \in MtaStsOutcomes, PrefetchLookup(d, m)
      PROVE  RetryInv'
  <2>1. worker'.pc \in {"renewed", "missed", "failed"}
    BY <1>7, LookupEffect, Zenon
  <2>. QED  BY <1>7, <2>1, Zenon DEF PrefetchLookup, schedule
<1>8. CASE PrefetchRenewed
  <2>1. failure'.first # 0 => due' # 0
    BY <1>8, ScheduleKeepsRetry, Zenon DEF PrefetchRenewed
  <2>. QED  BY <1>0, <1>8, <2>1, Zenon DEF PrefetchRenewed
<1>9. CASE PrefetchMissed
  <2>1. failure'.first # 0 => due' # 0
    BY <1>0, <1>9, ScheduleKeepsRetry, Zenon DEF PrefetchMissed
  <2>. QED  BY <1>0, <1>9, <2>1, Zenon DEF PrefetchMissed
<1>10. CASE PrefetchRetry
  <2>. DEFINE grace == FailedPolicyGraceDeadline(worker.base, worker.res)
              deadline == RetryDeadline(now, grace)
              delay == PrefetchRetryDelay(failure.delay)
  <2>1. delay \in Nat
    BY ServerAssumption DEF PrefetchRetryDelay, Smaller, Failures
  <2>2. now < deadline /\ \E t \in BatchAtOrAfter(now + delay) : due' = Smaller(t, deadline)
    BY <1>10, Zenon DEF PrefetchRetry, ScheduleRetryUntil
  <2>3. grace \in Nat
    BY GraceType, Zenon
  <2>4. deadline \in Nat
    <3>. HIDE DEF grace
    <3>. QED  BY <2>3, ServerAssumption DEF RetryDeadline, FirstFailed, Failures, Larger
  <2>. HIDE DEF deadline, delay
  <2>5. due' # 0
    BY <2>1, <2>2, <2>4, ServerAssumption DEF BatchAtOrAfter, Smaller
  <2>. QED  BY <1>0, <1>10, <2>5, Zenon DEF PrefetchRetry
<1>11. CASE PrefetchGiveUp
  BY <1>0, <1>11, Zenon DEF PrefetchGiveUp, UnscheduleCachedPolicyPrefetch
<1>12. CASE PrefetchDrop
  <2>1. worker'.pc # "drop"
    BY <1>0, <1>12, Zenon DEF PrefetchDrop, IdleWorker
  <2>. QED  BY <1>12, <2>1, Zenon DEF PrefetchDrop, schedule
<1>13. CASE PrefetchDropped
  <2>1. due' # 0
    BY <1>13, DueNonzero, Zenon DEF PrefetchDropped
  <2>. QED  BY <1>0, <1>13, <2>1, Zenon DEF PrefetchDropped
<1>. QED
  BY <1>1, <1>2, <1>3, <1>4, <1>5, <1>6, <1>7, <1>8, <1>9, <1>10, <1>11, <1>12, <1>13, Zenon
     DEF PrefetchStep

(* And tidyCache's, which discards only an entry it listed.                *)
LEMMA TidyRetry ==
  ASSUME TypeOK, RetryInv, TidyStep
  PROVE  RetryInv'
<1>. USE DEF RetryInv, FailuresAreRetried
<1>. tidy \in TidyStates /\ tidy.base \in Entries
  BY Zenon DEF TypeOK, TidyStates
<1>0. NoFailure.first = 0 /\ IdleTidy.pc = "idle"
  BY Zenon DEF NoFailure, IdleTidy
<1>1. CASE TidyItems
  BY <1>1, Zenon DEF TidyItems, schedule
<1>2. CASE TidyKeep
  BY <1>2, Zenon DEF TidyKeep, TidyStates, schedule
<1>3. CASE TidyDiscard
  <2>1. tidy'.pc = "unschedule"
    BY <1>3, Zenon DEF TidyDiscard, IdleTidy
  <2>. QED  BY <1>3, <2>1, Zenon DEF TidyDiscard, IsCurrent, schedule
<1>4. CASE TidyReplaced
  BY <1>0, <1>4, Zenon DEF TidyReplaced, schedule
<1>5. CASE TidyUnschedule
  BY <1>0, <1>5, Zenon DEF TidyUnschedule, UnscheduleCachedPolicyPrefetch
<1>6. CASE TidySchedule
  <2>1. failure'.first # 0 => due' # 0 /\ failure.first # 0
    BY <1>6, ScheduleKeepsRetry, Zenon DEF TidySchedule
  <2>. QED  BY <1>0, <1>6, <2>1, Zenon DEF TidySchedule
<1>. QED  BY <1>1, <1>2, <1>3, <1>4, <1>5, <1>6, Zenon DEF TidyStep

(* Every step keeps it.                                                    *)
LEMMA NextRetry == TypeOK /\ RetryInv /\ [Next]_vars => RetryInv'
<1>. SUFFICES ASSUME TypeOK, RetryInv, [Next]_vars PROVE RetryInv'
  BY Zenon
<1>0. NoFailure.first = 0 /\ ~NoEntry.found
  BY Zenon DEF NoFailure, NoEntry
<1>1. CASE Tick
  BY <1>1, Zenon DEF Tick, schedule, RetryInv, FailuresAreRetried
<1>2. CASE (\E c \in Conns : TryCachedPolicy(c) \/ ConnStep(c)) \/ Lookup
  BY <1>2, ConnectionRetry, Zenon
<1>3. CASE PrefetchStep
  BY <1>3, PrefetchRetries, Zenon
<1>4. CASE TidyStep
  BY <1>4, TidyRetry
<1>5. CASE Purge
  BY <1>0, <1>5, Zenon DEF Purge, schedule, RetryInv, FailuresAreRetried
<1>6. CASE ClearPrefetchSchedule
  BY <1>0, <1>6, ZenonT(60) DEF ClearPrefetchSchedule, UnscheduleCachedPolicyPrefetch, RetryInv,
     FailuresAreRetried
<1>7. CASE UNCHANGED vars
  BY <1>7 DEF vars, RetryInv, FailuresAreRetried
<1>. QED  BY <1>1, <1>2, <1>3, <1>4, <1>5, <1>6, <1>7, Zenon DEF Next

(* A record of failed refreshes of a cached domain is always accompanied   *)
(* by a due time or a prefetch, or about to be cleared: for any number of  *)
(* connections, and whatever tidyCache and PURGE do to the entry and the   *)
(* schedule between two steps of the prefetcher.                           *)
THEOREM FailuresRetried == Spec => []FailuresAreRetried
<1>1. Init => RetryInv
  BY DEF Init, NoFailure, IdleWorker, IdleTidy, RetryInv, FailuresAreRetried
<1>2. RetryInv => FailuresAreRetried
  BY Zenon DEF RetryInv
<1>. QED  BY <1>1, <1>2, NextRetry, TypeCorrect, PTL DEF Spec
---------------------------------------------------------------------------
(* The ghost that tells of a mode: none policy is down until a lookup      *)
(* ends.                                                                   *)
NotYetNone == worker.pc \in {"idle", "popped", "decide", "lookup"} => ~worker.none

(* mergeCacheResult keeps the branches it has merged.                      *)
LEMMA MergeKeepsBranches ==
  ASSUME NEW c \in Entries, NEW r \in Results, NEW t \in Nat, NEW j \in Nat
  PROVE  /\ MergeCacheResult(c, r, t, j).dane = MergedBranches(c, r, t, j).dane
         /\ MergeCacheResult(c, r, t, j).mtaSts = MergedBranches(c, r, t, j).mtaSts
         /\ MergeCacheResult(c, r, t, j).daneLast = MergedBranches(c, r, t, j).daneLast
         /\ MergeCacheResult(c, r, t, j).mtaStsLast = MergedBranches(c, r, t, j).mtaStsLast
<1>. DEFINE m == MergedBranches(c, r, t, j)
            Same(x) == /\ x.dane = m.dane /\ x.mtaSts = m.mtaSts
                       /\ x.daneLast = m.daneLast /\ x.mtaStsLast = m.mtaStsLast
<1>1. m \in Entries
  BY MergedType
<1>. HIDE DEF m
<1>2. Same([m EXCEPT !.policy = "", !.exp = 0]) /\ Same([m EXCEPT !.policy = r.policy])
  BY <1>1 DEF Entries
<1>3. \/ MergeCacheResult(c, r, t, j) = m
      \/ MergeCacheResult(c, r, t, j) = [m EXCEPT !.policy = "", !.exp = 0]
      \/ MergeCacheResult(c, r, t, j) = [m EXCEPT !.policy = r.policy]
  BY Zenon DEF MergeCacheResult, m
<1>. QED  BY <1>2, <1>3, Zenon DEF m

(* No lifetime is capped to nothing.                                       *)
LEMMA CapNonzero ==
  ASSUME NEW n \in Nat \ {0}
  PROVE  AtMostMaxTTL(n) # 0
BY BranchAssumption DEF AtMostMaxTTL, Smaller

(* A fetched policy of no enforcement with a lifetime is an answer:        *)
(* queryDomainBranches passes it on and mergeCacheResult stores it over    *)
(* whatever policy was cached.                                             *)
LEMMA ModeNoneMerged ==
  ASSUME NEW c \in Entries, NEW t \in Nat, NEW b \in Nat,
         NEW d, DaneOutcome(d), NEW m, MtaStsOutcome(m), m.policy = "", m.ttl # 0,
         QueryDomainBranches(c, t, b, d, m).mtaStsAttempted,
         NEW stored \in Nat, NEW j \in Nat
  PROVE  MergeCacheResult(c, QueryDomainBranches(c, t, b, d, m), stored, j).mtaSts.policy = ""
<1>. DEFINE r == QueryDomainBranches(c, t, b, d, m)
            live == MtaStsBranchFromResult(m)
<1>0. DefaultTTL(m) = m.ttl /\ m.policy # "TEMP"
  BY Zenon DEF DefaultTTL
<1>1. live = [policy |-> "", ttl |-> AtMostMaxTTL(m.ttl)]
  BY <1>0, Zenon DEF MtaStsBranchFromResult
<1>2. live.policy = "" /\ live.ttl # 0
  <2>2. m.ttl \in Nat \ {0}
    BY Zenon DEF MtaStsOutcome
  <2>. HIDE DEF live
  <2>. QED  BY <1>1, <2>2, CapNonzero, Zenon
<1>3. ~LivePolicyUnavailable(m)
  BY Zenon DEF LivePolicyUnavailable
<1>4. r.mtaStsAttempted = ShouldQueryMtaSts(c, t, b)
  BY Zenon DEF QueryDomainBranches
<1>5. r.mtaSts = live
  BY <1>3, <1>4, Zenon DEF QueryDomainBranches
<1>6. r \in Results
  BY QueryType, Zenon
<1>. HIDE DEF r, live
<1>7. r.mtaSts \in [policy : InMtaSts, ttl : Nat]
  BY <1>6, Zenon DEF Results
<1>8. \A p : Lengthened(r.mtaSts, p).policy = ""
  BY <1>2, <1>5, <1>7, Zenon DEF Lengthened
<1>9. MergedBranches(c, r, stored, j).mtaSts.policy = ""
  BY <1>2, <1>5, <1>8, Zenon DEF MergedBranches, HasLive, ExpireMtaStsBranch, Entries
<1>. QED  BY <1>6, <1>9, MergeKeepsBranches, ZenonT(60) DEF r

(* The ghost tells about the refresh that has just ended.                  *)
LEMMA NextNotYetNone == TypeOK /\ NotYetNone /\ [Next]_vars => NotYetNone'
<1>. SUFFICES ASSUME TypeOK, NotYetNone, [Next]_vars PROVE NotYetNone'
  BY Zenon
<1>. USE DEF NotYetNone
<1>1. worker \in WorkerStates
  BY Zenon DEF TypeOK
<1>2. ~IdleWorker.none
  BY Zenon DEF IdleWorker
<1>3. CASE PopDue \/ PrefetchGet \/ PrefetchBegin \/ PrefetchGiveUp
  BY <1>1, <1>2, <1>3, ZenonT(60) DEF PopDue, PrefetchGet, PrefetchBegin, PrefetchGiveUp, WorkerStates
<1>4. CASE PrefetchUnschedule \/ PrefetchPostpone \/ PrefetchRenewed \/ PrefetchMissed
             \/ PrefetchRetry \/ PrefetchDropped
  BY <1>2, <1>4 DEF PrefetchUnschedule, PrefetchPostpone, PrefetchRenewed, PrefetchMissed,
     PrefetchRetry, PrefetchDropped
<1>5. CASE PrefetchDiscard \/ PrefetchDrop
  BY <1>2, <1>5, Zenon DEF PrefetchDiscard, PrefetchDrop, IdleWorker
<1>6. ASSUME NEW d \in DaneOutcomes, NEW m \in MtaStsOutcomes, PrefetchLookup(d, m)
      PROVE  NotYetNone'
  <2>1. worker'.pc \in {"renewed", "missed", "failed"}
    BY <1>6, LookupEffect, Zenon
  <2>. QED  BY <2>1
<1>7. CASE UNCHANGED worker
  BY <1>7, Zenon
<1>8. PrefetchStep \/ UNCHANGED worker
  BY Zenon DEF Next, Tick, TryCachedPolicy, ConnStep, HitDelivered, RefreshDomain, ReplySocketmap,
     ScheduleResult, Lookup, FlightEnd, TidyStep, TidyItems, TidyKeep, TidyDiscard, TidyReplaced,
     TidyUnschedule, TidySchedule, Purge, ClearPrefetchSchedule, vars
<1>. QED  BY <1>3, <1>4, <1>5, <1>6, <1>7, <1>8, Zenon DEF PrefetchStep

(* A prefetch that fetched a mode: none policy with a lifetime stores it   *)
(* over whatever policy was cached, for every lifetime of either and every *)
(* outcome of the DANE lookup made at the same time.                       *)
THEOREM ModeNoneAlwaysReplaces == Spec => ModeNoneReplaces
<1>. DEFINE A == worker.pc = "lookup" /\ worker'.none => entry'.mtaSts.policy = ""
<1>1. Init => NotYetNone
  BY DEF Init, NotYetNone, IdleWorker
<1>2. TypeOK /\ NotYetNone /\ [Next]_vars => [A]_vars
  <2>. SUFFICES ASSUME TypeOK, NotYetNone, Next, worker.pc = "lookup", worker'.none
                PROVE  entry'.mtaSts.policy = ""
    BY Zenon
  <2>1. worker' # worker
    BY Zenon DEF NotYetNone
  <2>2. ASSUME NEW d \in DaneOutcomes, NEW m \in MtaStsOutcomes, PrefetchLookup(d, m)
        PROVE  entry'.mtaSts.policy = ""
    <3>. DEFINE r == QueryDomainBranches(worker.base, worker.at, PREFETCH_INTERVAL, d, m)
    <3>1. PICK j \in Nat :
            /\ entry' = IF r.daneAttempted \/ r.mtaStsAttempted
                        THEN MergeCacheResult(worker.base, r, now, j) ELSE entry
            /\ r.mtaStsAttempted /\ m.policy = "" /\ m.ttl # 0
      BY <2>2, LookupEffect, Zenon
    <3>2. DaneOutcome(d) /\ MtaStsOutcome(m)
      BY ServerAssumption DEF DaneOutcome, MtaStsOutcome
    <3>3. worker.base \in Entries /\ worker.at \in Nat /\ now \in Nat
      BY Zenon DEF TypeOK, WorkerStates
    <3>4. PREFETCH_INTERVAL \in Nat
      BY ServerAssumption, Zenon
    <3>5. MergeCacheResult(worker.base, r, now, j).mtaSts.policy = ""
      BY <3>1, <3>2, <3>3, <3>4, ModeNoneMerged, Zenon
    <3>. HIDE DEF r
    <3>. QED  BY <3>1, <3>5, Zenon
  <2>3. PrefetchStep
    BY <2>1, ZenonT(60) DEF Next, Tick, TryCachedPolicy, ConnStep, HitDelivered, RefreshDomain,
                       ReplySocketmap,
       ScheduleResult, Lookup, FlightEnd, TidyStep, TidyItems, TidyKeep, TidyDiscard, TidyReplaced,
       TidyUnschedule, TidySchedule, Purge, ClearPrefetchSchedule
  <2>. QED
    BY <2>2, <2>3, Zenon DEF PrefetchStep, PopDue, PrefetchGet, PrefetchDiscard, PrefetchUnschedule,
       PrefetchPostpone, PrefetchBegin, PrefetchRenewed, PrefetchMissed, PrefetchRetry,
       PrefetchGiveUp, PrefetchDrop, PrefetchDropped
<1>. QED  BY <1>1, <1>2, NextNotYetNone, TypeCorrect, PTL DEF Spec, ModeNoneReplaces
---------------------------------------------------------------------------
(* An answer without DANE is justified: there is none, or the retries of a *)
(* lookup that failed are over.                                            *)
Licensed ==
  absent \/ (firstFailure # 0 /\ now >= firstFailure + PREFETCH_RETRY_MAX_AGE)

(* Every copy of the entry that may still be looked up from or stored says *)
(* "no DANE" only with that justification, as does every result.           *)
CopiesLicensed ==
  /\ KnownAbsent(entry) \/ KnownAbsent(flight.base) \/ KnownAbsent(worker.base) => Licensed
  /\ \A c \in Conns :
       /\ KnownAbsent(conn[c].base) \/ FoundAbsent(conn[c].res) => Licensed
       /\ Answering(c) /\ conn[c].res.policy \in {"", "secure"} => Licensed

(* The scheduler's record of failures begins no earlier than the first     *)
(* lookup that failed, so that the end of its retry window is late enough. *)
(* A refresh during which no lookup failed may be recorded as a failure    *)
(* too, because nothing could be selected afterwards, but then the absence *)
(* of DANE is known; that rests on how long the lookups may take.          *)
WindowInv ==
  /\ firstFailure <= now
  /\ worker.pc = "lookup" => worker.at <= now /\ now <= worker.at + 1
  /\ worker.pc = "failed" => Licensed \/ firstFailure # 0
  /\ worker.pc = "drop" => Licensed
  /\ failure.first # 0 => Licensed \/ (firstFailure # 0 /\ firstFailure <= failure.first)

(* Whoever takes a step, the clock does not go back, and what the ghosts   *)
(* have recorded stays recorded.                                           *)
LEMMA GhostsGrow ==
  ASSUME TypeOK, [Next]_vars
  PROVE  /\ now' \in Nat /\ now <= now' /\ firstFailure' \in Nat
         /\ absent => absent'
         /\ firstFailure' = firstFailure \/ (firstFailure = 0 /\ firstFailure' = now)
<1>1. now \in Nat /\ firstFailure \in Nat
  BY Zenon DEF TypeOK
<1>2. \A r : Witnessed(r) =>
        /\ absent => absent'
        /\ firstFailure' = firstFailure \/ (firstFailure = 0 /\ firstFailure' = now)
  BY ZenonT(60) DEF Witnessed
<1>3. CASE Tick
  BY <1>1, <1>3 DEF Tick, ghosts
<1>4. CASE Lookup
  <2>1. now' = now /\ \E r : Witnessed(r)
    BY <1>4, Zenon DEF Lookup, FlightEnd
  <2>. QED  BY <1>1, <1>2, <2>1
<1>5. CASE \E d \in DaneOutcomes, m \in MtaStsOutcomes : PrefetchLookup(d, m)
  <2>1. now' = now /\ \E r : Witnessed(r)
    BY <1>5, LookupEffect, Zenon
  <2>. QED  BY <1>1, <1>2, <2>1
<1>6. CASE UNCHANGED <<now, absent, firstFailure>>
  BY <1>1, <1>6
<1>. QED
  BY <1>3, <1>4, <1>5, <1>6, ZenonT(60) DEF Next, TryCachedPolicy, ConnStep, HitDelivered, RefreshDomain,
     ReplySocketmap, ScheduleResult, PrefetchStep, PopDue, PrefetchGet, PrefetchDiscard,
     PrefetchUnschedule, PrefetchPostpone, PrefetchBegin, PrefetchRenewed, PrefetchMissed,
     PrefetchRetry, PrefetchGiveUp, PrefetchDrop, PrefetchDropped, TidyStep, TidyItems, TidyKeep,
     TidyDiscard, TidyReplaced, TidyUnschedule, TidySchedule, Purge, ClearPrefetchSchedule, ghosts,
     vars

(* So an answer without DANE that was justified once stays justified.      *)
LEMMA LicensedStays ==
  ASSUME TypeOK, [Next]_vars, Licensed
  PROVE  Licensed'
<1>1. now \in Nat /\ firstFailure \in Nat /\ PREFETCH_RETRY_MAX_AGE \in Nat
  BY ServerAssumption, Zenon DEF TypeOK
<1>. QED  BY <1>1, GhostsGrow DEF Licensed

(* A branch that has not expired has a lifetime left and is data.          *)
LEMMA Unexpired ==
  /\ \A e, t \in Nat : e > t => Until(e, t) # 0 /\ e # 0
  /\ \A e, s, t \in Nat : t <= s + 1 /\ Until(e, s) > 1 => e > t /\ e # 0
  /\ \A n, t, j \in Nat : n # 0 => t + n + j > t
BY DEF Until

(* selectCachedPolicy takes a DANE policy that has not expired.            *)
LEMMA SelectsDane ==
  ASSUME NEW c \in Entries, NEW t \in Nat, c.dane.policy \in DanePolicies, c.dane.exp > t
  PROVE  SelectCachedPolicy(c, t).ok
<1>1. c.dane.exp \in Nat
  BY Zenon DEF Entries
<1>. DEFINE daneTTL == RemainingTTL(c.dane, t)
            mtaStsTTL == RemainingTTL(c.mtaSts, t)
<1>3. daneTTL # 0 /\ HasBranches(c)
  BY <1>1, Unexpired DEF RemainingTTL, HasBranches, HasData
<1>. HIDE DEF daneTTL, mtaStsTTL
<1>4. SelectCachedPolicy(c, t) = Selected(c.dane.policy, daneTTL)
  BY <1>3, Zenon DEF SelectCachedPolicy, daneTTL, mtaStsTTL, DanePolicies
<1>5. \A p, n : Selected(p, n).ok
  BY Zenon DEF Selected
<1>. QED  BY <1>4, <1>5, Zenon

(* A stored branch with the policy of an answer, that expires when the TTL *)
(* of the answer and the jitter have passed.                               *)
ExpiresAs(x, b, t, j) == x.policy = b.policy /\ x.exp = t + b.ttl + j

(* expireBranch stores an answer that way.                                 *)
LEMMA ExpiredFields ==
  ASSUME NEW b, NEW t, NEW j
  PROVE  ExpiresAs(ExpireBranch(b, t, j), b, t, j)
  BY DEF ExpireBranch, ExpiresAs

(* A refresh of which no lookup failed and after which nothing can be      *)
(* selected has found that there is no DANE policy, or started from an     *)
(* entry that says so: a DANE branch that was not looked up again lives    *)
(* for more than PREFETCH_INTERVAL, and so longer than the lookups take.   *)
LEMMA UnselectedIsAbsent ==
  ASSUME NEW c \in Entries, NEW at \in Nat, NEW t \in Nat, at <= t, t <= at + 1,
         NEW d, DaneOutcome(d), NEW m, MtaStsOutcome(m), NEW r, NEW j \in Nat,
         r = QueryDomainBranches(c, at, PREFETCH_INTERVAL, d, m),
         ~DaneFailed(r),
         \/ (r.daneAttempted \/ r.mtaStsAttempted)
            /\ ~SelectCachedPolicy(MergeCacheResult(c, r, t, j), t).ok
         \/ ~(r.daneAttempted \/ r.mtaStsAttempted) /\ ~SelectCachedPolicy(c, t).ok
  PROVE  FoundAbsent(r) \/ KnownAbsent(c)
<1>. DEFINE cs == MergeCacheResult(c, r, t, j)
<1>1. PREFETCH_INTERVAL \in Nat /\ PREFETCH_INTERVAL >= 1
  BY ServerAssumption
<1>2. r \in Results
  BY <1>1, QueryType, Zenon
<1>3. cs \in Entries
  BY <1>2, MergeType, Zenon
<1>4. cs.dane = MergedBranches(c, r, t, j).dane
  BY <1>2, MergeKeepsBranches, ZenonT(60)
<1>5. /\ r.daneAttempted = ShouldQueryDane(c, at, PREFETCH_INTERVAL)
      /\ ~r.daneAttempted => r.dane = NoLive
  BY Zenon DEF QueryDomainBranches
<1>. HIDE DEF cs
<1>6. CASE r.daneAttempted
  <2>1. HasLive(r.dane) /\ r.dane \in [policy : InDane, ttl : Nat]
    BY <1>2, <1>6, Zenon DEF DaneFailed, Results
  <2>. SUFFICES ASSUME r.dane.policy \in DanePolicies PROVE FALSE
    BY <2>1, Zenon DEF FoundAbsent, InDane
  <2>2. \A p : Lengthened(r.dane, p) = r.dane
    BY Zenon DEF Lengthened, DanePolicies
  <2>3. MergedBranches(c, r, t, j).dane = ExpireBranch(r.dane, t, j)
    BY <2>1, <2>2, Zenon DEF MergedBranches, Entries
  <2>4. cs.dane.policy = r.dane.policy /\ cs.dane.exp = t + r.dane.ttl + j
    <3>1. cs.dane = ExpireBranch(r.dane, t, j)
      BY <1>4, <2>3, Zenon
    <3>2. ExpiresAs(ExpireBranch(r.dane, t, j), r.dane, t, j)
      BY ExpiredFields, Zenon
    <3>3. ExpiresAs(cs.dane, r.dane, t, j)
      BY <3>1, <3>2, Zenon
    <3>. QED  BY <3>3, Zenon DEF ExpiresAs
  <2>5. cs.dane.exp > t
    <3>1. r.dane.ttl \in Nat /\ r.dane.ttl # 0
      BY <2>1, Zenon DEF HasLive
    <3>2. \A x, y, z \in Nat : x # 0 => y + x + z > y
      OBVIOUS
    <3>. QED  BY <2>4, <3>1, <3>2, Zenon
  <2>. QED  BY <1>3, <1>6, <2>4, <2>5, SelectsDane, Zenon DEF cs
<1>7. CASE ~r.daneAttempted
  <2>. SUFFICES ASSUME ~KnownAbsent(c) PROVE FALSE
    BY Zenon
  <2>. DEFINE b == DaneBranchForSelection(c, at)
  <2>1. HasLive(BranchForQuerySuppression(b, PREFETCH_INTERVAL))
    BY <1>5, <1>7, Zenon DEF ShouldQueryDane, KnownAbsent
  <2>2. b \in [policy : InDane, ttl : Nat]
    BY FreshType, Zenon
  <2>3. b = FreshBranch(c.dane, at)
    BY Zenon DEF DaneBranchForSelection, DaneThrottled, KnownAbsent
  <2>. HIDE DEF b
  <2>4. b.ttl > 1
    BY <1>1, <2>1, <2>2 DEF BranchForQuerySuppression, HasLive, NoLive
  <2>5. c.dane \in [policy : InDane, exp : Nat]
    BY Zenon DEF Entries
  <2>6. RemainingTTL(c.dane, at) > 1
    <3>1. NoLive.ttl = 0
      BY Zenon DEF NoLive
    <3>. QED  BY <2>3, <2>4, <3>1, Zenon DEF FreshBranch
  <2>7. c.dane.exp > t /\ HasData(c.dane)
    BY <2>5, <2>6, Unexpired, Zenon DEF HasData, RemainingTTL
  <2>8. c.dane.policy \in DanePolicies
    BY <2>5, <2>7, Zenon DEF KnownAbsent, InDane
  <2>9. cs.dane = c.dane
    <3>1. NoLive.ttl = 0
      BY Zenon DEF NoLive
    <3>2. ~HasLive(r.dane)
      BY <1>5, <1>7, <3>1 DEF HasLive
    <3>. QED  BY <1>4, <3>2 DEF MergedBranches, Entries
  <2>. QED  BY <1>3, <2>7, <2>8, <2>9, SelectsDane, Zenon DEF cs
<1>. QED  BY <1>6, <1>7, ZenonT(60)

(* The random part of a lifetime is a number.                              *)
LEMMA JitterType == \A j \in 0 .. EXPIRY_JITTER : j \in Nat
BY BranchAssumption

(* A connection's steps, and the lookups, keep the copies justified.       *)
LEMMA ConnectionCopies ==
  ASSUME TypeOK, CopiesLicensed, Licensed => Licensed',
         \/ \E c \in Conns : TryCachedPolicy(c) \/ ConnStep(c)
         \/ Lookup
  PROVE  CopiesLicensed'
<1>. USE DEF CopiesLicensed, Answering
<1>. now \in Nat /\ entry \in Entries /\ conn \in [Conns -> ConnStates]
  BY Zenon DEF TypeOK
<1>1. ASSUME NEW c \in Conns, TryCachedPolicy(c) PROVE CopiesLicensed'
  <2>. DEFINE sel == SelectCachedPolicy(entry, now)
              hit == [IdleConn EXCEPT !.pc = "hit", !.res = [NoResult EXCEPT !.policy = sel.policy]]
              miss == [IdleConn EXCEPT !.pc = "miss", !.base = entry]
  <2>1. sel.ok /\ sel.policy \in {"", "secure"} => Licensed
    BY SelectSound, Zenon
  <2>. HIDE DEF sel
  <2>2. /\ hit.pc = "hit" /\ hit.base = NoEntry /\ hit.res.policy = sel.policy
        /\ hit.res.dane = NoLive
        /\ miss.pc = "miss" /\ miss.base = entry /\ miss.res = NoResult
    BY Zenon DEF IdleConn, NoResult
  <2>. HIDE DEF hit, miss
  <2>3. ~FoundAbsent(hit.res)
    <3>1. NoLive.ttl = 0
      BY Zenon DEF NoLive
    <3>. QED  BY <2>2, <3>1, Zenon DEF FoundAbsent, HasLive
  <2>4. /\ conn' = [conn EXCEPT ![c] = IF sel.ok THEN hit ELSE miss]
        /\ UNCHANGED <<entry, flight, worker>>
    BY <1>1, Zenon DEF TryCachedPolicy, hit, miss, sel
  <2>. QED  BY <2>1, <2>2, <2>3, <2>4, IdleClaimsNothing, Zenon
<1>2. ASSUME NEW c \in Conns, HitDelivered(c) \/ ScheduleResult(c) PROVE CopiesLicensed'
  BY <1>2, IdleClaimsNothing, Zenon DEF HitDelivered, ScheduleResult
<1>3. ASSUME NEW c \in Conns, RefreshDomain(c) PROVE CopiesLicensed'
  <2>1. conn[c] \in ConnStates
    BY Zenon
  <2>2. /\ \A x \in Conns : conn'[x].base = conn[x].base /\ conn'[x].res = conn[x].res
        /\ \A x \in Conns : x # c => conn'[x].pc = conn[x].pc
        /\ conn'[c].pc = "wait"
        /\ UNCHANGED <<entry, worker>>
    BY <1>3, <2>1, Zenon DEF RefreshDomain, ConnStates
  <2>3. flight'.base = flight.base \/ flight'.base = conn[c].base
    BY <1>3, Zenon DEF RefreshDomain
  <2>. QED  BY <2>2, <2>3, Zenon
<1>4. ASSUME NEW c \in Conns, ReplySocketmap(c) PROVE CopiesLicensed'
  <2>1. PICK j \in 0 .. EXPIRY_JITTER :
          LET cs == MergeCacheResult(conn[c].base, conn[c].res, now, j)
              store == WorthStoring(conn[c].base, conn[c].res)
          IN  /\ entry' = IF store THEN cs ELSE entry
              /\ conn' = [conn EXCEPT ![c] =
                   IF store /\ Prefetch THEN [IdleConn EXCEPT !.pc = "schedule", !.base = cs]
                                        ELSE IdleConn]
              /\ UNCHANGED <<now, flight, schedule, worker, tidy, purging, ghosts>>
    BY <1>4, Zenon DEF ReplySocketmap
  <2>. DEFINE cs == MergeCacheResult(conn[c].base, conn[c].res, now, j)
              next == [IdleConn EXCEPT !.pc = "schedule", !.base = cs]
  <2>2. conn[c].base \in Entries /\ conn[c].res \in Results /\ j \in Nat
    BY JitterType, Zenon DEF ConnStates
  <2>3. KnownAbsent(cs) => Licensed
    BY <2>2, MergeSound, Zenon
  <2>. HIDE DEF cs
  <2>4. next.pc = "schedule" /\ next.base = cs /\ next.res = NoResult
    BY Zenon DEF IdleConn
  <2>5. /\ entry' = cs \/ entry' = entry
        /\ \/ conn' = [conn EXCEPT ![c] = next]
           \/ conn' = [conn EXCEPT ![c] = IdleConn]
        /\ UNCHANGED <<flight, worker>>
    BY <2>1, Zenon DEF cs
  <2>. HIDE DEF next
  <2>. QED  BY <2>3, <2>4, <2>5, IdleClaimsNothing, Zenon
<1>5. ASSUME NEW d \in DaneOutcomes, NEW m \in MtaStsOutcomes, FlightEnd(d, m) PROVE CopiesLicensed'
  <2>. DEFINE r == QueryDomainBranches(flight.base, flight.start, 0, d, m)
  <2>1. flight.base \in Entries /\ flight.start \in Nat
    BY Zenon DEF TypeOK, FlightStates
  <2>2. DaneOutcome(d) /\ MtaStsOutcome(m)
    BY ServerAssumption, Zenon DEF DaneOutcome, MtaStsOutcome
  <2>3. r.policy \in {"", "secure"} => FoundAbsent(r) \/ Licensed
    BY <2>1, <2>2, QuerySound, Zenon
  <2>. HIDE DEF r
  <2>4. /\ conn' = [c \in Conns |->
              IF conn[c].pc = "wait"
              THEN [conn[c] EXCEPT !.pc = "reply", !.res = r, !.at = now]
              ELSE conn[c]]
        /\ flight' = NoFlight /\ Witnessed(r) /\ UNCHANGED <<entry, worker>>
    BY <1>5, Zenon DEF FlightEnd, r
  <2>5. FoundAbsent(r) => Licensed'
    BY <2>4, Zenon DEF Witnessed, FoundAbsent, Licensed
  <2>6. \A c \in Conns : \/ conn'[c] = conn[c]
                         \/ conn'[c].base = conn[c].base /\ conn'[c].res = r
    BY <2>4, Zenon DEF ConnStates
  <2>. QED  BY <2>3, <2>4, <2>5, <2>6, IdleClaimsNothing, Zenon
<1>. QED  BY <1>1, <1>2, <1>3, <1>4, <1>5, Zenon DEF ConnStep, Lookup

(* So do the prefetcher's, which replaces a failed DANE branch by "no      *)
(* DANE" only after the retries.                                           *)
LEMMA PrefetchCopies ==
  ASSUME TypeOK, CopiesLicensed, WindowInv, Licensed => Licensed', PrefetchStep
  PROVE  CopiesLicensed'
<1>. USE DEF CopiesLicensed, Answering
<1>. /\ worker \in WorkerStates /\ now \in Nat
     /\ worker.base \in Entries /\ worker.at \in Nat /\ worker.res \in Results
  BY Zenon DEF TypeOK, WorkerStates
<1>0. /\ IdleWorker.base = NoEntry
      /\ \A x : [IdleWorker EXCEPT !.pc = x].base = NoEntry
  BY Zenon DEF IdleWorker
<1>1. CASE PopDue \/ PrefetchBegin \/ PrefetchGiveUp
  <2>1. worker'.base = worker.base /\ UNCHANGED <<entry, conn, flight>>
    BY <1>1, Zenon DEF PopDue, PrefetchBegin, PrefetchGiveUp, WorkerStates
  <2>. QED  BY <2>1, Zenon
<1>2. CASE PrefetchGet
  <2>1. /\ worker'.base = entry \/ worker'.base = NoEntry
        /\ UNCHANGED <<entry, conn, flight>>
    BY <1>0, <1>2, Zenon DEF PrefetchGet, WorkerStates
  <2>. QED  BY <2>1, IdleClaimsNothing, Zenon
<1>3. CASE PrefetchDiscard
  BY <1>0, <1>3, IdleClaimsNothing, Zenon DEF PrefetchDiscard
<1>4. CASE PrefetchUnschedule \/ PrefetchPostpone \/ PrefetchRenewed \/ PrefetchMissed
             \/ PrefetchRetry \/ PrefetchDropped
  BY <1>0, <1>4, IdleClaimsNothing, Zenon DEF PrefetchUnschedule, PrefetchPostpone, PrefetchRenewed,
     PrefetchMissed, PrefetchRetry, PrefetchDropped
<1>5. ASSUME NEW d \in DaneOutcomes, NEW m \in MtaStsOutcomes, PrefetchLookup(d, m)
      PROVE  CopiesLicensed'
  <2>. DEFINE c == worker.base
              r == QueryDomainBranches(c, worker.at, PREFETCH_INTERVAL, d, m)
              Merged(j) == MergeCacheResult(c, r, now, j)
  <2>1. PICK j \in Nat :
          /\ r \in Results
          /\ entry' = Merged(j) \/ entry' = entry
          /\ worker'.base = Merged(j) \/ worker'.base = c
          /\ Witnessed(r)
          /\ UNCHANGED <<conn, flight>>
    BY <1>5, LookupEffect, Zenon
  <2>. HIDE DEF r
  <2>2. KnownAbsent(Merged(j)) => FoundAbsent(r) \/ KnownAbsent(c)
    BY <2>1, MergeSound, Zenon
  <2>3. FoundAbsent(r) => Licensed'
    BY <2>1, Zenon DEF Witnessed, FoundAbsent, Licensed
  <2>. HIDE DEF Merged
  <2>. QED  BY <2>1, <2>2, <2>3, Zenon
<1>6. CASE PrefetchDrop
  <2>1. Licensed'
    BY <1>6, Zenon DEF PrefetchDrop, WindowInv
  <2>. QED  BY <2>1, Zenon
<1>. QED  BY <1>1, <1>2, <1>3, <1>4, <1>5, <1>6, Zenon DEF PrefetchStep

(* scheduleCachedPolicyPrefetch records no failure.                        *)
LEMMA ScheduleRecordsNothing ==
  ASSUME NEW c, NEW fail, fail = failure \/ fail = NoFailure,
         ScheduleCachedPolicyPrefetch(c, now, fail), failure'.first # 0
  PROVE  failure' = failure
<1>1. NoFailure.first = 0
  BY DEF NoFailure
<1>. QED  BY <1>1, Zenon DEF ScheduleCachedPolicyPrefetch, UnscheduleCachedPolicyPrefetch, schedule

(* The steps that neither record a failure nor act on one keep the rest:   *)
(* the worker stays or goes on to a state about which nothing is claimed.  *)
LEMMA WindowKept ==
  ASSUME TypeOK, WindowInv, Licensed => Licensed',
         UNCHANGED <<now, firstFailure>>,
         failure' = failure \/ failure'.first = 0,
         worker' = worker \/ worker'.pc \notin {"lookup", "failed", "drop"}
  PROVE  WindowInv'
BY DEF WindowInv

(* A failure recorded by scheduleRetryUntil is no older than the first     *)
(* lookup that failed, and the retries end no earlier than                 *)
(* PREFETCH_RETRY_MAX_AGE after it.                                        *)
LEMMA RetryWindow ==
  ASSUME TypeOK, WindowInv, worker.pc = "failed"
  PROVE  /\ PrefetchRetry =>
              Licensed \/ (firstFailure # 0 /\ firstFailure <= failure'.first)
         /\ PrefetchGiveUp => Licensed
<1>1. /\ now \in Nat /\ firstFailure \in Nat /\ failure.first \in Nat
      /\ PREFETCH_RETRY_MAX_AGE \in Nat \ {0}
  BY ServerAssumption, Zenon DEF TypeOK, Failures
<1>2. FirstFailed(now) = IF failure.first = 0 THEN now ELSE failure.first
  BY DEF FirstFailed
<1>3. ASSUME PrefetchRetry
      PROVE  Licensed \/ (firstFailure # 0 /\ firstFailure <= failure'.first)
  <2>1. failure'.first = FirstFailed(now)
    BY <1>3, ZenonT(60) DEF PrefetchRetry, ScheduleRetryUntil
  <2>. QED  BY <1>1, <1>2, <2>1, Zenon DEF WindowInv
<1>4. ASSUME PrefetchGiveUp PROVE Licensed
  <2>. DEFINE grace == FailedPolicyGraceDeadline(worker.base, worker.res)
  <2>1. grace \in Nat
    BY GraceType, Zenon DEF TypeOK, WorkerStates
  <2>2. now >= Larger(FirstFailed(now) + PREFETCH_RETRY_MAX_AGE, grace)
    BY <1>4, Zenon DEF PrefetchGiveUp, RetryDeadline
  <2>. HIDE DEF grace
  <2>3. now >= FirstFailed(now) + PREFETCH_RETRY_MAX_AGE
    BY <1>1, <1>2, <2>1, <2>2 DEF Larger
  <2>4. failure.first # 0 /\ now >= failure.first + PREFETCH_RETRY_MAX_AGE
    BY <1>1, <1>2, <2>3
  <2>. QED  BY <1>1, <2>4 DEF WindowInv, Licensed
<1>. QED  BY <1>3, <1>4, Zenon

(* A refresh goes on to a failure only after a lookup that failed, unless  *)
(* the absence of DANE is known.                                           *)
LEMMA LookupWindow ==
  ASSUME TypeOK, CopiesLicensed, WindowInv, Licensed => Licensed',
         NEW d \in DaneOutcomes, NEW m \in MtaStsOutcomes, PrefetchLookup(d, m),
         worker'.pc = "failed"
  PROVE  Licensed' \/ firstFailure' # 0
<1>. DEFINE c == worker.base
            r == QueryDomainBranches(c, worker.at, PREFETCH_INTERVAL, d, m)
<1>1. PICK j \in Nat :
        /\ worker.pc = "lookup"
        /\ \/ DaneFailed(r) \/ MtaStsFailed(r)
           \/ /\ r.daneAttempted \/ r.mtaStsAttempted
              /\ ~SelectCachedPolicy(MergeCacheResult(c, r, now, j), now).ok
           \/ ~(r.daneAttempted \/ r.mtaStsAttempted) /\ ~SelectCachedPolicy(c, now).ok
        /\ Witnessed(r)
  BY LookupEffect, Zenon
<1>2. c \in Entries /\ worker.at \in Nat /\ now \in Nat \ {0}
  BY Zenon DEF TypeOK, WorkerStates
<1>3. worker.at <= now /\ now <= worker.at + 1
  BY <1>1, Zenon DEF WindowInv
<1>4. CASE DaneFailed(r) \/ MtaStsFailed(r)
  <2>. HIDE DEF r
  <2>. QED  BY <1>1, <1>2, <1>4, Zenon DEF Witnessed
<1>5. CASE ~DaneFailed(r) /\ ~MtaStsFailed(r)
  <2>1. DaneOutcome(d) /\ MtaStsOutcome(m)
    BY ServerAssumption, Zenon DEF DaneOutcome, MtaStsOutcome
  <2>2. FoundAbsent(r) \/ KnownAbsent(c)
    BY <1>1, <1>2, <1>3, <1>5, <2>1, UnselectedIsAbsent, Zenon
  <2>. HIDE DEF r
  <2>3. FoundAbsent(r) => Licensed'
    BY <1>1, Zenon DEF Witnessed, FoundAbsent, Licensed
  <2>. QED  BY <2>2, <2>3, Zenon DEF CopiesLicensed
<1>. QED  BY <1>4, <1>5, Zenon

(* The prefetcher's steps keep the window.                                 *)
LEMMA PrefetchWindow ==
  ASSUME TypeOK, CopiesLicensed, WindowInv, Licensed => Licensed', PrefetchStep
  PROVE  WindowInv'
<1>. worker \in WorkerStates /\ now \in Nat /\ firstFailure \in Nat
  BY Zenon DEF TypeOK
<1>0. NoFailure.first = 0 /\ IdleWorker.pc = "idle"
  BY Zenon DEF NoFailure, IdleWorker
<1>1. CASE PopDue
  BY <1>1, WindowKept, Zenon DEF PopDue, WorkerStates, ghosts
<1>2. CASE PrefetchGet
  <2>1. worker'.pc \notin {"lookup", "failed", "drop"}
    BY <1>0, <1>2, Zenon DEF PrefetchGet, WorkerStates
  <2>. QED  BY <1>2, <2>1, WindowKept, Zenon DEF PrefetchGet, schedule, ghosts
<1>3. CASE PrefetchDiscard
  <2>1. worker'.pc = "unschedule"
    BY <1>3, Zenon DEF PrefetchDiscard, IdleWorker
  <2>. QED  BY <1>3, <2>1, WindowKept, Zenon DEF PrefetchDiscard, schedule, ghosts
<1>4. CASE PrefetchUnschedule
  BY <1>0, <1>4, WindowKept, Zenon DEF PrefetchUnschedule, UnscheduleCachedPolicyPrefetch, ghosts
<1>5. CASE PrefetchPostpone \/ PrefetchRenewed
  <2>1. failure' = failure \/ failure'.first = 0
    BY <1>5, ScheduleRecordsNothing, Zenon DEF PrefetchPostpone, PrefetchRenewed
  <2>. QED  BY <1>0, <1>5, <2>1, WindowKept, Zenon DEF PrefetchPostpone, PrefetchRenewed, ghosts
<1>6. CASE PrefetchBegin
  <2>1. worker'.pc = "lookup" /\ worker'.at = now
    BY <1>6 DEF PrefetchBegin, WorkerStates
  <2>2. UNCHANGED <<now, firstFailure, failure>>
    BY <1>6, Zenon DEF PrefetchBegin, schedule, ghosts
  <2>. QED  BY <2>1, <2>2 DEF WindowInv
<1>7. ASSUME NEW d \in DaneOutcomes, NEW m \in MtaStsOutcomes, PrefetchLookup(d, m)
      PROVE  WindowInv'
  <2>1. /\ worker'.pc \in {"renewed", "missed", "failed"}
        /\ UNCHANGED <<now, failure>>
    BY <1>7, LookupEffect, Zenon
  <2>2. /\ firstFailure' \in Nat
        /\ firstFailure' = firstFailure \/ (firstFailure = 0 /\ firstFailure' = now)
    <3>1. [Next]_vars
      BY <1>7, Zenon DEF Next, PrefetchStep
    <3>. QED  BY <3>1, GhostsGrow, Zenon
  <2>3. worker'.pc = "failed" => Licensed' \/ firstFailure' # 0
    BY <1>7, LookupWindow, Zenon
  <2>. QED  BY <2>1, <2>2, <2>3 DEF WindowInv
<1>8. CASE PrefetchMissed
  <2>1. failure' = failure \/ failure'.first = 0
    BY <1>0, <1>8, ScheduleRecordsNothing, Zenon DEF PrefetchMissed
  <2>. QED  BY <1>0, <1>8, <2>1, WindowKept, Zenon DEF PrefetchMissed, ghosts
<1>9. CASE PrefetchRetry
  <2>1. worker' = IdleWorker /\ UNCHANGED <<now, firstFailure>>
    BY <1>9, Zenon DEF PrefetchRetry, ghosts
  <2>2. Licensed \/ (firstFailure # 0 /\ firstFailure <= failure'.first)
    BY <1>9, RetryWindow, Zenon DEF PrefetchRetry
  <2>. QED  BY <1>0, <2>1, <2>2, Zenon DEF WindowInv
<1>10. CASE PrefetchGiveUp
  <2>1. /\ worker'.pc = "drop" /\ failure'.first = 0
        /\ UNCHANGED <<now, firstFailure>>
    BY <1>0, <1>10, Zenon DEF PrefetchGiveUp, UnscheduleCachedPolicyPrefetch, WorkerStates, ghosts
  <2>2. Licensed
    BY <1>10, RetryWindow, Zenon DEF PrefetchGiveUp
  <2>. QED  BY <2>1, <2>2, Zenon DEF WindowInv
<1>11. CASE PrefetchDrop
  <2>1. worker'.pc \notin {"lookup", "failed", "drop"}
    BY <1>0, <1>11, Zenon DEF PrefetchDrop, IdleWorker
  <2>. QED  BY <1>11, <2>1, WindowKept, Zenon DEF PrefetchDrop, schedule, ghosts
<1>12. CASE PrefetchDropped
  BY <1>0, <1>12, WindowKept, Zenon DEF PrefetchDropped, ghosts
<1>. QED
  BY <1>1, <1>2, <1>3, <1>4, <1>5, <1>6, <1>7, <1>8, <1>9, <1>10, <1>11, <1>12, Zenon
  DEF PrefetchStep

(* So does every other step.                                               *)
LEMMA NextWindow ==
  ASSUME TypeOK, CopiesLicensed, WindowInv, [Next]_vars
  PROVE  WindowInv'
<1>0. /\ Licensed => Licensed'
      /\ worker \in WorkerStates /\ now \in Nat /\ firstFailure \in Nat /\ worker.at \in Nat
      /\ NoFailure.first = 0
  BY LicensedStays, Zenon DEF TypeOK, WorkerStates, NoFailure
<1>1. CASE Tick
  <2>1. /\ UNCHANGED <<firstFailure, failure, worker>> /\ now' = now + 1
        /\ worker.pc = "idle" \/ (worker.pc = "lookup" /\ now = worker.at)
    BY <1>1, Zenon DEF Tick, schedule, ghosts
  <2>. QED  BY <1>0, <2>1 DEF WindowInv
<1>2. ASSUME NEW c \in Conns,
             TryCachedPolicy(c) \/ HitDelivered(c) \/ RefreshDomain(c) \/ ReplySocketmap(c)
      PROVE  WindowInv'
  BY <1>0, <1>2, WindowKept, Zenon DEF TryCachedPolicy, HitDelivered, RefreshDomain, ReplySocketmap,
     schedule, ghosts
<1>3. ASSUME NEW c \in Conns, ScheduleResult(c) PROVE WindowInv'
  <2>1. failure' = failure \/ failure'.first = 0
    BY <1>3, ScheduleRecordsNothing, Zenon DEF ScheduleResult
  <2>. QED  BY <1>0, <1>3, <2>1, WindowKept, Zenon DEF ScheduleResult, ghosts
<1>4. CASE Lookup
  <2>1. UNCHANGED <<now, worker, failure>>
    BY <1>4, Zenon DEF Lookup, FlightEnd, schedule
  <2>. QED  BY <1>0, <2>1, GhostsGrow, Zenon DEF WindowInv
<1>5. CASE PrefetchStep
  BY <1>0, <1>5, PrefetchWindow, Zenon
<1>6. CASE TidyStep
  <2>1. failure' = failure \/ failure'.first = 0
    BY <1>0, <1>6, ScheduleRecordsNothing, Zenon DEF TidyStep, TidyItems, TidyKeep, TidyDiscard,
       TidyReplaced, TidyUnschedule, TidySchedule, UnscheduleCachedPolicyPrefetch, schedule
  <2>2. UNCHANGED <<now, firstFailure, worker>>
    BY <1>6, Zenon DEF TidyStep, TidyItems, TidyKeep, TidyDiscard, TidyReplaced, TidyUnschedule,
       TidySchedule, ghosts
  <2>. QED  BY <1>0, <2>1, <2>2, WindowKept, Zenon
<1>7. CASE Purge \/ ClearPrefetchSchedule
  <2>1. failure' = failure \/ failure'.first = 0
    BY <1>0, <1>7, Zenon DEF Purge, ClearPrefetchSchedule, UnscheduleCachedPolicyPrefetch, schedule
  <2>. QED  BY <1>0, <1>7, <2>1, WindowKept, Zenon DEF Purge, ClearPrefetchSchedule, ghosts
<1>8. CASE UNCHANGED vars
  BY <1>0, <1>8, WindowKept, Zenon DEF vars
<1>. QED  BY <1>1, <1>2, <1>3, <1>4, <1>5, <1>6, <1>7, <1>8, Zenon DEF Next, ConnStep

(* And the copies, whoever takes the step.                                 *)
LEMMA NextCopies ==
  ASSUME TypeOK, CopiesLicensed, WindowInv, [Next]_vars
  PROVE  CopiesLicensed'
<1>0. Licensed => Licensed'
  BY LicensedStays, Zenon
<1>1. CASE Tick
  BY <1>0, <1>1, Zenon DEF Tick, CopiesLicensed, Answering
<1>2. CASE (\E c \in Conns : TryCachedPolicy(c) \/ ConnStep(c)) \/ Lookup
  BY <1>0, <1>2, ConnectionCopies, Zenon
<1>3. CASE PrefetchStep
  BY <1>0, <1>3, PrefetchCopies, Zenon
<1>4. CASE TidyStep \/ Purge \/ ClearPrefetchSchedule
  <2>1. entry' = entry \/ entry' = StatsOnly \/ entry' = NoEntry
    BY <1>4, Zenon DEF TidyStep, TidyItems, TidyKeep, TidyDiscard, TidyReplaced, TidyUnschedule,
       TidySchedule, Purge, ClearPrefetchSchedule
  <2>2. UNCHANGED <<conn, flight, worker>>
    BY <1>4, Zenon DEF TidyStep, TidyItems, TidyKeep, TidyDiscard, TidyReplaced, TidyUnschedule,
       TidySchedule, Purge, ClearPrefetchSchedule
  <2>. QED  BY <1>0, <2>1, <2>2, IdleClaimsNothing, Zenon DEF CopiesLicensed, Answering
<1>5. CASE UNCHANGED vars
  BY <1>0, <1>5, Zenon DEF vars, CopiesLicensed, Answering
<1>. QED  BY <1>1, <1>2, <1>3, <1>4, <1>5, Zenon DEF Next

(* With or without prefetching, no client is told anything but a DANE      *)
(* policy or a temporary failure unless there is no DANE policy or         *)
(* PREFETCH_RETRY_MAX_AGE has passed since a lookup first failed: for any  *)
(* number of connections, and whatever entry a slow one, tidyCache or      *)
(* PURGE leaves behind during the retries.                                 *)
THEOREM DowngradeOnlyAfterRetriesAlways == Spec => []DowngradeOnlyAfterRetries
<1>1. Init => CopiesLicensed /\ WindowInv
  <2>1. IdleWorker.base = NoEntry /\ IdleWorker.pc = "idle" /\ NoFailure.first = 0
    BY Zenon DEF IdleWorker, NoFailure
  <2>2. Init => CopiesLicensed
    BY <2>1, IdleClaimsNothing, Zenon DEF Init, CopiesLicensed, Licensed, Answering
  <2>3. Init => WindowInv
    BY <2>1, ServerAssumption DEF Init, WindowInv
  <2>. QED  BY <2>2, <2>3, Zenon
<1>2. TypeOK /\ CopiesLicensed /\ WindowInv /\ [Next]_vars => CopiesLicensed' /\ WindowInv'
  BY NextCopies, NextWindow, Zenon
<1>3. CopiesLicensed => DowngradeOnlyAfterRetries
  BY Zenon DEF CopiesLicensed, DowngradeOnlyAfterRetries, Licensed
<1>. QED  BY <1>1, <1>2, <1>3, TypeCorrect, PTL DEF Spec
---------------------------------------------------------------------------
(* An entry without branches whose legacy policy is still valid.           *)
LegacyUsable(c, t) == ~HasBranches(c) /\ c.policy \in DanePolicies /\ c.exp > t

(* r is what a connection's lookups made of entry c, no later than t.      *)
Obtained(c, r, t) ==
  \E s \in Nat, d \in DaneOutcomes, m \in MtaStsOutcomes :
    s <= t /\ r = QueryDomainBranches(c, s, 0, d, m)

(* A connection that is alone has started the lookup it waits for, from an *)
(* entry that had no answer; what it then stores is made of that entry and *)
(* of what the lookup returned for it.                                     *)
AloneInv ==
  \A c \in Conns :
    /\ flight.on => conn[c].pc = "wait"
    /\ conn[c].pc = "wait" => flight.base = conn[c].base /\ flight.start <= now
    /\ conn[c].pc \in {"miss", "wait", "reply"} => ~LegacyUsable(conn[c].base, now)
    /\ conn[c].pc = "reply" => Obtained(conn[c].base, conn[c].res, now)

(* A lifetime left now was there before.                                   *)
LEMMA LivedBefore ==
  ASSUME NEW e \in Nat, NEW s \in Nat, NEW t \in Nat, s <= t, Until(e, t) # 0
  PROVE  Until(e, s) # 0 /\ e # 0
BY DEF Until

(* expireBranch gives a branch that is live a lifetime, also where         *)
(* mergeCacheResult lengthens it, and keeps its policy.                    *)
LEMMA ExpiresLater ==
  ASSUME NEW S, NEW b \in [policy : S, ttl : Nat], HasLive(b), NEW p,
         NEW t \in Nat, NEW j \in Nat
  PROVE  /\ ExpireBranch(Lengthened(b, p), t, j).policy = b.policy
         /\ ExpireMtaStsBranch(Lengthened(b, p), t).policy = b.policy
         /\ HasData(ExpireBranch(Lengthened(b, p), t, j))
         /\ HasData(ExpireMtaStsBranch(Lengthened(b, p), t))
<1>. DEFINE n == Lengthened(b, p)
<1>1. n.policy = b.policy /\ n.ttl \in Nat
  BY BranchAssumption, Zenon DEF Lengthened
<1>2. n.ttl # 0
  BY BranchAssumption, Zenon DEF Lengthened, HasLive
<1>. HIDE DEF n
<1>3. t + n.ttl + j # 0 /\ t + n.ttl # 0
  BY <1>1, <1>2
<1>. QED  BY <1>1, <1>3, Zenon DEF ExpireBranch, ExpireMtaStsBranch, HasData, n

(* The branches of the entry stored for a result: the result's where it is *)
(* live, otherwise those it was obtained from.                             *)
LEMMA StoredBranches ==
  ASSUME NEW c \in Entries, NEW r \in Results, NEW t \in Nat, NEW j \in Nat, NEW cs,
         cs = MergeCacheResult(c, r, t, j)
  PROVE  /\ IF HasLive(r.dane) THEN HasData(cs.dane) /\ cs.dane.policy = r.dane.policy
                               ELSE cs.dane = c.dane
         /\ IF HasLive(r.mtaSts) THEN HasData(cs.mtaSts) /\ cs.mtaSts.policy = r.mtaSts.policy
                                 ELSE cs.mtaSts = c.mtaSts
<1>. DEFINE m == MergedBranches(c, r, t, j)
            p == IF HasLive(r.dane) THEN r.dane.policy ELSE c.dane.policy
            q == IF HasLive(r.mtaSts) THEN r.mtaSts.policy ELSE c.mtaSts.policy
<1>1. cs.dane = m.dane /\ cs.mtaSts = m.mtaSts
  BY MergeKeepsBranches, ZenonT(60)
<1>2. r.dane \in [policy : InDane, ttl : Nat] /\ r.mtaSts \in [policy : InMtaSts, ttl : Nat]
  BY Zenon DEF Results
<1>3. /\ m.dane = IF HasLive(r.dane) THEN ExpireBranch(Lengthened(r.dane, q), t, j) ELSE c.dane
      /\ m.mtaSts = IF HasLive(r.mtaSts) THEN ExpireMtaStsBranch(Lengthened(r.mtaSts, p), t)
                                         ELSE c.mtaSts
  BY Zenon DEF MergedBranches, Entries
<1>. HIDE DEF m, p, q
<1>4. HasLive(r.dane) => HasData(cs.dane) /\ cs.dane.policy = r.dane.policy
  BY <1>1, <1>2, <1>3, ExpiresLater
<1>5. HasLive(r.mtaSts) => HasData(cs.mtaSts) /\ cs.mtaSts.policy = r.mtaSts.policy
  BY <1>1, <1>2, <1>3, ExpiresLater
<1>. QED  BY <1>1, <1>3, <1>4, <1>5, Zenon

(* The answer r was selected from branches of which those that entry cs    *)
(* holds at time t, not yet expired, are copies.                           *)
AnsweredFrom(r, cs, t) ==
  \E dane \in [policy : InDane, ttl : Nat], mtaSts \in [policy : InMtaSts, ttl : Nat] :
    /\ r.policy = SelectedPolicyFromBranches(dane, mtaSts).policy
    /\ RemainingTTL(cs.dane, t) # 0 => HasLive(dane) /\ dane.policy = cs.dane.policy
    /\ RemainingTTL(cs.mtaSts, t) # 0 => HasLive(mtaSts) /\ mtaSts.policy = cs.mtaSts.policy
    /\ HasLive(dane) /\ dane.policy # "" => HasData(cs.dane)

(* The branch a query selects from, and the one it then stores, hold the   *)
(* same policy as long as the stored one has not expired: a branch that    *)
(* was fresh enough when the lookups began is not looked up by a           *)
(* connection, which renews nothing ahead of time.                         *)
LEMMA StoredIsUsed ==
  ASSUME NEW c \in Entries, NEW t \in Nat, NEW j \in Nat, NEW r, Obtained(c, r, t),
         NEW cs, cs = MergeCacheResult(c, r, t, j)
  PROVE  AnsweredFrom(r, cs, t)
<1>0. PICK s \in Nat, d \in DaneOutcomes, m \in MtaStsOutcomes :
        s <= t /\ r = QueryDomainBranches(c, s, 0, d, m)
  BY DEF Obtained
<1>. s <= t /\ DaneOutcome(d) /\ MtaStsOutcome(m)
  BY <1>0, ServerAssumption, Zenon DEF DaneOutcome, MtaStsOutcome
<1>. DEFINE qd == ShouldQueryDane(c, s, 0)
            qm == ShouldQueryMtaSts(c, s, 0)
            fresh == FreshBranch(c.mtaSts, s)
            chosen == DaneBranchForSelection(c, s)
            rep == qm /\ (~LivePolicyUnavailable(m) \/ ~HasLive(fresh))
            used == IF qd THEN BranchFromResult(d) ELSE chosen
            sts == IF rep THEN MtaStsBranchFromResult(m) ELSE fresh
<1>1. r \in Results
  BY <1>0, QueryType, Zenon
<1>2. /\ r.dane = IF qd THEN BranchFromResult(d) ELSE NoLive
      /\ r.mtaSts = IF rep THEN MtaStsBranchFromResult(m) ELSE NoLive
  BY <1>0, Zenon DEF QueryDomainBranches
<1>3. r.policy = SelectedPolicyFromBranches(used, sts).policy
  <2>1. r.policy =
          SelectedPolicyFromBranches(
            IF qd THEN IF qd THEN BranchFromResult(d) ELSE NoLive ELSE chosen,
            IF rep THEN IF rep THEN MtaStsBranchFromResult(m) ELSE NoLive ELSE fresh).policy
    BY <1>0, Zenon DEF QueryDomainBranches
  <2>2. /\ used = IF qd THEN IF qd THEN BranchFromResult(d) ELSE NoLive ELSE chosen
        /\ sts = IF rep THEN IF rep THEN MtaStsBranchFromResult(m) ELSE NoLive ELSE fresh
    <3>. HIDE DEF qd, rep, chosen, fresh
    <3>. QED  BY Zenon
  <2>. HIDE DEF used, sts, qd, rep, chosen, fresh
  <2>. QED  BY <2>1, <2>2, Zenon
<1>4. used \in [policy : InDane, ttl : Nat] /\ sts \in [policy : InMtaSts, ttl : Nat]
  BY FreshType, DaneBranchType, MtaStsBranchType, Zenon
<1>5. ~HasLive(NoLive)
  BY DEF HasLive, NoLive
<1>6. /\ c.dane \in [policy : InDane, exp : Nat] /\ c.mtaSts \in [policy : InMtaSts, exp : Nat]
  BY Zenon DEF Entries
<1>7. /\ IF HasLive(r.dane) THEN HasData(cs.dane) /\ cs.dane.policy = r.dane.policy
                            ELSE cs.dane = c.dane
      /\ IF HasLive(r.mtaSts) THEN HasData(cs.mtaSts) /\ cs.mtaSts.policy = r.mtaSts.policy
                              ELSE cs.mtaSts = c.mtaSts
  BY <1>1, StoredBranches
<1>8. \A b \in [policy : InDane, ttl : Nat] \cup [policy : InMtaSts, ttl : Nat] :
        HasLive(b) => HasLive(BranchForQuerySuppression(b, 0))
  BY DEF HasLive, BranchForQuerySuppression
<1>9. ASSUME RemainingTTL(cs.dane, t) # 0
      PROVE  HasLive(used) /\ used.policy = cs.dane.policy
  <2>1. CASE HasLive(r.dane)
    <3>. HIDE DEF qd, chosen
    <3>. QED  BY <1>2, <1>5, <1>7, <2>1, Zenon
  <2>2. CASE ~HasLive(r.dane)
    <3>1. RemainingTTL(c.dane, s) # 0
      BY <1>6, <1>7, <1>9, <2>2, LivedBefore, Zenon DEF RemainingTTL
    <3>2. chosen = [policy |-> c.dane.policy, ttl |-> RemainingTTL(c.dane, s)]
      BY <3>1, Zenon DEF DaneBranchForSelection, FreshBranch
    <3>3. HasLive(chosen) /\ chosen.policy = c.dane.policy
      BY <3>1, <3>2 DEF HasLive
    <3>4. ~qd
      BY <1>8, <3>3, FreshType, Zenon DEF ShouldQueryDane
    <3>. HIDE DEF qd, chosen
    <3>. QED  BY <1>7, <2>2, <3>3, <3>4, Zenon
  <2>. QED  BY <2>1, <2>2, Zenon
<1>10. ASSUME RemainingTTL(cs.mtaSts, t) # 0
       PROVE  HasLive(sts) /\ sts.policy = cs.mtaSts.policy
  <2>1. CASE HasLive(r.mtaSts)
    <3>. HIDE DEF rep, fresh
    <3>. QED  BY <1>2, <1>5, <1>7, <2>1, Zenon
  <2>2. CASE ~HasLive(r.mtaSts)
    <3>1. RemainingTTL(c.mtaSts, s) # 0
      BY <1>6, <1>7, <1>10, <2>2, LivedBefore, Zenon DEF RemainingTTL
    <3>2. fresh = [policy |-> c.mtaSts.policy, ttl |-> RemainingTTL(c.mtaSts, s)]
      BY <3>1, ZenonT(60) DEF FreshBranch
    <3>3. HasLive(fresh) /\ fresh.policy = c.mtaSts.policy
      BY <3>1, <3>2 DEF HasLive
    <3>4. ~qm
      BY <1>8, <3>3, FreshType, Zenon DEF ShouldQueryMtaSts
    <3>. HIDE DEF qm, fresh
    <3>. QED  BY <1>7, <2>2, <3>3, <3>4, Zenon
  <2>. QED  BY <2>1, <2>2, Zenon
<1>11. HasLive(used) /\ used.policy # "" => HasData(cs.dane)
  <2>1. CASE qd
    <3>1. used = r.dane
      BY <1>2, <2>1, Zenon
    <3>. HIDE DEF used
    <3>. QED  BY <1>7, <3>1, Zenon
  <2>2. CASE ~qd
    <3>. SUFFICES ASSUME HasLive(chosen), chosen.policy # "" PROVE HasData(cs.dane)
      BY <2>2, Zenon
    <3>1. chosen = FreshBranch(c.dane, s)
      BY Zenon DEF DaneBranchForSelection
    <3>2. RemainingTTL(c.dane, s) # 0
      BY <1>5, <3>1, Zenon DEF FreshBranch
    <3>3. c.dane.exp # 0
      BY <1>6, <3>2, UntilType, Zenon DEF RemainingTTL
    <3>4. cs.dane = c.dane
      BY <1>2, <1>5, <1>7, <2>2, Zenon
    <3>. QED  BY <3>3, <3>4, Zenon DEF HasData
  <2>. QED  BY <2>1, <2>2, Zenon
<1>. HIDE DEF used, sts
<1>. QED  BY <1>3, <1>4, <1>9, <1>10, <1>11, Zenon DEF AnsweredFrom

(* The legacy fields are merged as they are, or take the answer's policy.  *)
LEMMA StoredLegacy ==
  ASSUME NEW c \in Entries, NEW r \in Results, NEW t \in Nat, NEW j \in Nat, NEW cs,
         cs = MergeCacheResult(c, r, t, j), ~HasBranches(cs)
  PROVE  (cs.policy = c.policy \/ cs.policy = r.policy) /\ cs.exp = c.exp
<1>. DEFINE m == MergedBranches(c, r, t, j)
<1>1. m \in Entries
  BY MergedType
<1>2. m.policy = c.policy /\ m.exp = c.exp
  BY DEF MergedBranches, Entries
<1>3. cs.dane = m.dane /\ cs.mtaSts = m.mtaSts
  BY MergeKeepsBranches
<1>. HIDE DEF m
<1>4. ~HasBranches(m)
  BY <1>3 DEF HasBranches
<1>5. cs = m \/ cs = [m EXCEPT !.policy = r.policy]
  BY <1>4, Zenon DEF MergeCacheResult, m
<1>6. [m EXCEPT !.policy = r.policy].policy = r.policy /\ [m EXCEPT !.policy = r.policy].exp = m.exp
  BY <1>1 DEF Entries
<1>. QED  BY <1>2, <1>5, <1>6, Zenon

(* selectCachedPolicy answers from the legacy fields, from the DANE branch *)
(* or, where that says "no DANE", from the MTA-STS branch.                 *)
LEMMA SelectCases ==
  ASSUME NEW c \in Entries, NEW t \in Nat, SelectCachedPolicy(c, t).ok
  PROVE  \/ LegacyUsable(c, t)
         \/ /\ RemainingTTL(c.dane, t) # 0 /\ c.dane.policy # ""
            /\ SelectCachedPolicy(c, t).policy = c.dane.policy
         \/ /\ RemainingTTL(c.dane, t) # 0 /\ c.dane.policy = "" /\ RemainingTTL(c.mtaSts, t) # 0
            /\ SelectCachedPolicy(c, t).policy = c.mtaSts.policy
<1>. DEFINE daneTTL == RemainingTTL(c.dane, t)
            mtaStsTTL == RemainingTTL(c.mtaSts, t)
<1>1. ~NotSelected.ok /\ \A p, n : Selected(p, n).policy = p
  BY DEF NotSelected, Selected
<1>. HIDE DEF daneTTL, mtaStsTTL
<1>2. \/ LegacyUsable(c, t)
      \/ /\ daneTTL # 0 /\ c.dane.policy # ""
         /\ SelectCachedPolicy(c, t) = Selected(c.dane.policy, daneTTL)
      \/ /\ daneTTL # 0 /\ c.dane.policy = "" /\ mtaStsTTL # 0
         /\ SelectCachedPolicy(c, t) = Selected(c.mtaSts.policy, Smaller(daneTTL, mtaStsTTL))
      \/ SelectCachedPolicy(c, t) = NotSelected
  BY Zenon DEF SelectCachedPolicy, LegacyUsable, daneTTL, mtaStsTTL
<1>. QED  BY <1>1, <1>2, ZenonT(60) DEF daneTTL, mtaStsTTL

(* A usable legacy policy is the cache's answer.                           *)
LEMMA LegacySelected ==
  ASSUME NEW c \in Entries, NEW t \in Nat, LegacyUsable(c, t)
  PROVE  SelectCachedPolicy(c, t) = Selected(c.policy, c.exp - t)
<1>. DEFINE daneTTL == RemainingTTL(c.dane, t)
            mtaStsTTL == RemainingTTL(c.mtaSts, t)
<1>1. daneTTL # 0 => HasBranches(c)
  BY RemainingHasData, Zenon DEF HasBranches
<1>. HIDE DEF daneTTL, mtaStsTTL
<1>. QED  BY <1>1, Zenon DEF SelectCachedPolicy, LegacyUsable, daneTTL, mtaStsTTL

(* What a query answered is what the entry stored for it answers.          *)
LEMMA StoredAgrees ==
  ASSUME NEW c \in Entries, NEW t \in Nat, NEW j \in Nat, NEW r, Obtained(c, r, t),
         ~LegacyUsable(c, t),
         NEW cs, cs = MergeCacheResult(c, r, t, j), SelectCachedPolicy(cs, t).ok
  PROVE  SelectCachedPolicy(cs, t).policy = r.policy
<1>3. r \in Results
  <2>1. \A d \in DaneOutcomes, m \in MtaStsOutcomes : DaneOutcome(d) /\ MtaStsOutcome(m)
    BY ServerAssumption, Zenon DEF DaneOutcome, MtaStsOutcome
  <2>. QED  BY <2>1, QueryType, Zenon DEF Obtained
<1>4. cs \in Entries
  BY <1>3, MergeType, Zenon
<1>5. PICK dane \in [policy : InDane, ttl : Nat], mtaSts \in [policy : InMtaSts, ttl : Nat] :
        /\ r.policy = SelectedPolicyFromBranches(dane, mtaSts).policy
        /\ RemainingTTL(cs.dane, t) # 0 => HasLive(dane) /\ dane.policy = cs.dane.policy
        /\ RemainingTTL(cs.mtaSts, t) # 0 => HasLive(mtaSts) /\ mtaSts.policy = cs.mtaSts.policy
        /\ HasLive(dane) /\ dane.policy # "" => HasData(cs.dane)
  <2>1. AnsweredFrom(r, cs, t)
    BY StoredIsUsed, Zenon
  <2>. QED  BY <2>1, Zenon DEF AnsweredFrom
<1>6. ~LegacyUsable(cs, t)
  <2>. SUFFICES ASSUME LegacyUsable(cs, t) PROVE FALSE
    BY Zenon
  <2>1. ~HasBranches(cs) /\ cs.policy \in DanePolicies /\ cs.exp > t
    BY ZenonT(60) DEF LegacyUsable
  <2>2. ~HasBranches(c)
    BY <1>3, <2>1, StoredBranches DEF HasBranches
  <2>3. (cs.policy = c.policy \/ cs.policy = r.policy) /\ cs.exp = c.exp
    BY <1>3, <2>1, StoredLegacy
  <2>4. r.policy \in DanePolicies
    BY <2>1, <2>2, <2>3, Zenon DEF LegacyUsable
  <2>5. ~HasLive(dane) \/ dane.policy = ""
    BY <1>5, <2>1, Zenon DEF HasBranches
  <2>6. SelectedPolicyFromBranches(dane, mtaSts).policy \in InMtaSts \cup {"TEMP"}
    BY <2>5, Zenon DEF SelectedPolicyFromBranches, NoLive, InMtaSts
  <2>. QED  BY <1>5, <2>4, <2>6, Zenon DEF DanePolicies, InMtaSts
<1>7. CASE /\ RemainingTTL(cs.dane, t) # 0 /\ cs.dane.policy # ""
           /\ SelectCachedPolicy(cs, t).policy = cs.dane.policy
  <2>1. SelectedPolicyFromBranches(dane, mtaSts) = dane
    BY <1>5, <1>7, Zenon DEF SelectedPolicyFromBranches
  <2>. QED  BY <1>5, <1>7, <2>1, Zenon
<1>8. CASE /\ RemainingTTL(cs.dane, t) # 0 /\ cs.dane.policy = "" /\ RemainingTTL(cs.mtaSts, t) # 0
           /\ SelectCachedPolicy(cs, t).policy = cs.mtaSts.policy
  <2>1. SelectedPolicyFromBranches(dane, mtaSts).policy = mtaSts.policy
    BY <1>5, <1>8, Zenon DEF SelectedPolicyFromBranches
  <2>. QED  BY <1>5, <1>8, <2>1, Zenon
<1>. QED  BY <1>4, <1>6, <1>7, <1>8, SelectCases, Zenon

(* Time only takes validity away.                                          *)
LEMMA AloneLater ==
  ASSUME NEW s \in Nat, NEW t \in Nat, s <= t, NEW c \in Entries, NEW r
  PROVE  /\ ~LegacyUsable(c, s) => ~LegacyUsable(c, t)
         /\ Obtained(c, r, s) => Obtained(c, r, t)
<1>1. c.exp \in Nat
  BY Zenon DEF Entries
<1>2. c.exp > t => c.exp > s
  BY <1>1
<1>3. \A x \in Nat : x <= s => x <= t
  OBVIOUS
<1>. QED  BY <1>2, <1>3, Zenon DEF LegacyUsable, Obtained

(* Only the connections, the lookups they wait for and the clock change    *)
(* what a connection is at.                                                *)
LEMMA ConnectionSteps ==
  ASSUME [Next]_vars
  PROVE  \/ Tick \/ Lookup \/ UNCHANGED <<now, conn, flight>>
         \/ \E c \in Conns : TryCachedPolicy(c) \/ ConnStep(c)
<1>1. CASE \E d \in DaneOutcomes, m \in MtaStsOutcomes : PrefetchLookup(d, m)
  BY <1>1, ZenonT(60) DEF PrefetchLookup
<1>. QED
  BY <1>1, ZenonT(60) DEF Next, PrefetchStep, PopDue, PrefetchGet, PrefetchDiscard, PrefetchUnschedule,
   PrefetchPostpone, PrefetchBegin, PrefetchRenewed, PrefetchMissed, PrefetchRetry,
   PrefetchGiveUp, PrefetchDrop, PrefetchDropped, TidyStep, TidyItems, TidyKeep, TidyDiscard,
   TidyReplaced, TidyUnschedule, TidySchedule, Purge, ClearPrefetchSchedule, vars

(* With one connection, every step keeps it: no other caller shares its    *)
(* lookup.                                                                 *)
LEMMA NextAlone ==
  ASSUME NEW a, Conns = {a}, TypeOK, AloneInv, [Next]_vars
  PROVE  AloneInv'
<1>. USE DEF AloneInv
<1>0. /\ now \in Nat /\ entry \in Entries /\ conn \in [Conns -> ConnStates]
      /\ flight \in FlightStates
  BY DEF TypeOK
<1>1. \A c \in Conns : conn[c].base \in Entries
  BY <1>0 DEF ConnStates
<1>2. IdleConn.pc = "idle" /\ ~NoFlight.on
  BY DEF IdleConn, NoFlight
<1>3. CASE Tick
  <2>1. now' = now + 1 /\ UNCHANGED <<conn, flight>>
    BY <1>3, ZenonT(60) DEF Tick
  <2>2. now' \in Nat /\ now <= now' /\ \A x \in Nat : x <= now => x <= now'
    BY <1>0, <2>1
  <2>3. flight.start \in Nat
    BY <1>0, Zenon DEF FlightStates
  <2>4. \A c \in Conns : /\ ~LegacyUsable(conn[c].base, now) => ~LegacyUsable(conn[c].base, now')
                         /\ Obtained(conn[c].base, conn[c].res, now)
                              => Obtained(conn[c].base, conn[c].res, now')
    BY <1>0, <1>1, <2>2, AloneLater, Zenon
  <2>. QED  BY <2>1, <2>2, <2>3, <2>4
<1>4. ASSUME NEW c \in Conns, TryCachedPolicy(c) PROVE AloneInv'
  <2>. DEFINE sel == SelectCachedPolicy(entry, now)
              hit == [IdleConn EXCEPT !.pc = "hit", !.res = [NoResult EXCEPT !.policy = sel.policy]]
              miss == [IdleConn EXCEPT !.pc = "miss", !.base = entry]
  <2>1. ~sel.ok => ~LegacyUsable(entry, now)
    <3>1. \A p, n : Selected(p, n).ok
      BY Zenon DEF Selected
    <3>2. LegacyUsable(entry, now) => sel = Selected(entry.policy, entry.exp - now)
      BY <1>0, LegacySelected, Zenon
    <3>. QED  BY <3>1, <3>2, ZenonT(60)
  <2>. HIDE DEF sel
  <2>2. hit.pc = "hit" /\ miss.pc = "miss" /\ miss.base = entry
    BY Zenon DEF IdleConn
  <2>. HIDE DEF hit, miss
  <2>3. /\ conn' = [conn EXCEPT ![c] = IF sel.ok THEN hit ELSE miss] /\ conn[c].pc = "idle"
        /\ UNCHANGED <<now, flight>>
    BY <1>4, Zenon DEF TryCachedPolicy, hit, miss, sel
  <2>. QED  BY <1>0, <2>1, <2>2, <2>3, ZenonT(60)
<1>5. ASSUME NEW c \in Conns, HitDelivered(c) \/ ScheduleResult(c) \/ ReplySocketmap(c)
      PROVE  AloneInv'
  <2>1. /\ conn[c].pc \in {"hit", "schedule", "reply"} /\ UNCHANGED <<now, flight>>
        /\ conn'[c].pc \in {"idle", "schedule"}
        /\ \A x \in Conns : x # c => conn'[x] = conn[x]
    BY <1>0, <1>2, <1>5, ZenonT(60) DEF HitDelivered, ScheduleResult, ReplySocketmap, IdleConn
  <2>. QED  BY <2>1, Zenon
<1>6. ASSUME NEW c \in Conns, RefreshDomain(c) PROVE AloneInv'
  <2>1. ~flight.on
    BY <1>6 DEF RefreshDomain
  <2>2. /\ conn'[c].pc = "wait" /\ conn'[c].base = conn[c].base
        /\ flight' = [on |-> TRUE, base |-> conn[c].base, start |-> now] /\ now' = now
        /\ conn[c].pc = "miss"
    BY <1>0, <1>6, <2>1 DEF RefreshDomain, ConnStates
  <2>3. flight'.base = conn[c].base /\ flight'.start = now
    BY <2>2, Zenon
  <2>4. \A x \in Conns : x = c
    OBVIOUS
  <2>5. now <= now /\ ~LegacyUsable(conn[c].base, now)
    <3>1. now <= now
      BY <1>0
    <3>. QED  BY <2>2, <3>1, ZenonT(60)
  <2>. QED  BY <2>2, <2>3, <2>4, <2>5, ZenonT(60)
<1>7. ASSUME NEW d \in DaneOutcomes, NEW m \in MtaStsOutcomes, FlightEnd(d, m) PROVE AloneInv'
  <2>. DEFINE r == QueryDomainBranches(flight.base, flight.start, 0, d, m)
  <2>1. flight.start \in Nat
    BY <1>0, Zenon DEF FlightStates
  <2>2. flight.start <= now => Obtained(flight.base, r, now)
    BY <2>1, Zenon DEF Obtained
  <2>. HIDE DEF r
  <2>3. /\ flight.on /\ flight' = NoFlight /\ now' = now
        /\ conn' = [c \in Conns |->
             IF conn[c].pc = "wait"
             THEN [conn[c] EXCEPT !.pc = "reply", !.res = r, !.at = now]
             ELSE conn[c]]
    BY <1>7, Zenon DEF FlightEnd, r
  <2>4. \A c \in Conns : /\ conn[c].pc = "wait" /\ conn'[c].pc = "reply"
                         /\ conn'[c].base = conn[c].base /\ conn'[c].res = r
    BY <1>0, <2>3, ZenonT(60) DEF ConnStates
  <2>. QED  BY <1>2, <2>2, <2>3, <2>4
<1>8. CASE UNCHANGED <<now, conn, flight>>
  BY <1>8, Zenon
<1>. QED  BY <1>3, <1>4, <1>5, <1>6, <1>7, <1>8, ConnectionSteps, Zenon DEF ConnStep, Lookup

(* What a connection answered from the network is what the entry it then   *)
(* stores answers, if that entry answers anything, as long as no other     *)
(* connection shares its lookups: for every entry it started from, with    *)
(* branches or legacy fields, every outcome and however long the lookups   *)
(* and the write took, prefetching, tidyCache and PURGE going on meanwhile.*)
THEOREM StoredAgreesAlways ==
  ASSUME NEW a, Conns = {a}
  PROVE  Spec => StoredAgreesWithAnswer
<1>. DEFINE A == \A c \in Conns :
                   Stores(c) =>
                     LET sel == SelectCachedPolicy(entry', now)
                     IN  sel.ok => sel.policy = conn[c].res.policy
<1>1. Init => AloneInv
  BY DEF Init, AloneInv, IdleConn, NoFlight
<1>2. TypeOK /\ AloneInv /\ [Next]_vars => AloneInv'
  BY NextAlone, ZenonT(60)
<1>3. TypeOK /\ AloneInv /\ [Next]_vars => [A]_vars
  <2>. SUFFICES ASSUME TypeOK, AloneInv, Next, NEW c \in Conns, Stores(c),
                       SelectCachedPolicy(entry', now).ok
                PROVE  SelectCachedPolicy(entry', now).policy = conn[c].res.policy
    OBVIOUS
  <2>1. conn \in [Conns -> ConnStates] /\ now \in Nat /\ conn[c].base \in Entries
    BY Zenon DEF TypeOK, ConnStates
  <2>2. conn[c].pc = "reply" /\ conn'[c].pc # "reply" /\ WorthStoring(conn[c].base, conn[c].res)
    BY Zenon DEF Stores
  <2>3. ReplySocketmap(c)
    <3>1. conn' # conn
      BY <2>2
    <3>2. Lookup \/ \E x \in Conns : TryCachedPolicy(x) \/ ConnStep(x)
      BY <3>1, ConnectionSteps DEF Tick
    <3>3. ~Lookup
      BY <2>2, Zenon DEF Lookup, FlightEnd
    <3>. QED
      BY <2>1, <2>2, <3>2, <3>3, ZenonT(60) DEF ConnStep, TryCachedPolicy, HitDelivered, RefreshDomain,
         ReplySocketmap, ScheduleResult
  <2>4. PICK j \in 0 .. EXPIRY_JITTER :
          entry' = MergeCacheResult(conn[c].base, conn[c].res, now, j)
    BY <2>2, <2>3, Zenon DEF ReplySocketmap
  <2>5. j \in Nat
    BY JitterType, Zenon
  <2>6. Obtained(conn[c].base, conn[c].res, now) /\ ~LegacyUsable(conn[c].base, now)
    BY <2>2, Zenon DEF AloneInv
  <2>. DEFINE cs == MergeCacheResult(conn[c].base, conn[c].res, now, j)
  <2>7. SelectCachedPolicy(cs, now).ok
    BY <2>4, ZenonT(60)
  <2>8. SelectCachedPolicy(cs, now).policy = conn[c].res.policy
    BY <2>1, <2>5, <2>6, <2>7, StoredAgrees
  <2>. HIDE DEF cs
  <2>. QED  BY <2>4, <2>8, Zenon DEF cs
<1>. QED  BY <1>1, <1>2, <1>3, TypeCorrect, PTL DEF Spec, StoredAgreesWithAnswer
=============================================================================
