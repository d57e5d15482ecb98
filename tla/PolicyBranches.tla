--------------------------- MODULE PolicyBranches ---------------------------
(***************************************************************************)
(* The policy state of one domain and the decisions taken on it:           *)
(* internal/server.go (CacheStruct, PolicyBranch, selectCachedPolicy,      *)
(* mergeCacheResult, queryDomainBranches...).                              *)
(*                                                                         *)
(* Time is counted in whole units; 0 stands for Go's zero time.  A branch  *)
(* of a cached entry is [policy, exp]: its TTL is never read once its      *)
(* expiry is set.  A branch of a lookup result, or one picked for          *)
(* selection, is [policy, ttl].  TLSRPT reports travel with the policies   *)
(* and are left out.  nil is the entry that is not "found".                *)
(***************************************************************************)
EXTENDS Integers

CONSTANTS
  CACHE_NOTFOUND_TTL, CACHE_MIN_TTL, CACHE_MAX_TTL, CACHE_MAX_AGE,
  POLICY_BRANCH_RECHECK, MTA_STS_FETCH_RETRY_INTERVAL,
  EXPIRY_JITTER                 \* rand.Uint32N(20) is at most this

ASSUME BranchAssumption ==
  /\ CACHE_NOTFOUND_TTL \in Nat \ {0} /\ CACHE_MIN_TTL \in Nat \ {0}
  /\ CACHE_MAX_TTL \in Nat /\ CACHE_MAX_TTL >= CACHE_MIN_TTL
  /\ CACHE_MAX_AGE \in Nat \ {0}
  /\ POLICY_BRANCH_RECHECK \in Nat \ {0}
  /\ MTA_STS_FETCH_RETRY_INTERVAL \in Nat
  /\ EXPIRY_JITTER \in Nat

DanePolicies == {"dane", "dane-only"}
Policies == DanePolicies \cup {"", "secure", "TEMP"}

NoBranch == [policy |-> "", exp |-> 0]
NoLive == [policy |-> "", ttl |-> 0]

(* The policies a DANE and an MTA-STS branch may hold.                     *)
InDane == DanePolicies \cup {""}
InMtaSts == {"", "secure"}

(* CacheStruct.  policy and exp are the legacy fields; the code reads them *)
(* only in an entry without branches, and only then are they kept here.    *)
Entries == [found : BOOLEAN,
            dane : [policy : InDane, exp : Nat], mtaSts : [policy : InMtaSts, exp : Nat],
            daneLast : Nat, mtaStsLast : Nat, policy : Policies, exp : Nat]

NoEntry == [found |-> FALSE, dane |-> NoBranch, mtaSts |-> NoBranch,
            daneLast |-> 0, mtaStsLast |-> 0, policy |-> "", exp |-> 0]

(* An entry whose policy state was discarded; its query counter is kept.   *)
StatsOnly == [NoEntry EXCEPT !.found = TRUE]

---------------------------------------------------------------------------
(* Lifetimes.                                                              *)
HasData(b) == b.exp # 0
HasLive(b) == b.ttl # 0

Until(exp, now) == IF exp > now THEN exp - now ELSE 0

RemainingTTL(b, now) == Until(b.exp, now)

(* The zero time is older than any limit.                                  *)
Since(exp, now) ==
  IF exp = 0 THEN CACHE_MAX_AGE ELSE IF now > exp THEN now - exp ELSE 0

HasBranches(c) == HasData(c.dane) \/ HasData(c.mtaSts)

Smaller(a, b) == IF a < b THEN a ELSE b

Larger(a, b) == IF a < b THEN b ELSE a

EntryRemainingTTL(c, now) ==
  IF HasBranches(c) THEN Larger(RemainingTTL(c.dane, now), RemainingTTL(c.mtaSts, now))
                    ELSE Until(c.exp, now)

EntryAge(c, now) ==
  IF ~HasBranches(c) THEN Since(c.exp, now)
  ELSE IF ~HasData(c.dane) THEN Since(c.mtaSts.exp, now)
  ELSE IF ~HasData(c.mtaSts) THEN Since(c.dane.exp, now)
  ELSE Smaller(Since(c.dane.exp, now), Since(c.mtaSts.exp, now))

NoPolicyOnly(c) ==
  IF HasBranches(c) THEN c.dane.policy = "" /\ c.mtaSts.policy = ""
                    ELSE c.policy = ""

PolicyStateEmpty(c) == c.policy = "" /\ c.exp = 0 /\ ~HasBranches(c)

---------------------------------------------------------------------------
(* selectCachedPolicy: the answer of the cache, if it has one.             *)
NotSelected == [ok |-> FALSE, policy |-> "", ttl |-> 0]

Selected(policy, ttl) == [ok |-> TRUE, policy |-> policy, ttl |-> ttl]

SelectIgnoringDaneExpiry(c, now) ==     \* mutant: an expired "no DANE" still counts
  LET mtaStsTTL == RemainingTTL(c.mtaSts, now)
      daneTTL == RemainingTTL(c.dane, now)
  IN  CASE daneTTL # 0 /\ c.dane.policy # "" -> Selected(c.dane.policy, daneTTL)
        [] HasData(c.dane) /\ c.dane.policy = "" /\ mtaStsTTL # 0 ->
             Selected(c.mtaSts.policy, mtaStsTTL)
        [] OTHER -> NotSelected

SelectCachedPolicy(c, now) ==
  LET daneTTL == RemainingTTL(c.dane, now)
      mtaStsTTL == RemainingTTL(c.mtaSts, now)
  IN  CASE ~HasBranches(c) /\ c.policy \in DanePolicies /\ c.exp > now ->
             Selected(c.policy, c.exp - now)
        [] daneTTL # 0 /\ c.dane.policy # "" ->
             Selected(c.dane.policy, daneTTL)
        [] daneTTL # 0 /\ c.dane.policy = "" /\ mtaStsTTL # 0 ->
             Selected(c.mtaSts.policy, Smaller(daneTTL, mtaStsTTL))
        [] OTHER -> NotSelected

---------------------------------------------------------------------------
(* What a lookup returned, as a branch.  A DANE lookup that says "TEMP"    *)
(* is no data; neither is an MTA-STS policy with a max_age of zero.        *)
AtMostMaxTTL(ttl) == Smaller(ttl, CACHE_MAX_TTL)

DefaultTTL(o) == IF o.policy = "" /\ o.ttl = 0 THEN CACHE_NOTFOUND_TTL ELSE o.ttl

BranchFromAnyResult(o) ==               \* mutant: "TEMP" is kept like a policy
  [policy |-> o.policy, ttl |-> AtMostMaxTTL(Larger(DefaultTTL(o), CACHE_MIN_TTL))]

BranchFromResult(o) ==
  IF o.policy = "TEMP" THEN NoLive
  ELSE [policy |-> o.policy,
        ttl |-> AtMostMaxTTL(Larger(DefaultTTL(o), CACHE_MIN_TTL))]

MtaStsBranchFromResult(o) ==
  IF o.policy = "TEMP" THEN NoLive
  ELSE [policy |-> o.policy, ttl |-> AtMostMaxTTL(DefaultTTL(o))]

---------------------------------------------------------------------------
(* queryDomainBranches: which lookups to make for an entry, and the answer *)
(* that follows from their outcomes.                                       *)
FreshBranch(b, now) ==
  IF RemainingTTL(b, now) = 0 THEN NoLive
  ELSE [policy |-> b.policy, ttl |-> RemainingTTL(b, now)]

(* "No DANE" beside an MTA-STS policy is trusted until the next recheck    *)
(* after the last attempt, even when it has expired.                       *)
DaneThrottled(c, now) ==
  /\ HasData(c.dane) /\ c.dane.policy = ""
  /\ c.mtaSts.policy # ""
  /\ c.daneLast # 0 /\ now < c.daneLast + POLICY_BRANCH_RECHECK

DaneBranchForSelection(c, now) ==
  IF RemainingTTL(c.dane, now) = 0 /\ DaneThrottled(c, now)
  THEN [policy |-> "", ttl |-> c.daneLast + POLICY_BRANCH_RECHECK - now]
  ELSE FreshBranch(c.dane, now)

BranchForQuerySuppression(b, renewBefore) ==
  IF b.ttl <= renewBefore THEN NoLive ELSE b

BeforeBranchRecheck(last, now, renewBefore) ==
  last # 0 /\ now + renewBefore < last + POLICY_BRANCH_RECHECK

ShouldQueryDane(c, now, renewBefore) ==
  /\ ~HasLive(BranchForQuerySuppression(DaneBranchForSelection(c, now), renewBefore))
  /\ ~ /\ c.mtaSts.policy # "" /\ HasData(c.dane) /\ c.dane.policy = ""
       /\ BeforeBranchRecheck(c.daneLast, now, renewBefore)

ShouldQueryMtaSts(c, now, renewBefore) ==
  /\ ~HasLive(BranchForQuerySuppression(FreshBranch(c.mtaSts, now), renewBefore))
  /\ ~(c.mtaStsLast # 0 /\ now < c.mtaStsLast + MTA_STS_FETCH_RETRY_INTERVAL)
  /\ ~(c.dane.policy # "" /\ BeforeBranchRecheck(c.mtaStsLast, now, renewBefore))

EmptyUnavailable(o) == o.policy \in {"TEMP", ""}    \* mutant: mode: none is no answer

(* No lifetime means that nothing was fetched, or a max_age of zero.       *)
LivePolicyUnavailable(o) == o.policy = "TEMP" \/ (o.policy = "" /\ o.ttl = 0)

SelectedWithoutDane(dane, mtaSts) ==    \* mutant: MTA-STS steps in for a failed DANE lookup
  CASE HasLive(dane) /\ dane.policy # "" -> dane
    [] ~HasLive(dane) /\ ~HasLive(mtaSts) -> [policy |-> "TEMP", ttl |-> 0]
    [] OTHER -> mtaSts

(* A temporary failure leaves no DANE branch, so it also selects "TEMP".   *)
SelectedPolicyFromBranches(dane, mtaSts) ==
  CASE ~HasLive(dane) -> [policy |-> "TEMP", ttl |-> 0]
    [] HasLive(dane) /\ dane.policy # "" -> dane
    [] HasLive(dane) /\ dane.policy = "" /\ HasLive(mtaSts) ->
         [policy |-> mtaSts.policy, ttl |-> Smaller(dane.ttl, mtaSts.ttl)]
    [] OTHER -> NoLive

Results == [policy : Policies, ttl : Nat,
            dane : [policy : InDane, ttl : Nat], mtaSts : [policy : InMtaSts, ttl : Nat],
            daneAttempted : BOOLEAN, mtaStsAttempted : BOOLEAN]

QueryDomainBranches(c, now, renewBefore, daneOutcome, mtaStsOutcome) ==
  LET queryDane == ShouldQueryDane(c, now, renewBefore)
      queryMtaSts == ShouldQueryMtaSts(c, now, renewBefore)
      mtaStsFresh == FreshBranch(c.mtaSts, now)
      replaced == queryMtaSts /\ (~LivePolicyUnavailable(mtaStsOutcome) \/ ~HasLive(mtaStsFresh))
      dane == IF queryDane THEN BranchFromResult(daneOutcome) ELSE NoLive
      mtaSts == IF replaced THEN MtaStsBranchFromResult(mtaStsOutcome) ELSE NoLive
      answer == SelectedPolicyFromBranches(
                  IF queryDane THEN dane ELSE DaneBranchForSelection(c, now),
                  IF replaced THEN mtaSts ELSE mtaStsFresh)
  IN  [policy |-> answer.policy, ttl |-> answer.ttl, dane |-> dane, mtaSts |-> mtaSts,
       daneAttempted |-> queryDane, mtaStsAttempted |-> queryMtaSts]

---------------------------------------------------------------------------
(* mergeCacheResult: the entry stored for a result obtained from entry c.  *)
(* jitter is the random part of a DANE branch's lifetime.                  *)
ExpireBranch(b, now, jitter) == [policy |-> b.policy, exp |-> now + b.ttl + jitter]

ExpireMtaStsBranch(b, now) == [policy |-> b.policy, exp |-> now + b.ttl]

(* A negative branch beside a policy of the other kind is kept for a day.  *)
Lengthened(b, otherPolicy) ==
  IF b.policy = "" /\ otherPolicy # "" THEN [b EXCEPT !.ttl = POLICY_BRANCH_RECHECK] ELSE b

MergedBranches(c, r, now, jitter) ==
  LET mtaStsPolicy == IF HasLive(r.mtaSts) THEN r.mtaSts.policy ELSE c.mtaSts.policy
      danePolicy == IF HasLive(r.dane) THEN r.dane.policy ELSE c.dane.policy
  IN  [c EXCEPT !.found = TRUE,
                !.dane = IF HasLive(r.dane)
                         THEN ExpireBranch(Lengthened(r.dane, mtaStsPolicy), now, jitter) ELSE @,
                !.mtaSts = IF HasLive(r.mtaSts)
                           THEN ExpireMtaStsBranch(Lengthened(r.mtaSts, danePolicy), now) ELSE @,
                !.daneLast = IF r.daneAttempted THEN now ELSE @,
                !.mtaStsLast = IF r.mtaStsAttempted THEN now ELSE @]

(* The legacy fields, forgotten where an entry has branches.               *)
MergeCacheResult(c, r, now, jitter) ==
  LET m == MergedBranches(c, r, now, jitter)
      sel == SelectCachedPolicy(m, now)
  IN  CASE HasBranches(m) -> [m EXCEPT !.policy = "", !.exp = 0]
        [] ~HasBranches(m) /\ sel.ok -> m
        [] OTHER -> [m EXCEPT !.policy = r.policy]

---------------------------------------------------------------------------
(* prefetch.go: what a refresh that keeps failing does to an entry.        *)
BranchHadPolicyWithin(b, now, window) == b.policy # "" /\ now < b.exp + window

HadPolicyWithin(c, now, window) ==
  BranchHadPolicyWithin(c.dane, now, window) \/ BranchHadPolicyWithin(c.mtaSts, now, window)

ShouldRetryCachedPolicyPrefetch(c, now) ==
  LET sel == SelectCachedPolicy(c, now)
  IN  /\ c.found
      /\ EntryAge(c, now) < CACHE_MAX_AGE /\ EntryRemainingTTL(c, now) # 0
      /\ ~sel.ok \/ sel.policy # "" \/ HadPolicyWithin(c, now, POLICY_BRANCH_RECHECK)

DaneFailed(r) == r.daneAttempted /\ ~HasLive(r.dane)

MtaStsFailed(r) == r.mtaStsAttempted /\ ~HasLive(r.mtaSts)

FailedPolicyGraceDeadline(c, r) ==
  Larger(IF DaneFailed(r) /\ c.dane.policy # "" THEN c.dane.exp + POLICY_BRANCH_RECHECK ELSE 0,
         IF MtaStsFailed(r) /\ c.mtaSts.policy # "" THEN c.mtaSts.exp + POLICY_BRANCH_RECHECK ELSE 0)

(* The failed branch becomes "no policy" for a day when the other branch   *)
(* still holds a policy; otherwise nothing is left to keep (StatsOnly).    *)
CacheAfterFailedBranchDiscard(c, r, now, jitter) ==
  LET none == ExpireBranch([NoLive EXCEPT !.ttl = POLICY_BRANCH_RECHECK], now, jitter)
      daneCase == DaneFailed(r) /\ c.mtaSts.policy # "" /\ RemainingTTL(c.mtaSts, now) # 0
      mtaStsCase == MtaStsFailed(r) /\ c.dane.policy # "" /\ RemainingTTL(c.dane, now) # 0
      cs == IF daneCase THEN [c EXCEPT !.dane = none, !.daneLast = now]
                        ELSE [c EXCEPT !.mtaSts = none, !.mtaStsLast = now]
  IN  IF (daneCase \/ mtaStsCase) /\ SelectCachedPolicy(cs, now).ok THEN cs ELSE StatsOnly
=============================================================================
