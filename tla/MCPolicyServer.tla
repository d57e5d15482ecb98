--------------------------- MODULE MCPolicyServer ---------------------------
(* Instances of PolicyServer for TLC: a unit of time is a few minutes, a   *)
(* day is three of them.                                                   *)
EXTENDS PolicyServer

CONSTANTS c1, c2

Temp == [policy |-> "TEMP", ttl |-> 0]

MCDaneOutcomes ==
  {Temp, [policy |-> "", ttl |-> 1], [policy |-> "dane-only", ttl |-> 1]}

MtaSts(policy, ttl, fetched) == [policy |-> policy, ttl |-> ttl, fetched |-> fetched]

(* Unreachable, no record, and an enforced policy.                         *)
FewMtaStsOutcomes ==
  {MtaSts("TEMP", 0, FALSE), MtaSts("", 0, FALSE), MtaSts("secure", 5, TRUE)}

UpkeepMtaStsOutcomes == FewMtaStsOutcomes \cup {MtaSts("", 3, TRUE)}  \* mode: none

TwoMtaStsOutcomes == {MtaSts("TEMP", 0, FALSE), MtaSts("secure", 5, TRUE)}

(* Nothing cached, or an entry written before branches were introduced.    *)
MCInitialEntries == {NoEntry, [StatsOnly EXCEPT !.policy = "dane-only", !.exp = 2]}

NothingCached == {NoEntry}

(* "No DANE" found at time 2, beside an MTA-STS policy that is about to    *)
(* expire or not.                                                          *)
MtaStsCached ==
  {[NoEntry EXCEPT !.found = TRUE, !.dane = [policy |-> "", exp |-> 5], !.daneLast = 2,
                   !.mtaSts = [policy |-> "secure", exp |-> e], !.mtaStsLast = 2] : e \in {5, 8}}

UpkeepEntries == MtaStsCached \cup {[StatsOnly EXCEPT !.policy = "dane-only", !.exp = e] : e \in {3, 6}}
=============================================================================
