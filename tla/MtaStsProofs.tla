----------------------------- MODULE MtaStsProofs -----------------------------
(***************************************************************************)
(* Proofs about the MTA-STS lookup: for a policy of any number of lines,   *)
(* over any keys and values, the parser returns what was published, and a  *)
(* TXT record of any number of fields is judged as RFC 8461 has it.        *)
(*                                                                         *)
(* The inductive invariant says of a parser in the middle of a policy that *)
(* each of its fields is a function of the lines that count among those    *)
(* scanned so far.                                                         *)
(***************************************************************************)
EXTENDS MtaSts, TLAPS, WellFoundedInduction

Reported(line) == line.key \notin Extensions \/ line.val \notin Braces

ParserType ==
  /\ parser.mxServers \in Seq({Server[v] : v \in DOMAIN Server})
  /\ parser.report \in Seq(Lines)

KeysOf(lines) == {lines[i].key : i \in DOMAIN lines}

ParserAgrees ==
  /\ WellFormed
  /\ parser.existingKeys = KeysOf(body)
  /\ \A key \in Keys : key \in KeysOf(body) <=> Said(key) # {}
  /\ parser.hasVersion <=> "version" \in KeysOf(body)
  /\ parser.hasMode <=> "mode" \in KeysOf(body)
  /\ parser.hasMaxAge <=> "max_age" \in KeysOf(body)
  /\ parser.hasMode => Said("mode") = {parser.mode}
  /\ parser.hasMaxAge => \E v \in DOMAIN Number :
       Said("max_age") = {v} /\ parser.maxAge = MaxAge(Number[v])
  /\ ElementsOf(parser.mxServers) = {Server[v] : v \in Said("mx")}
  /\ ElementsOf(parser.report) = {line \in CountedLines : Reported(line)}

PolicyInv ==
  /\ body \in Seq(Lines)
  /\ pc \notin {"parse", "done"} => ~whole /\ body = <<>>
  /\ pc = "parse" => whole /\ ParserType /\ ParserAgrees
  /\ PolicyAsPublished

---------------------------------------------------------------------------
(* Of a line appended to the policy: it counts unless its key is a         *)
(* repeated one, and it changes nothing about the lines before it.         *)
LEMMA AppendCounts ==
  ASSUME body \in Seq(Lines), NEW line \in Lines, body' = Append(body, line)
  PROVE  /\ body' \in Seq(Lines)
         /\ DOMAIN body' = DOMAIN body \cup {Len(body) + 1}
         /\ \A i \in DOMAIN body : body'[i] = body[i]
         /\ body'[Len(body) + 1] = line
         /\ CountedLines' =
              IF line.key # "mx" /\ line.key \in KeysOf(body)
              THEN CountedLines ELSE CountedLines \cup {line}
<1> USE DEF KeysOf
<1> DEFINE n == Len(body) + 1
<1>1. /\ body' \in Seq(Lines) /\ Len(body) \in Nat
      /\ DOMAIN body = 1 .. Len(body) /\ DOMAIN body' = 1 .. n
      /\ \A i \in 1 .. Len(body) : body'[i] = body[i]
      /\ body'[n] = line
  OBVIOUS
<1>2. DOMAIN body' = DOMAIN body \cup {n} /\ n \notin DOMAIN body
  BY <1>1
<1>3. \A i \in DOMAIN body : i < n /\ i \in Int
  BY <1>1
<1> DEFINE Repeated == line.key # "mx" /\ line.key \in KeysOf(body)
<1>4. Counted' = IF Repeated THEN Counted ELSE Counted \cup {n}
  <2>1. \A i \in DOMAIN body : i \in Counted' <=> i \in Counted
    BY <1>1, <1>2, <1>3 DEF Counted
  <2>2. n \in Counted' <=> ~Repeated
    BY <1>1, <1>2, <1>3 DEF Counted
  <2>3. Counted' \subseteq DOMAIN body \cup {n} /\ Counted \subseteq DOMAIN body
    BY <1>2 DEF Counted
  <2>4. n \notin DOMAIN body
    BY <1>2
  <2> HIDE DEF Repeated, n
  <2>5. CASE Repeated
    <3>1. \A i : i \in Counted' <=> i \in Counted
      BY <2>1, <2>2, <2>3, <2>4, <2>5
    <3>2. Counted' = Counted
      BY <3>1, Zenon
    <3>. QED  BY <3>2, <2>5
  <2>6. CASE ~Repeated
    BY <2>1, <2>2, <2>3, <2>4, <2>6
  <2>. QED  BY <2>5, <2>6
<1>5. CountedLines' = {body'[i] : i \in Counted'}
  BY DEF CountedLines
<1>6. Counted \subseteq DOMAIN body
  BY DEF Counted
<1>7. CountedLines' = IF Repeated THEN CountedLines ELSE CountedLines \cup {line}
  <2>1. \A i \in Counted : body'[i] = body[i]
    BY <1>1, <1>6
  <2>2. CASE Repeated
    BY <2>1, <2>2, <1>4, <1>5, ZenonT(60) DEF CountedLines
  <2>3. CASE ~Repeated
    <3>1. CountedLines' = {body'[i] : i \in Counted \cup {n}}
      BY <2>3, <1>4, <1>5, Zenon
    <3>2. body'[n] = line
      BY <1>1
    <3> HIDE DEF Repeated, n
    <3>3. CountedLines' = {body[i] : i \in Counted} \cup {line}
      BY <3>1, <3>2, <2>1, Zenon
    <3>. QED  BY <2>3, <3>3, Zenon DEF CountedLines
  <2>. QED  BY <2>2, <2>3
<1>. QED  BY <1>1, <1>2, <1>7

(* A line the parser rejects keeps the policy from being a valid one.      *)
LEMMA RejectedIsUnpublished ==
  ASSUME body \in Seq(Lines), NEW line \in Lines, body' = Append(body, line),
         parser.existingKeys = KeysOf(body),
         ~Parses(parser, line)
  PROVE  ~Published'
<1>1. CASE line = Malformed
  BY <1>1, AppendCounts DEF Published, WellFormed
<1>2. CASE line # Malformed
  <2>1. line.key # ""
    BY <1>2, MtaStsAssumption DEF Keys, Malformed
  <2>2. ~Ignored(parser, line) /\ ~Accepts(line)
    BY <2>1 DEF Parses
  <2>3. line \in CountedLines'
    BY <2>2, AppendCounts DEF Ignored
  <2>. QED  BY <2>2, <2>3 DEF Published, WellFormed, Accepts
<1>. QED  BY <1>1, <1>2

---------------------------------------------------------------------------
(* What the lines say, after one that counts and after one that does not.  *)
LEMMA AppendSays ==
  ASSUME body \in Seq(Lines), NEW line \in Lines, body' = Append(body, line)
  PROVE  \A key :
           Said(key)' =
             IF line.key = key /\ (key = "mx" \/ key \notin KeysOf(body))
             THEN Said(key) \cup {line.val} ELSE Said(key)
<1> SUFFICES ASSUME NEW key
             PROVE  Said(key)' =
                      IF line.key = key /\ (key = "mx" \/ key \notin KeysOf(body))
                      THEN Said(key) \cup {line.val} ELSE Said(key)
  OBVIOUS
<1> DEFINE Repeated == line.key # "mx" /\ line.key \in KeysOf(body)
<1>1. CountedLines' = IF Repeated THEN CountedLines ELSE CountedLines \cup {line}
  BY AppendCounts
<1>2. Said(key)' = {l.val : l \in {m \in CountedLines' : m.key = key}}
  BY DEF Said
<1>3. CASE Repeated
  BY <1>1, <1>2, <1>3 DEF Said
<1>4. CASE ~Repeated /\ line.key # key
  <2>1. {m \in CountedLines' : m.key = key} = {m \in CountedLines : m.key = key}
    BY <1>1, <1>4
  <2>. QED  BY <2>1, <1>2, <1>4 DEF Said
<1>5. CASE ~Repeated /\ line.key = key
  <2>1. {m \in CountedLines' : m.key = key} = {m \in CountedLines : m.key = key} \cup {line}
    BY <1>1, <1>5
  <2>2. Said(key)' = Said(key) \cup {line.val}
    BY <2>1, <1>2 DEF Said
  <2>. QED  BY <2>2, <1>5
<1>. QED  BY <1>3, <1>4, <1>5

(* Elements of a sequence with one more.                                   *)
LEMMA AppendElements ==
  ASSUME NEW S, NEW s \in Seq(S), NEW e
  PROVE  ElementsOf(Append(s, e)) = ElementsOf(s) \cup {e}
<1>1. /\ Len(s) \in Nat /\ DOMAIN s = 1 .. Len(s)
      /\ DOMAIN Append(s, e) = 1 .. (Len(s) + 1)
      /\ \A i \in 1 .. Len(s) : Append(s, e)[i] = s[i]
      /\ Append(s, e)[Len(s) + 1] = e
  OBVIOUS
<1>2. DOMAIN Append(s, e) = DOMAIN s \cup {Len(s) + 1}
  BY <1>1
<1>. QED  BY <1>1, <1>2 DEF ElementsOf

(* A line the parser accepts: the parser still agrees with the lines.      *)
LEMMA AcceptedAgrees ==
  ASSUME body \in Seq(Lines), NEW line \in Lines, body' = Append(body, line),
         ParserType, ParserAgrees, Parses(parser, line),
         parser' = ParseLine(parser, line)
  PROVE  ParserType' /\ ParserAgrees'
<1> DEFINE Repeated == line.key # "mx" /\ line.key \in KeysOf(body)
<1>1. /\ line.key \in Keys /\ line # Malformed
      /\ Repeated <=> Ignored(parser, line)
  <2>1. line # Malformed
    <3>1. Malformed.key = ""
      BY DEF Malformed
    <3>2. line.key # ""
      BY DEF Parses
    <3>. QED  BY <3>1, <3>2
  <2>2. line \in [key : Keys, val : Texts]
    BY <2>1, MtaStsAssumption
  <2>. QED  BY <2>1, <2>2 DEF ParserAgrees, Ignored
<1>2. /\ CountedLines' = IF Repeated THEN CountedLines ELSE CountedLines \cup {line}
      /\ KeysOf(body)' = KeysOf(body) \cup {line.key}
      /\ \A i \in DOMAIN body' : body'[i] # Malformed
  BY <1>1, AppendCounts DEF KeysOf, ParserAgrees, WellFormed
<1>3. \A key : Said(key)' = IF line.key = key /\ (key = "mx" \/ key \notin KeysOf(body))
                            THEN Said(key) \cup {line.val} ELSE Said(key)
  BY AppendSays
<1>4. CASE Repeated
  <2>1. parser' = parser /\ KeysOf(body)' = KeysOf(body) /\ CountedLines' = CountedLines
    BY <1>1, <1>2, <1>4, Zenon DEF ParseLine
  <2>2. \A key : Said(key)' = Said(key)
    BY <1>3, <1>4, Zenon
  <2>3. WellFormed'
    BY <2>1, <1>2 DEF ParserAgrees, WellFormed, Accepts
  <2>. QED  BY <2>1, <2>2, <2>3, Zenon DEF ParserAgrees, ParserType, Reported
<1>5. CASE ~Repeated
  <2>1. Accepts(line) /\ ~Ignored(parser, line)
    BY <1>1, <1>5 DEF Parses
  <2>2. /\ parser'.existingKeys = parser.existingKeys \cup {line.key}
        /\ parser'.mode = IF line.key = "mode" THEN line.val ELSE parser.mode
        /\ parser'.maxAge = IF line.key = "max_age" THEN MaxAge(Number[line.val]) ELSE parser.maxAge
        /\ parser'.mxServers = IF line.key = "mx" THEN Append(parser.mxServers, Server[line.val])
                               ELSE parser.mxServers
        /\ parser'.report = IF Reported(line) THEN Append(parser.report, line) ELSE parser.report
        /\ parser'.hasVersion = (parser.hasVersion \/ line.key = "version")
        /\ parser'.hasMode = (parser.hasMode \/ line.key = "mode")
        /\ parser'.hasMaxAge = (parser.hasMaxAge \/ line.key = "max_age")
    BY <2>1, Zenon DEF ParseLine, Reported
  <2>3. ParserType'
    BY <2>1, <2>2 DEF ParserType, Accepts
  <2>4. WellFormed'
    BY <2>1, <1>2, <1>5, ZenonT(60) DEF ParserAgrees, WellFormed, Accepts
  <2>5. parser'.existingKeys = KeysOf(body)'
    BY <2>2, <1>2, Zenon DEF ParserAgrees
  <2>6. \A key \in Keys : key \in KeysOf(body)' <=> Said(key)' # {}
    BY <1>2, <1>3, <1>5, Zenon DEF ParserAgrees
  <2>7. /\ (parser'.hasVersion <=> "version" \in KeysOf(body)')
        /\ (parser'.hasMode <=> "mode" \in KeysOf(body)')
        /\ (parser'.hasMaxAge <=> "max_age" \in KeysOf(body)')
    BY <2>2, <1>2, ZenonT(60) DEF ParserAgrees
  <2>8. parser'.hasMode => Said("mode")' = {parser'.mode}
    <3>1. "mode" \in Keys
      BY DEF Keys
    <3>2. CASE line.key = "mode"
      BY <3>1, <3>2, <2>2, <1>3, <1>5 DEF ParserAgrees
    <3>3. CASE line.key # "mode"
      BY <3>3, <2>2, <1>3, ZenonT(60) DEF ParserAgrees
    <3>. QED  BY <3>2, <3>3
  <2>9. parser'.hasMaxAge => \E v \in DOMAIN Number :
          Said("max_age")' = {v} /\ parser'.maxAge = MaxAge(Number[v])
    <3>1. "max_age" \in Keys
      BY DEF Keys
    <3>2. CASE line.key = "max_age"
      <4>1. Said("max_age")' = {line.val} /\ line.val \in DOMAIN Number
        BY <3>1, <3>2, <2>1, <1>3, <1>5 DEF ParserAgrees, Accepts
      <4>2. parser'.maxAge = MaxAge(Number[line.val])
        BY <3>2, <2>2
      <4>. QED  BY <4>1, <4>2
    <3>3. CASE line.key # "max_age"
      BY <3>3, <2>2, <1>3, Zenon DEF ParserAgrees
    <3>. QED  BY <3>2, <3>3
  <2>10. ElementsOf(parser'.mxServers) = {Server[v] : v \in Said("mx")'}
    <3>1. CASE line.key = "mx"
      <4>1. Said("mx")' = Said("mx") \cup {line.val}
        BY <3>1, <1>3
      <4>2. ElementsOf(parser'.mxServers) = ElementsOf(parser.mxServers) \cup {Server[line.val]}
        BY <3>1, <2>2, AppendElements DEF ParserType
      <4>. QED  BY <4>1, <4>2 DEF ParserAgrees
    <3>2. CASE line.key # "mx"
      BY <3>2, <2>2, <1>3 DEF ParserAgrees
    <3>. QED  BY <3>1, <3>2
  <2>11. ElementsOf(parser'.report) = {l \in CountedLines' : Reported(l)}
    <3>1. CASE Reported(line)
      <4>1. ElementsOf(parser'.report) = ElementsOf(parser.report) \cup {line}
        BY <3>1, <2>2, AppendElements DEF ParserType
      <4>. QED  BY <4>1, <3>1, <1>2, <1>5 DEF ParserAgrees
    <3>2. CASE ~Reported(line)
      BY <3>2, <2>2, <1>2, <1>5, ZenonT(60) DEF ParserAgrees
    <3>. QED  BY <3>1, <3>2, Zenon
  <2>12. ParserAgrees'
    <3>1. \A l : Reported(l)' <=> Reported(l)
      BY Zenon DEF Reported
    <3>. QED  BY <2>4, <2>5, <2>6, <2>7, <2>8, <2>9, <2>10, <2>11, Zenon DEF ParserAgrees
  <2>. QED  BY <2>3, <2>12, Zenon
<1>. QED  BY <1>4, <1>5, Zenon

(* Before the first line a new parser agrees with the policy.              *)
LEMMA EmptyAgrees ==
  ASSUME body' = <<>>, parser' = NewMtaStsPolicyParser
  PROVE  ParserType' /\ ParserAgrees'
<1>1. /\ parser'.existingKeys = {} /\ parser'.mxServers = <<>> /\ parser'.report = <<>>
      /\ parser'.hasVersion = FALSE /\ parser'.hasMode = FALSE /\ parser'.hasMaxAge = FALSE
  BY DEF NewMtaStsPolicyParser
<1>2. DOMAIN body' = {} /\ KeysOf(body)' = {} /\ ElementsOf(<<>>) = {}
  BY DEF KeysOf, ElementsOf
<1>3. Counted' = {}
  BY <1>2 DEF Counted
<1>4. CountedLines' = {}
  BY <1>3 DEF CountedLines
<1>5. \A key : Said(key)' = {}
  BY <1>4 DEF Said
<1>6. WellFormed'
  BY <1>2, <1>4, Zenon DEF WellFormed
<1>. QED  BY <1>1, <1>2, <1>4, <1>5, <1>6, Zenon DEF ParserType, ParserAgrees

(* What is said of the lines depends on nothing else.                      *)
LEMMA SameLines ==
  ASSUME body' = body
  PROVE  /\ CountedLines' = CountedLines /\ KeysOf(body)' = KeysOf(body)
         /\ \A key : Said(key)' = Said(key)
         /\ WellFormed' <=> WellFormed
         /\ Published' <=> Published
<1>1. Counted' = Counted
  BY DEF Counted
<1>2. CountedLines' = CountedLines /\ KeysOf(body)' = KeysOf(body)
  BY <1>1, Zenon DEF CountedLines, KeysOf
<1>3. \A key : Said(key)' = Said(key)
  BY <1>2, Zenon DEF Said
<1>4. WellFormed' <=> WellFormed
  BY <1>2 DEF WellFormed, Accepts
<1>. QED  BY <1>2, <1>3, <1>4, Zenon DEF Published

LEMMA SmallModulo ==
  ASSUME NEW x \in Nat, NEW u \in Nat, x < u
  PROVE  x % u = x
OBVIOUS

(* The cap comes before the conversion, which then changes nothing.        *)
LEMMA MaxAgeIsCap ==
  ASSUME NEW w \in DOMAIN Number
  PROVE  /\ MaxAge(Number[w]) = IF Number[w] < MTASTS_MAX_AGE THEN Number[w] ELSE MTASTS_MAX_AGE
         /\ MaxAge(Number[w]) \in 0 .. MTASTS_MAX_AGE
<1> DEFINE c == IF Number[w] > MTASTS_MAX_AGE THEN MTASTS_MAX_AGE ELSE Number[w]
<1>1. /\ Number[w] \in Nat
      /\ MTASTS_MAX_AGE \in Nat /\ UINT32 \in Nat /\ MTASTS_MAX_AGE < UINT32
  BY MtaStsAssumption, Zenon
<1>2. c \in Nat /\ c < UINT32
  BY <1>1
<1>3. c % UINT32 = c
  BY <1>1, <1>2, SmallModulo, Zenon
<1>. QED  BY <1>1, <1>3 DEF MaxAge

(* At the end of the lines the parser returns what they say.               *)
LEMMA EndAgrees ==
  ASSUME ParserType, ParserAgrees, pc' = "done", whole', body' = body,
         verdict' = ParseMtaStsPolicy(parser)
  PROVE  PolicyAsPublished'
<1> DEFINE v == ParseMtaStsPolicy(parser)
<1>0. /\ CountedLines' = CountedLines
      /\ \A key : Said(key)' = Said(key)
      /\ Published' <=> Published
  BY SameLines
<1>1. {"version", "mode", "max_age", "mx"} \subseteq Keys
  BY Zenon DEF Keys
<1>2. /\ parser.hasVersion <=> Said("version") # {}
      /\ parser.hasMode <=> Said("mode") # {}
      /\ parser.hasMaxAge <=> Said("max_age") # {}
  BY <1>1 DEF ParserAgrees
<1>3. parser.mxServers = <<>> <=> Said("mx") = {}
  <2>1. parser.mxServers = <<>> <=> ElementsOf(parser.mxServers) = {}
    <3> DEFINE S == {Server[w] : w \in DOMAIN Server}
    <3>1. parser.mxServers \in Seq(S)
      BY DEF ParserType
    <3> HIDE DEF S
    <3>2. \A q \in Seq(S) : q = <<>> <=> ElementsOf(q) = {}
      <4> SUFFICES ASSUME NEW q \in Seq(S) PROVE q = <<>> <=> ElementsOf(q) = {}
        OBVIOUS
      <4>1. DOMAIN q = 1 .. Len(q) /\ Len(q) \in Nat /\ (q = <<>> <=> Len(q) = 0)
        OBVIOUS
      <4>2. DOMAIN q = {} <=> Len(q) = 0
        <5>1. CASE Len(q) = 0
          BY <4>1, <5>1
        <5>2. CASE Len(q) # 0
          <6>1. 1 \in DOMAIN q
            BY <4>1, <5>2
          <6>. QED  BY <6>1, <5>2
        <5>. QED  BY <5>1, <5>2
      <4>3. ElementsOf(q) = {} <=> DOMAIN q = {}
        BY Zenon DEF ElementsOf
      <4>. QED  BY <4>1, <4>2, <4>3
    <3>. QED  BY <3>1, <3>2, Zenon
  <2>2. ElementsOf(parser.mxServers) = {Server[x] : x \in Said("mx")}
    BY DEF ParserAgrees
  <2>3. {Server[x] : x \in Said("mx")} = {} <=> Said("mx") = {}
    BY ZenonT(60)
  <2>. QED  BY <2>1, <2>2, <2>3, Zenon
<1>4. Published <=> /\ parser.hasVersion /\ parser.hasMode /\ parser.hasMaxAge
                    /\ parser.mode = "none" \/ parser.mxServers # <<>>
  BY <1>2, <1>3 DEF Published, ParserAgrees
<1>5. CASE ~Published
  <2>1. v = Absent
    BY <1>4, <1>5 DEF ParseMtaStsPolicy
  <2>. QED  BY <2>1, <1>0, <1>5 DEF PolicyAsPublished, Absent
<1>6. CASE Published
  <2>1. Said("mode") = {parser.mode}
    BY <1>4, <1>6, Zenon DEF ParserAgrees
  <2>2. PICK w \in DOMAIN Number : Said("max_age") = {w} /\ parser.maxAge = MaxAge(Number[w])
    BY <1>4, <1>6, Zenon DEF ParserAgrees
  <2>3. MaxAge(Number[w]) = IF Number[w] < MTASTS_MAX_AGE THEN Number[w] ELSE MTASTS_MAX_AGE
    BY MaxAgeIsCap, ZenonT(60)
  <2>4. CASE parser.mode = "enforce"
    <3>1. v = Verdict("secure", parser.mxServers, parser.report, parser.maxAge)
      BY <1>4, <1>6, <2>4 DEF ParseMtaStsPolicy
    <3>2. /\ v.policy = "secure" /\ v.ttl = parser.maxAge
          /\ v.servers = parser.mxServers /\ v.report = parser.report
      BY <3>1 DEF Verdict
    <3>3. Said("mode") = {"enforce"}
      BY <2>1, <2>4, Zenon
    <3>4. /\ ElementsOf(v.servers) = {Server[x] : x \in Said("mx")}
          /\ ElementsOf(v.report) =
               {line \in CountedLines : line.key \notin Extensions \/ line.val \notin Braces}
      BY <3>2 DEF ParserAgrees, Reported
    <3> HIDE DEF v
    <3>5. verdict' = v
      BY ZenonT(60) DEF v
    <3>. QED  BY <1>0, <1>6, <2>2, <2>3, <3>2, <3>3, <3>4, <3>5 DEF PolicyAsPublished
  <2>5. CASE parser.mode # "enforce"
    <3>1. v = Verdict("", <<>>, <<>>, parser.maxAge)
      BY <1>4, <1>6, <2>5 DEF ParseMtaStsPolicy
    <3>2. \A e : /\ Verdict("", e, e, parser.maxAge).policy = ""
                 /\ Verdict("", e, e, parser.maxAge).ttl = parser.maxAge
      BY Zenon DEF Verdict
    <3>3. Said("mode") # {"enforce"}
      BY <2>1, <2>5, Zenon
    <3> HIDE DEF v
    <3>4. v.policy = "" /\ v.ttl = parser.maxAge
      BY <3>1, <3>2
    <3>5. verdict' = v
      BY DEF v
    <3>. QED  BY <1>0, <1>6, <2>2, <2>3, <3>3, <3>4, <3>5 DEF PolicyAsPublished
  <2>. QED  BY <2>4, <2>5, Zenon
<1>. QED  BY <1>5, <1>6, Zenon

---------------------------------------------------------------------------
LEMMA PolicyInvInit == Init => PolicyInv
BY DEF Init, PolicyInv, PolicyAsPublished, At

(* Every action but those of the parser leaves the policy alone.           *)
LEMMA PolicyInvStep ==
  ASSUME PolicyInv, [Next]_vars
  PROVE  PolicyInv'
<1>0. body \in Seq(Lines)
  BY Zenon DEF PolicyInv
<1>1. ASSUME ~whole' \/ ~At("done")', UNCHANGED body, pc' # "parse", pc # "parse", pc # "done",
             pc' = "done" => verdict' \in {Temp, Absent}, UNCHANGED whole
      PROVE  PolicyInv'
  BY <1>1 DEF PolicyInv, PolicyAsPublished, At
<1>2. CASE GetResolverAddress \/ CheckMtaStsRecord \/ Fetch \/ AttemptFailed \/ WaitPolicyRetry
  <2>1. /\ UNCHANGED <<body, whole>> /\ pc \notin {"parse", "done"} /\ pc' # "parse"
        /\ pc' = "done" => verdict' \in {Temp, Absent}
    BY <1>2 DEF GetResolverAddress, CheckMtaStsRecord, Fetch, AttemptFailed, WaitPolicyRetry,
                At, Go, Return
  <2>2. ~whole
    BY <2>1, ZenonT(60) DEF PolicyInv
  <2>. QED  BY <2>1, <2>2, <1>1, Zenon
<1>3. CASE ReadAll
  <2>1. pc = "read" /\ ~whole /\ body = <<>> /\ body' = <<>> /\ parser' = NewMtaStsPolicyParser
    BY <1>3 DEF PolicyInv, ReadAll, At
  <2>2. CASE Go("parse") /\ whole' = TRUE
    <3>1. ParserType' /\ ParserAgrees'
      BY <2>1, EmptyAgrees
    <3>. QED  BY <2>1, <2>2, <3>1, <1>0, Zenon DEF PolicyInv, PolicyAsPublished, Go, At
  <2>3. CASE Return(Absent) /\ UNCHANGED whole
    BY <2>1, <2>3, <1>1, Zenon DEF Return
  <2>. QED  BY <1>3, <2>2, <2>3 DEF ReadAll
<1>4. CASE Scan
  <2>1. PICK line \in Lines :
          /\ body' = Append(body, line)
          /\ \/ Parses(parser, line) /\ parser' = ParseLine(parser, line) /\ Go("parse")
             \/ ~Parses(parser, line) /\ Return(Absent) /\ UNCHANGED parser
    BY <1>4, Zenon DEF Scan
  <2>2. whole /\ whole' = whole /\ ParserType /\ ParserAgrees /\ body' \in Seq(Lines)
    BY <1>0, <1>4, <2>1 DEF Scan, PolicyInv, At
  <2>3. CASE Parses(parser, line) /\ parser' = ParseLine(parser, line) /\ Go("parse")
    <3>1. ParserType' /\ ParserAgrees'
      BY <1>0, <2>1, <2>2, <2>3, AcceptedAgrees, ZenonT(60)
    <3>. QED  BY <2>2, <2>3, <3>1 DEF PolicyInv, PolicyAsPublished, Go, At
  <2>4. CASE ~Parses(parser, line) /\ Return(Absent) /\ UNCHANGED parser
    <3>1. parser.existingKeys = KeysOf(body)
      BY <2>2, Zenon DEF ParserAgrees
    <3>2. ~Published'
      BY <1>0, <2>1, <2>4, <3>1, RejectedIsUnpublished, Zenon
    <3>. QED  BY <2>2, <2>4, <3>2, ZenonT(60) DEF PolicyInv, PolicyAsPublished, Return, At
  <2>. QED  BY <2>1, <2>3, <2>4, Zenon
<1>5. CASE ScanEnd
  <2>1. /\ whole /\ whole' /\ pc' = "done" /\ ParserType /\ ParserAgrees
        /\ body' = body /\ parser' = parser /\ verdict' = ParseMtaStsPolicy(parser)
    BY <1>5, Zenon DEF PolicyInv, ScanEnd, Return, At
  <2>2. PolicyAsPublished'
    BY <2>1, EndAgrees, Zenon
  <2>. QED  BY <1>0, <2>1, <2>2, Zenon DEF PolicyInv
<1>6. CASE Expire \/ UNCHANGED vars
  <2>1. /\ pc' = pc /\ body' = body /\ parser' = parser /\ verdict' = verdict /\ whole' = whole
    BY <1>6, Zenon DEF Expire, vars
  <2>2. ParserType => ParserType'
    BY <2>1, Zenon DEF ParserType
  <2>3. ParserAgrees => ParserAgrees'
    BY <2>1, SameLines, ZenonT(60) DEF ParserAgrees, Reported
  <2>4. PolicyAsPublished'
    <3>1. /\ CountedLines' = CountedLines /\ (Published' <=> Published)
          /\ \A key : Said(key)' = Said(key)
      BY <2>1, SameLines
    <3>2. PolicyAsPublished
      BY DEF PolicyInv
    <3>. QED  BY <2>1, <3>1, <3>2 DEF PolicyAsPublished, At
  <2>. QED  BY <2>1, <2>2, <2>3, <2>4, Zenon DEF PolicyInv
<1>. QED  BY <1>2, <1>3, <1>4, <1>5, <1>6, Zenon DEF Next, Lookup

(* checkMtaSts returns the policy that was published, for policies of any  *)
(* length over any keys and values.                                        *)
THEOREM PolicyAlwaysAsPublished == Spec => []PolicyAsPublished
<1>1. PolicyInv => PolicyAsPublished
  BY DEF PolicyInv
<1>. QED  BY <1>1, PolicyInvInit, PolicyInvStep, PTL DEF Spec

---------------------------------------------------------------------------
(* The attempts: those before the current one have failed, and a next one  *)
(* is only waited for when there is one left.                              *)
AttemptInv ==
  /\ TypeOK
  /\ pc = "resolver" => attempt = 1
  /\ pc \notin {"wait", "done"} => tried = 1 .. attempt - 1
  /\ pc = "wait" => tried = 1 .. attempt /\ attempt < Attempts
  /\ TempOnlyAfterAttempts

LEMMA AttemptsPositive ==
  ASSUME mayRetry \in BOOLEAN
  PROVE  Attempts \in Nat \ {0}
<1>1. POLICY_ATTEMPTS \in Nat \ {0}
  BY MtaStsAssumption, Zenon
<1>. QED  BY <1>1 DEF Attempts

LEMMA AttemptInvInit == Init => AttemptInv
<1> SUFFICES ASSUME Init PROVE AttemptInv
  OBVIOUS
<1>1. Attempts \in Nat /\ 1 \in 1 .. Attempts
  BY AttemptsPositive DEF Init
<1>2. parser.maxAge = 0 /\ parser.existingKeys = {}
  BY DEF Init, NewMtaStsPolicyParser
<1>3. MTASTS_MAX_AGE \in Nat
  BY MtaStsAssumption
<1>4. /\ parser.maxAge \in 0 .. MTASTS_MAX_AGE /\ parser.existingKeys \subseteq Keys
      /\ body \in Seq(Lines) /\ attempt \in 1 .. Attempts /\ tried \subseteq 1 .. attempt
  BY <1>1, <1>2, <1>3 DEF Init
<1>5. TypeOK
  BY <1>4, ZenonT(60) DEF Init, TypeOK
<1>. QED  BY <1>5 DEF Init, AttemptInv, TempOnlyAfterAttempts, At

(* What parseLine keeps about the fields of the parser.                    *)
LEMMA ParserFieldsTyped ==
  ASSUME parser.maxAge \in 0 .. MTASTS_MAX_AGE, parser.existingKeys \subseteq Keys,
         NEW line \in Lines, Parses(parser, line), parser' = ParseLine(parser, line)
  PROVE  parser'.maxAge \in 0 .. MTASTS_MAX_AGE /\ parser'.existingKeys \subseteq Keys
<1>1. CASE Ignored(parser, line)
  BY <1>1 DEF ParseLine
<1>2. CASE ~Ignored(parser, line)
  <2>1. /\ parser'.existingKeys = parser.existingKeys \cup {line.key}
        /\ parser'.maxAge = IF line.key = "max_age" THEN MaxAge(Number[line.val]) ELSE parser.maxAge
    BY <1>2, Zenon DEF ParseLine
  <2>2. line # Malformed
    <3>1. Malformed.key = ""
      BY ZenonT(60) DEF Malformed
    <3>2. line.key # ""
      BY DEF Parses
    <3>. QED  BY <3>1, <3>2, ZenonT(60)
  <2>3. line.key \in Keys
    BY <2>2, MtaStsAssumption
  <2>4. line.key = "max_age" => line.val \in DOMAIN Number
    BY <1>2, Zenon DEF Parses, Accepts
  <2>. QED  BY <2>1, <2>3, <2>4, MaxAgeIsCap
<1>. QED  BY <1>1, <1>2

LEMMA AttemptInvStep ==
  ASSUME AttemptInv, [Next]_vars
  PROVE  AttemptInv'
<1>0. /\ TypeOK /\ mayRetry' = mayRetry /\ Attempts' = Attempts /\ Attempts \in Nat
      /\ attempt \in Nat /\ MTASTS_MAX_AGE \in Nat
  <2>1. TypeOK /\ mayRetry \in BOOLEAN
    BY Zenon DEF AttemptInv, TypeOK
  <2>2. mayRetry' = mayRetry
    BY DEF Next, Lookup, vars, GetResolverAddress, CheckMtaStsRecord, Fetch, ReadAll, Scan,
           ScanEnd, AttemptFailed, WaitPolicyRetry, Expire
  <2>3. Attempts' = Attempts
    BY <2>2 DEF Attempts
  <2>4. Attempts \in Nat
    BY <2>1, AttemptsPositive, Zenon
  <2>5. attempt \in Nat
    BY <2>1, <2>4 DEF TypeOK
  <2>6. MTASTS_MAX_AGE \in Nat
    BY MtaStsAssumption, Zenon
  <2>. QED  BY <2>1, <2>2, <2>3, <2>4, <2>5, <2>6, Zenon
<1>1. Temp.policy = "TEMP" /\ Absent.policy # "TEMP"
  BY Zenon DEF Temp, Absent, Verdict
<1>2. CASE GetResolverAddress
  <2>1. TypeOK'
    BY <1>0, <1>2, Zenon DEF TypeOK, GetResolverAddress, Go, Return
  <2>2. tried = {}
    BY <1>0, <1>2 DEF AttemptInv, GetResolverAddress, At
  <2>. QED  BY <1>0, <1>1, <1>2, <2>1, <2>2, Zenon
            DEF AttemptInv, GetResolverAddress, Go, Return, At, TempOnlyAfterAttempts
<1>3. CASE CheckMtaStsRecord
  <2>1. TypeOK'
    BY <1>0, <1>3 DEF TypeOK, CheckMtaStsRecord, Go, Return
  <2>2. /\ pc = "record" /\ pc' \in {"fetch", "failed", "done"}
        /\ pc' = "done" => verdict' = Absent
        /\ UNCHANGED <<attempt, tried>>
    BY <1>3 DEF CheckMtaStsRecord, Go, Return, At
  <2>. QED  BY <1>0, <1>1, <2>1, <2>2, Zenon DEF AttemptInv, TempOnlyAfterAttempts, At
<1>4. CASE Fetch
  <2>1. TypeOK'
    BY <1>0, <1>4, Zenon DEF TypeOK, Fetch, Go, Return
  <2>2. /\ pc = "fetch" /\ pc' \in {"read", "failed", "done"} /\ (pc' = "done" => verdict' = Absent)
        /\ UNCHANGED <<attempt, tried>>
    BY <1>4, Zenon DEF Fetch, Go, Return, At
  <2>. QED  BY <1>0, <1>1, <2>1, <2>2, Zenon DEF AttemptInv, TempOnlyAfterAttempts, At
<1>5. CASE ReadAll
  <2>0. parser'.maxAge = 0 /\ parser'.existingKeys = {}
    BY <1>5 DEF ReadAll, NewMtaStsPolicyParser
  <2>1. parser'.maxAge \in 0 .. MTASTS_MAX_AGE /\ parser'.existingKeys \subseteq Keys
    BY <1>0, <2>0
  <2>2. TypeOK'
    BY <1>0, <1>5, <2>1, ZenonT(60) DEF TypeOK, ReadAll, Go, Return
  <2>3. /\ pc = "read" /\ pc' \in {"parse", "done"} /\ (pc' = "done" => verdict' = Absent)
        /\ UNCHANGED <<attempt, tried>>
    BY <1>5 DEF ReadAll, Go, Return, At
  <2>. QED  BY <1>0, <1>1, <2>2, <2>3, Zenon DEF AttemptInv, TempOnlyAfterAttempts, At
<1>6. CASE Scan
  <2>1. PICK line \in Lines :
          /\ body' = Append(body, line)
          /\ \/ Parses(parser, line) /\ parser' = ParseLine(parser, line) /\ Go("parse")
             \/ ~Parses(parser, line) /\ Return(Absent) /\ UNCHANGED parser
    BY <1>6 DEF Scan
  <2>2. parser'.maxAge \in 0 .. MTASTS_MAX_AGE /\ parser'.existingKeys \subseteq Keys
    BY <1>0, <2>1, ParserFieldsTyped DEF TypeOK
  <2>3. body' \in Seq(Lines)
    BY <1>0, <2>1 DEF TypeOK
  <2>4. /\ pc = "parse" /\ pc' \in {"parse", "done"} /\ (pc' = "done" => verdict' = Absent)
        /\ UNCHANGED <<mayRetry, attempt, ctxDone, tried, whole>>
    BY <1>6, <2>1, Zenon DEF Scan, Go, Return, At
  <2>5. TypeOK'
    BY <1>0, <2>2, <2>3, <2>4, Zenon DEF TypeOK
  <2>. QED  BY <1>0, <1>1, <2>4, <2>5 DEF AttemptInv, TempOnlyAfterAttempts, At
<1>7. CASE ScanEnd
  <2>1. ParseMtaStsPolicy(parser).policy # "TEMP"
    <3> DEFINE v == ParseMtaStsPolicy(parser)
               e == <<>>
    <3>1. \/ v = Verdict("", e, e, 0)
          \/ v = Verdict("secure", parser.mxServers, parser.report, parser.maxAge)
          \/ v = Verdict("", e, e, parser.maxAge)
      BY DEF ParseMtaStsPolicy, Absent
    <3> HIDE DEF v, e
    <3>2. \A s, r, t : Verdict("", s, r, t).policy = ""
      BY Zenon DEF Verdict
    <3>3. \A s, r, t : Verdict("secure", s, r, t).policy = "secure"
      BY ZenonT(60) DEF Verdict
    <3>4. v.policy = "" \/ v.policy = "secure"
      <4>1. CASE v = Verdict("", e, e, 0)
        BY <4>1, <3>2
      <4>2. CASE v = Verdict("secure", parser.mxServers, parser.report, parser.maxAge)
        BY <4>2, <3>3
      <4>3. CASE v = Verdict("", e, e, parser.maxAge)
        BY <4>3, <3>2
      <4>. QED  BY <3>1, <4>1, <4>2, <4>3
    <3>. QED  BY <3>4, ZenonT(60) DEF v
  <2>2. TypeOK'
    BY <1>0, <1>7, Zenon DEF TypeOK, ScanEnd, Return
  <2>3. /\ pc = "parse" /\ pc' = "done" /\ verdict'.policy # "TEMP"
        /\ UNCHANGED <<attempt, tried>>
    BY <1>7, <2>1, Zenon DEF ScanEnd, Return, At
  <2>. QED  BY <1>0, <2>2, <2>3, Zenon DEF AttemptInv, TempOnlyAfterAttempts, At
<1>8. CASE AttemptFailed
  <2>1. pc = "failed" /\ tried = 1 .. attempt - 1 /\ tried' = 1 .. attempt /\ attempt' = attempt
    <3>1. /\ pc = "failed" /\ tried = 1 .. attempt - 1 /\ attempt' = attempt
          /\ tried' = tried \cup {attempt}
      BY <1>8, Zenon DEF AttemptFailed, At, AttemptInv
    <3>2. attempt \in Nat \ {0}
      BY <1>0 DEF TypeOK
    <3>3. (1 .. attempt - 1) \cup {attempt} = 1 .. attempt
      BY <3>2
    <3>. QED  BY <3>1, <3>3, Zenon
  <2>2. TypeOK'
    BY <1>0, <1>8, <2>1, Zenon DEF TypeOK, AttemptFailed, Go, Return
  <2>3. CASE ctxDone \/ attempt = Attempts
    <3>1. pc' = "done" /\ verdict' = Temp /\ ctxDone' = ctxDone
      BY <1>8, <2>3, Zenon DEF AttemptFailed, Return
    <3>. QED  BY <1>0, <1>1, <2>1, <2>2, <2>3, <3>1, Zenon DEF AttemptInv, TempOnlyAfterAttempts, At
  <2>4. CASE ~(ctxDone \/ attempt = Attempts)
    <3>1. pc' = "wait" /\ attempt < Attempts
      BY <1>0, <1>8, <2>4 DEF AttemptFailed, Go, TypeOK
    <3>. QED  BY <1>0, <2>1, <2>2, <3>1, Zenon DEF AttemptInv, TempOnlyAfterAttempts, At
  <2>. QED  BY <2>3, <2>4, Zenon
<1>9. CASE WaitPolicyRetry
  <2>1. pc = "wait" /\ tried = 1 .. attempt /\ tried' = tried /\ attempt < Attempts
    BY <1>9, Zenon DEF WaitPolicyRetry, At, AttemptInv
  <2>2. CASE ctxDone /\ Return(Temp) /\ UNCHANGED attempt
    <3>1. TypeOK'
      BY <1>0, <1>9, <2>2, Zenon DEF TypeOK, WaitPolicyRetry, Return
    <3>2. ctxDone'
      BY <1>9, <2>2, Zenon DEF WaitPolicyRetry
    <3>. QED  BY <1>1, <2>2, <3>1, <3>2, Zenon DEF AttemptInv, TempOnlyAfterAttempts, Return, At
  <2>3. CASE Go("record") /\ attempt' = attempt + 1
    <3>1. TypeOK'
      BY <1>0, <1>9, <2>1, <2>3 DEF TypeOK, WaitPolicyRetry, Go
    <3>. QED  BY <1>0, <2>1, <2>3, <3>1 DEF AttemptInv, TempOnlyAfterAttempts, Go, At
  <2>. QED  BY <1>9, <2>2, <2>3, Zenon DEF WaitPolicyRetry
<1>10. CASE Expire \/ UNCHANGED vars
  <2>1. /\ UNCHANGED <<pc, attempt, tried, verdict, body, parser, whole>>
        /\ ctxDone' \in BOOLEAN /\ (ctxDone => ctxDone')
    BY <1>0, <1>10, Zenon DEF Expire, vars, TypeOK
  <2>2. TypeOK'
    BY <1>0, <2>1 DEF TypeOK
  <2>. QED  BY <1>0, <2>1, <2>2, ZenonT(60) DEF AttemptInv, TempOnlyAfterAttempts, At
<1>. QED
  BY <1>2, <1>3, <1>4, <1>5, <1>6, <1>7, <1>8, <1>9, <1>10, ZenonT(60) DEF Next, Lookup

(* The lookup stays within its attempts and max_age within its limit.      *)
THEOREM TypeCorrect == Spec => []TypeOK
<1>1. AttemptInv => TypeOK
  BY DEF AttemptInv
<1>. QED  BY <1>1, AttemptInvInit, AttemptInvStep, PTL DEF Spec

(* checkMtaSts reports a temporary failure only when nothing was left to   *)
(* be tried, for any number of attempts.                                   *)
THEOREM TempAlwaysAfterAttempts == Spec => []TempOnlyAfterAttempts
<1>1. AttemptInv => TempOnlyAfterAttempts
  BY DEF AttemptInv
<1>. QED  BY <1>1, AttemptInvInit, AttemptInvStep, PTL DEF Spec

---------------------------------------------------------------------------
(* The TXT record, by induction over its fields.                           *)

(* The loop over the fields, one turn at a time.                           *)
BeforeFields == [hasID |-> FALSE, bad |-> FALSE]
AfterField(f, s, i) ==
  IF s.bad THEN s
  ELSE IF f[i] = "" THEN [s EXCEPT !.bad = i # Len(f)]
  ELSE IF f[i] \in {"id", "bad id"}
       THEN IF s.hasID THEN s ELSE [hasID |-> f[i] = "id", bad |-> f[i] = "bad id"]
  ELSE [s EXCEPT !.bad = f[i] = "bad"]
LoopUpTo(f, n, l) ==
  l = [i \in 0 .. n |-> IF i = 0 THEN BeforeFields ELSE AfterField(f, l[i - 1], i)]

(* What the loop finds, without a loop: a field that no record may have,   *)
(* and the ids among the first fields.                                     *)
Spoils(f, m) ==
  \/ f[m] = "bad"
  \/ f[m] = "" /\ m # Len(f)
  \/ f[m] = "bad id" /\ \A k \in 1 .. m - 1 : f[k] # "id"
Found(f, i, s) ==
  /\ s \in [hasID : BOOLEAN, bad : BOOLEAN]
  /\ s.bad <=> \E m \in 1 .. i : Spoils(f, m)
  /\ ~s.bad => (s.hasID <=> \E k \in 1 .. i : f[k] = "id")

(* The order of the natural numbers as a relation, which the library knows *)
(* to be well-founded.                                                     *)
LEMMA LessRelation ==
  \E R : IsWellFoundedOn(R, Nat) /\ \A x, y \in Nat : <<y, x>> \in R <=> y < x
<1>1. IsWellFoundedOn(OpToRel(<, Nat), Nat)
  BY NatLessThanWellFounded, Zenon
<1>2. OpToRel(<, Nat) = {ss \in Nat \X Nat : ss[1] < ss[2]}
  BY Zenon DEF OpToRel
<1>3. IsWellFoundedOn({ss \in Nat \X Nat : ss[1] < ss[2]}, Nat)
  BY <1>1, <1>2, Zenon
<1>4. \A x, y \in Nat : <<y, x>> \in {ss \in Nat \X Nat : ss[1] < ss[2]} <=> y < x
  BY Zenon
<1>. QED  BY <1>3, <1>4, Zenon

(* Induction over the fields rests on it: a set of numbers has a least.    *)
LEMMA LeastNumber ==
  ASSUME NEW T \in SUBSET Nat, T # {}
  PROVE  \E x \in T : \A y \in T : x <= y
<1>1. PICK R : IsWellFoundedOn(R, Nat) /\ \A x, y \in Nat : <<y, x>> \in R <=> y < x
  BY LessRelation, ZenonT(60)
<1>2. PICK x \in T : \A y \in T : ~ (<<y, x>> \in R)
  BY <1>1, WFMin, Zenon
<1>3. ASSUME NEW y \in T PROVE x <= y
  <2>1. x \in Nat /\ y \in Nat
    OBVIOUS
  <2>2. ~ (<<y, x>> \in R)
    BY <1>2
  <2>3. <<y, x>> \in R <=> y < x
    BY <1>1, <2>1
  <2>. QED  BY <2>1, <2>2, <2>3
<1>. QED  BY <1>3, Zenon

LEMMA LoopGrows ==
  ASSUME NEW f, NEW n \in Nat, NEW l, LoopUpTo(f, n, l)
  PROVE  \E g : LoopUpTo(f, n + 1, g)
<1> DEFINE g == [i \in 0 .. n + 1 |-> IF i = n + 1 THEN AfterField(f, l[n], n + 1) ELSE l[i]]
<1>1. l = [i \in 0 .. n |-> IF i = 0 THEN BeforeFields ELSE AfterField(f, l[i - 1], i)]
  BY DEF LoopUpTo
<1>2. \A i \in 0 .. n : l[i] = IF i = 0 THEN BeforeFields ELSE AfterField(f, l[i - 1], i)
  BY <1>1, Zenon
<1>3. ASSUME NEW i \in 0 .. n + 1
      PROVE  g[i] = IF i = 0 THEN BeforeFields ELSE AfterField(f, g[i - 1], i)
  <2>1. CASE i = n + 1
    <3>1. g[i] = AfterField(f, l[n], n + 1) /\ g[i - 1] = l[n] /\ i # 0
      BY <2>1
    <3>. HIDE DEF g
    <3>. QED  BY <2>1, <3>1, Zenon
  <2>2. CASE i # n + 1
    <3>1. i \in 0 .. n /\ g[i] = l[i] /\ (i # 0 => g[i - 1] = l[i - 1])
      BY <2>2
    <3>. HIDE DEF g
    <3>. QED  BY <3>1, <1>2, Zenon
  <2>. QED  BY <2>1, <2>2, Zenon
<1>4. g = [i \in 0 .. n + 1 |-> g[i]]
  BY ZenonT(60)
<1>. HIDE DEF g
<1>5. g = [i \in 0 .. n + 1 |-> IF i = 0 THEN BeforeFields ELSE AfterField(f, g[i - 1], i)]
  BY <1>3, <1>4, Zenon
<1>. QED  BY <1>5, Zenon DEF LoopUpTo

LEMMA LoopExists ==
  ASSUME NEW f, NEW n \in Nat
  PROVE  \E l : LoopUpTo(f, n, l)
<1> DEFINE T == {m \in Nat : ~ \E l : LoopUpTo(f, m, l)}
<1>1. SUFFICES ASSUME T # {} PROVE FALSE
  OBVIOUS
<1>2. PICK x \in T : \A y \in T : x <= y
  BY <1>1, LeastNumber, Zenon
<1>3. x # 0
  <2>1. LoopUpTo(f, 0, [i \in 0 .. 0 |-> BeforeFields])
    BY DEF LoopUpTo
  <2>. QED  BY <1>2, <2>1
<1>4. x - 1 \in Nat /\ x - 1 \notin T /\ (x - 1) + 1 = x
  BY <1>2, <1>3
<1>5. PICK l : LoopUpTo(f, x - 1, l)
  BY <1>4, Zenon
<1>6. \E g : LoopUpTo(f, (x - 1) + 1, g)
  BY <1>4, <1>5, LoopGrows, Zenon
<1>. QED  BY <1>2, <1>4, <1>6

LEMMA FieldFound ==
  ASSUME NEW f \in Seq(Fields), NEW i \in 1 .. Len(f), NEW s, Found(f, i - 1, s)
  PROVE  Found(f, i, AfterField(f, s, i))
<1>1. /\ s \in [hasID : BOOLEAN, bad : BOOLEAN]
      /\ s.bad <=> \E m \in 1 .. i - 1 : Spoils(f, m)
      /\ ~s.bad => (s.hasID <=> \E k \in 1 .. i - 1 : f[k] = "id")
  BY Zenon DEF Found
<1>2. \A m : m \in 1 .. i <=> m \in 1 .. i - 1 \/ m = i
  OBVIOUS
<1> DEFINE t == AfterField(f, s, i)
<1>3. t \in [hasID : BOOLEAN, bad : BOOLEAN]
  BY <1>1 DEF AfterField
<1>4. t.bad <=> s.bad \/ Spoils(f, i)
  BY <1>1 DEF AfterField, Spoils
<1>5. ~t.bad => (t.hasID <=> s.hasID \/ f[i] = "id")
  BY <1>1 DEF AfterField
<1>. HIDE DEF t
<1>6. t.bad <=> \E m \in 1 .. i : Spoils(f, m)
  BY <1>1, <1>2, <1>4, Zenon
<1>7. ~t.bad => (t.hasID <=> \E k \in 1 .. i : f[k] = "id")
  BY <1>1, <1>2, <1>4, <1>5, Zenon
<1>8. Found(f, i, t)
  BY <1>3, <1>6, <1>7, Zenon DEF Found
<1>. QED  BY <1>8, Zenon DEF t

LEMMA LoopFinds ==
  ASSUME NEW f \in Seq(Fields), NEW l, LoopUpTo(f, Len(f), l)
  PROVE  Found(f, Len(f), l[Len(f)])
<1> DEFINE T == {m \in Nat : m <= Len(f) /\ ~Found(f, m, l[m])}
<1>0. Len(f) \in Nat
  OBVIOUS
<1>1. SUFFICES ASSUME T # {} PROVE FALSE
  BY <1>0
<1>2. PICK x \in T : \A y \in T : x <= y
  BY <1>1, LeastNumber, Zenon
<1>3. l = [i \in 0 .. Len(f) |-> IF i = 0 THEN BeforeFields ELSE AfterField(f, l[i - 1], i)]
  BY Zenon DEF LoopUpTo
<1>4. \A i \in 0 .. Len(f) : l[i] = IF i = 0 THEN BeforeFields ELSE AfterField(f, l[i - 1], i)
  BY <1>3, Zenon
<1>5. x # 0
  <2>1. l[0] = BeforeFields
    BY <1>0, <1>4
  <2>2. Found(f, 0, BeforeFields)
    BY DEF Found, BeforeFields
  <2>. QED  BY <1>2, <2>1, <2>2
<1>6. x - 1 \in Nat /\ x - 1 \notin T /\ x \in 1 .. Len(f) /\ x - 1 <= Len(f)
  BY <1>0, <1>2, <1>5
<1>7. Found(f, x - 1, l[x - 1])
  BY <1>6, Zenon
<1>8. l[x] = AfterField(f, l[x - 1], x)
  BY <1>4, <1>5, <1>6
<1>. QED  BY <1>2, <1>6, <1>7, <1>8, FieldFound, Zenon

(* The loop as the module has it, a function chosen for its equation.      *)
LEMMA RecordIsLoop ==
  ASSUME NEW r, NEW l, LoopUpTo(r.fields, Len(r.fields), l)
  PROVE  \E k : /\ LoopUpTo(r.fields, Len(r.fields), k)
                /\ IsValidMtaStsTXTRecord(r) <=> k[Len(r.fields)].hasID /\ ~k[Len(r.fields)].bad
BY Zenon DEF LoopUpTo, IsValidMtaStsTXTRecord, BeforeFields, AfterField

WellFormedRecord(f) ==
  \E k \in DOMAIN f :
    /\ f[k] = "id"
    /\ \A m \in DOMAIN f :
         /\ f[m] # "bad" /\ (f[m] = "" => m = Len(f))
         /\ f[m] = "bad id" => m > k

LEMMA ValidIsWellFormed ==
  ASSUME NEW r, r.fields \in Seq(Fields)
  PROVE  IsValidMtaStsTXTRecord(r) <=> WellFormedRecord(r.fields)
<1> DEFINE f == r.fields
           n == Len(f)
<1>1. f \in Seq(Fields) /\ n \in Nat /\ DOMAIN f = 1 .. n
  OBVIOUS
<1>2. \E l : LoopUpTo(f, n, l)
  BY <1>1, LoopExists, Zenon
<1>3. PICK k : /\ LoopUpTo(f, n, k)
               /\ IsValidMtaStsTXTRecord(r) <=> k[n].hasID /\ ~k[n].bad
  BY <1>2, RecordIsLoop, ZenonT(60)
<1>4. Found(f, n, k[n])
  BY <1>1, <1>3, LoopFinds
<1>. HIDE DEF n
<1>5. IsValidMtaStsTXTRecord(r) <=>
        (\E i \in 1 .. n : f[i] = "id") /\ ~ \E m \in 1 .. n : Spoils(f, m)
  BY <1>3, <1>4, Zenon DEF Found
<1>6. ASSUME WellFormedRecord(f) PROVE IsValidMtaStsTXTRecord(r)
  <2>1. PICK i \in 1 .. n :
          /\ f[i] = "id"
          /\ \A m \in 1 .. n :
               /\ f[m] # "bad" /\ (f[m] = "" => m = Len(f))
               /\ f[m] = "bad id" => m > i
    BY <1>1, <1>6 DEF WellFormedRecord
  <2>2. ASSUME NEW m \in 1 .. n, Spoils(f, m) PROVE FALSE
    <3>1. f[m] = "bad id" /\ \A j \in 1 .. m - 1 : f[j] # "id"
      BY <2>1, <2>2 DEF Spoils
    <3>2. m > i
      BY <2>1, <3>1
    <3>3. i \in 1 .. m - 1
      BY <1>1, <3>2
    <3>. QED  BY <2>1, <3>1, <3>3, ZenonT(60)
  <2>. QED  BY <1>5, <2>1, <2>2, ZenonT(60)
<1>7. ASSUME IsValidMtaStsTXTRecord(r) PROVE WellFormedRecord(f)
  <2> DEFINE T == {i \in 1 .. n : f[i] = "id"}
  <2>1. T # {} /\ T \in SUBSET Nat
    BY <1>1, <1>5, <1>7
  <2>2. PICK i \in T : \A j \in T : i <= j
    BY <2>1, LeastNumber, ZenonT(60)
  <2>3. ASSUME NEW m \in 1 .. n, f[m] = "bad id" PROVE m > i
    <3>1. ~Spoils(f, m)
      BY <1>5, <1>7
    <3>2. PICK j \in 1 .. m - 1 : f[j] = "id"
      BY <2>3, <3>1 DEF Spoils
    <3>3. j \in T
      BY <1>1, <3>2
    <3>. QED  BY <1>1, <2>2, <3>3
  <2>4. ASSUME NEW m \in 1 .. n PROVE f[m] # "bad" /\ (f[m] = "" => m = Len(f))
    BY <1>5, <1>7, ZenonT(60) DEF Spoils
  <2>. QED  BY <1>1, <2>2, <2>3, <2>4 DEF WellFormedRecord
<1>. QED  BY <1>6, <1>7, Zenon

(* So checkMtaStsRecord asks for the policy exactly when the records       *)
(* announce one.                                                           *)
LEMMA AvailableIsAnnounced ==
  ASSUME NEW rs, \A i \in DOMAIN rs : rs[i].candidate \in BOOLEAN /\ rs[i].fields \in Seq(Fields)
  PROVE  MtaStsRecordAvailable(rs) <=> Announced(rs)
<1>1. \A i \in DOMAIN rs : IsValidMtaStsTXTRecord(rs[i]) <=> WellFormedRecord(rs[i].fields)
  BY ValidIsWellFormed, Zenon
<1>2. MtaStsRecordAvailable(rs) <=>
        \E i \in DOMAIN rs : /\ \A j \in DOMAIN rs : rs[j].candidate <=> j = i
                             /\ IsValidMtaStsTXTRecord(rs[i])
  <2>1. \A i \in DOMAIN rs :
          (\A j \in DOMAIN rs : rs[j].candidate <=> j = i)
            <=> {j \in DOMAIN rs : rs[j].candidate} = {i}
    BY Zenon
  <2>. QED  BY <2>1, Zenon DEF MtaStsRecordAvailable
<1>3. Announced(rs) <=>
        \E i \in DOMAIN rs : /\ \A j \in DOMAIN rs : rs[j].candidate <=> j = i
                             /\ WellFormedRecord(rs[i].fields)
  BY Zenon DEF Announced, WellFormedRecord
<1>. QED  BY <1>1, <1>2, <1>3, Zenon

RecordAnswers ==
  {<<>>, <<Other>>} \cup {<<r>> : r \in Candidates}
    \cup {<<r, q>> : r \in Candidates, q \in {Other, [candidate |-> TRUE, fields |-> <<"id">>]}}

LEMMA AnswersAreRecords ==
  ASSUME NEW rs \in RecordAnswers
  PROVE  \A i \in DOMAIN rs : rs[i].candidate \in BOOLEAN /\ rs[i].fields \in Seq(Fields)
<1> DEFINE IsRecord(r) == r.candidate \in BOOLEAN /\ r.fields \in Seq(Fields)
<1>0. \A n \in 1 .. MaxFields : n \in Nat
  <2>1. MaxFields \in Nat
    BY MtaStsAssumption
  <2>. QED  BY <2>1
<1>1. \A r \in Candidates : IsRecord(r)
  <2>1. SUFFICES ASSUME NEW r \in Candidates PROVE IsRecord(r)
    OBVIOUS
  <2>2. r.candidate = TRUE /\ r.fields \in FieldLists
    BY Zenon DEF Candidates
  <2>3. PICK n \in 1 .. MaxFields : r.fields \in [1 .. n -> Fields]
    BY <2>2 DEF FieldLists
  <2>4. n \in Nat
    BY <1>0, Zenon
  <2>5. r.fields \in Seq(Fields)
    BY <2>3, <2>4
  <2>. QED  BY <2>2, <2>5, Zenon
<1>2. IsRecord(Other) /\ IsRecord([candidate |-> TRUE, fields |-> <<"id">>])
  BY DEF Other, Fields
<1>3. CASE rs = <<>>
  BY <1>3
<1>4. CASE rs = <<Other>>
  BY <1>2, <1>4
<1>5. CASE \E r \in Candidates : rs = <<r>>
  BY <1>1, <1>5
<1>6. CASE \E r \in Candidates : \E q \in {Other, [candidate |-> TRUE, fields |-> <<"id">>]} :
             rs = <<r, q>>
  <2>1. PICK r \in Candidates, q \in {Other, [candidate |-> TRUE, fields |-> <<"id">>]} :
          rs = <<r, q>>
    BY <1>6, ZenonT(60)
  <2>2. IsRecord(r) /\ IsRecord(q)
    BY <1>1, <1>2, Zenon
  <2>3. DOMAIN rs = {1, 2} /\ rs[1] = r /\ rs[2] = q
    BY <2>1
  <2>. QED  BY <2>2, <2>3, Zenon
<1>. QED  BY <1>3, <1>4, <1>5, <1>6 DEF RecordAnswers

(* Records are there only between the answer and the request, or when they *)
(* have ended the lookup.                                                  *)
AnnounceInv == FetchedIfAnnounced /\ (pc \notin {"fetch", "done"} => txt = <<>>)

LEMMA AnnounceInvStep ==
  ASSUME AnnounceInv, [Next]_vars
  PROVE  AnnounceInv'
<1>1. CASE CheckMtaStsRecord
  <2>1. CASE /\ txt' \in RecordAnswers
             /\ IF MtaStsRecordAvailable(txt') THEN Go("fetch") ELSE Return(Absent)
    <3>1. MtaStsRecordAvailable(txt') <=> Announced(txt')
      BY <2>1, AnswersAreRecords, AvailableIsAnnounced, Zenon
    <3>2. pc' = IF Announced(txt') THEN "fetch" ELSE "done"
      BY <2>1, <3>1, Zenon DEF Go, Return
    <3>3. Announced(txt)' <=> Announced(txt')
      BY Zenon DEF Announced
    <3>. QED  BY <3>2, <3>3, Zenon DEF AnnounceInv, FetchedIfAnnounced, At
  <2>2. CASE Go("failed") /\ UNCHANGED txt
    BY <1>1, <2>2, ZenonT(60) DEF AnnounceInv, FetchedIfAnnounced, CheckMtaStsRecord, At, Go
  <2>. QED  BY <1>1, <2>1, <2>2 DEF CheckMtaStsRecord, RecordAnswers
<1>2. CASE Fetch
  BY <1>2, Zenon DEF AnnounceInv, FetchedIfAnnounced, Fetch, At, Go, Return
<1>3. CASE \/ GetResolverAddress \/ ReadAll \/ Scan \/ ScanEnd \/ AttemptFailed \/ WaitPolicyRetry
  <2>1. txt = <<>> /\ txt' = txt /\ pc' # "fetch"
    BY <1>3, Zenon DEF AnnounceInv, GetResolverAddress, ReadAll, Scan, ScanEnd, AttemptFailed,
                WaitPolicyRetry, At, Go, Return
  <2>. QED  BY <2>1, Zenon DEF AnnounceInv, FetchedIfAnnounced, At
<1>4. CASE Expire \/ UNCHANGED vars
  <2>1. UNCHANGED <<pc, txt>>
    BY <1>4, Zenon DEF Expire, vars
  <2>2. Announced(txt)' <=> Announced(txt)
    BY <2>1 DEF Announced
  <2>. QED  BY <2>1, <2>2, Zenon DEF AnnounceInv, FetchedIfAnnounced, At
<1>. QED  BY <1>1, <1>2, <1>3, <1>4 DEF Next, Lookup

(* A policy is asked for exactly when the TXT records announce one, for    *)
(* records of any number of fields: isValidMtaStsTXTRecord's loop, with    *)
(* its early returns, accepts the records RFC 8461 does.                   *)
THEOREM FetchedExactlyIfAnnounced == Spec => []FetchedIfAnnounced
<1>1. Init => AnnounceInv
  BY DEF Init, AnnounceInv, FetchedIfAnnounced, At
<1>2. AnnounceInv => FetchedIfAnnounced
  BY DEF AnnounceInv
<1>. QED  BY <1>1, <1>2, AnnounceInvStep, PTL DEF Spec
===============================================================================
