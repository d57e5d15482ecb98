-------------------------------- MODULE MtaSts --------------------------------
(***************************************************************************)
(* The MTA-STS lookup of a domain (mta-sts.go): the TXT record, the fetch  *)
(* of the policy, the parser that goes through its lines, and the attempts *)
(* around them.  The answers of the DNS and of the web server are chosen   *)
(* when they come in, and the lines of the policy when they are scanned.   *)
(*                                                                         *)
(* Texts are abstract: what ParseUint makes of a max_age, and the name     *)
(* that is left of an mx pattern (lower case, the star cut off), are       *)
(* functions on the texts that are well-formed.                            *)
(***************************************************************************)
EXTENDS Integers, Sequences

CONSTANTS
  POLICY_ATTEMPTS, MTASTS_MAX_AGE,
  UINT32,                       \* 2^32
  Number,                       \* isMtaStsDigits and ParseUint: text -> number
  Server,                       \* IsDNSName and ToLower: text -> name
  Extensions,                   \* other keys, by isMtaStsExtensionName
  ExtensionValues, Braces,      \* isMtaStsExtensionValue; those with "{" or "}"
  Texts,                        \* the values there are
  Lines,                        \* the lines a policy may have
  MaxFields, MaxLines           \* bounds on the TXT record and on the policy

Keys == {"version", "mode", "mx", "max_age"} \cup Extensions

(* A line without a key is empty, has no colon, has a key that is no name, *)
(* or is too long for the scanner.                                         *)
Malformed == [key |-> "", val |-> ""]

ASSUME MtaStsAssumption ==
  /\ POLICY_ATTEMPTS \in Nat \ {0} /\ MaxFields \in Nat
  /\ MTASTS_MAX_AGE \in Nat /\ UINT32 \in Nat /\ MTASTS_MAX_AGE < UINT32
  /\ DOMAIN Number \subseteq Texts /\ \A v \in DOMAIN Number : Number[v] \in Nat
  /\ DOMAIN Server \subseteq Texts
  /\ Extensions \cap {"", "version", "mode", "mx", "max_age"} = {}
  /\ Braces \subseteq ExtensionValues /\ ExtensionValues \subseteq Texts
  /\ Lines \subseteq [key : Keys, val : Texts] \cup {Malformed}

VARIABLES
  pc,                           \* where checkMtaSts and checkMtaStsOnce are
  mayRetry,                     \* its parameter
  attempt,
  ctxDone,                      \* the context has been cancelled or its deadline is over
  txt,                          \* the TXT records that were just judged
  body,                         \* the lines scanned so far
  parser,                       \* mtaStsPolicyParser
  verdict,                      \* what checkMtaSts returns
  tried,                        \* ghost: the attempts that ended with an error
  whole                         \* ghost: the policy has been read to its end

vars == <<pc, mayRetry, attempt, ctxDone, txt, body, parser, verdict, tried, whole>>

---------------------------------------------------------------------------
(* The TXT record: a version, which makes it a candidate, and fields.      *)

Fields == {"id", "bad id", "extension", "bad", ""}
FieldLists == UNION {[1 .. n -> Fields] : n \in 1 .. MaxFields}
Candidates == [candidate : {TRUE}, fields : FieldLists]
Other == [candidate |-> FALSE, fields |-> <<>>]

(* The loop over the fields: whether there was an id, and whether the      *)
(* record has been given up.                                               *)
IsValidMtaStsTXTRecord(r) ==
  LET n == Len(r.fields)
      loop[i \in 0 .. n] ==
        IF i = 0 THEN [hasID |-> FALSE, bad |-> FALSE]
        ELSE LET s == loop[i - 1]
                 f == r.fields[i]
             IN  IF s.bad THEN s
                 ELSE IF f = "" THEN [s EXCEPT !.bad = i # n]
                 ELSE IF f \in {"id", "bad id"}
                      THEN IF s.hasID THEN s ELSE [hasID |-> f = "id", bad |-> f = "bad id"]
                 ELSE [s EXCEPT !.bad = f = "bad"]
  IN  loop[n].hasID /\ ~loop[n].bad

MtaStsRecordAvailableAny(rs) ==               \* mutant: one good record is enough
  \E i \in DOMAIN rs : rs[i].candidate /\ IsValidMtaStsTXTRecord(rs[i])

MtaStsRecordAvailable(rs) ==
  LET candidates == {i \in DOMAIN rs : rs[i].candidate}
  IN  \E i \in candidates : candidates = {i} /\ IsValidMtaStsTXTRecord(rs[i])

---------------------------------------------------------------------------
(* The parser.                                                             *)

NewMtaStsPolicyParser ==
  [existingKeys |-> {}, mode |-> "", maxAge |-> 0, mxServers |-> <<>>, report |-> <<>>,
   hasVersion |-> FALSE, hasMode |-> FALSE, hasMaxAge |-> FALSE]

MaxAge(age) == (IF age > MTASTS_MAX_AGE THEN MTASTS_MAX_AGE ELSE age) % UINT32

(* A value that has to do for its key.                                     *)
Accepts(line) ==
  /\ line.key = "version" => line.val = "STSv1"
  /\ line.key = "mode" => line.val \in {"enforce", "testing", "none"}
  /\ line.key = "mx" => line.val \in DOMAIN Server
  /\ line.key = "max_age" => line.val \in DOMAIN Number
  /\ line.key \in Extensions => line.val \in ExtensionValues

Ignored(p, line) == line.key # "mx" /\ line.key \in p.existingKeys

(* parseLine: FALSE, or what becomes of the parser.                        *)
Parses(p, line) == line.key # "" /\ (Ignored(p, line) \/ Accepts(line))

ParseLineLast(p, line) ==                     \* mutant: the last of repeated keys counts
  [existingKeys |-> p.existingKeys \cup {line.key},
   mode       |-> IF line.key = "mode" THEN line.val ELSE p.mode,
   maxAge     |-> IF line.key = "max_age" /\ line.val \in DOMAIN Number
                  THEN MaxAge(Number[line.val]) ELSE p.maxAge,
   mxServers  |-> IF line.key = "mx" THEN Append(p.mxServers, Server[line.val]) ELSE p.mxServers,
   report     |-> IF line.key \notin Extensions \/ line.val \notin Braces
                  THEN Append(p.report, line) ELSE p.report,
   hasVersion |-> p.hasVersion \/ line.key = "version",
   hasMode    |-> p.hasMode \/ line.key = "mode",
   hasMaxAge  |-> p.hasMaxAge \/ line.key = "max_age"]

ParseLine(p, line) ==
  IF Ignored(p, line) THEN p
  ELSE [existingKeys |-> p.existingKeys \cup {line.key},
        mode       |-> IF line.key = "mode" THEN line.val ELSE p.mode,
        maxAge     |-> IF line.key = "max_age" THEN MaxAge(Number[line.val]) ELSE p.maxAge,
        mxServers  |-> IF line.key = "mx" THEN Append(p.mxServers, Server[line.val]) ELSE p.mxServers,
        report     |-> IF line.key \notin Extensions \/ line.val \notin Braces
                       THEN Append(p.report, line) ELSE p.report,
        hasVersion |-> p.hasVersion \/ line.key = "version",
        hasMode    |-> p.hasMode \/ line.key = "mode",
        hasMaxAge  |-> p.hasMaxAge \/ line.key = "max_age"]

Verdict(policy, servers, report, ttl) ==
  [policy |-> policy, servers |-> servers, report |-> report, ttl |-> ttl]
Temp == Verdict("TEMP", <<>>, <<>>, 0)
Absent == Verdict("", <<>>, <<>>, 0)

(* What parseMtaStsPolicy makes of the parser after the last line.         *)
ParseMtaStsPolicy(p) ==
  IF ~p.hasVersion \/ ~p.hasMode \/ ~p.hasMaxAge \/ (p.mode # "none" /\ p.mxServers = <<>>)
  THEN Absent
  ELSE IF p.mode = "enforce" /\ p.mxServers # <<>>
  THEN Verdict("secure", p.mxServers, p.report, p.maxAge)
  ELSE Verdict("", <<>>, <<>>, p.maxAge)

---------------------------------------------------------------------------
(* checkMtaSts and checkMtaStsOnce.                                        *)

Attempts == IF mayRetry THEN POLICY_ATTEMPTS ELSE 1

At(where) == pc = where
Go(where) == pc' = where /\ UNCHANGED verdict
Return(v) == pc' = "done" /\ verdict' = v

Init ==
  /\ pc = "resolver" /\ mayRetry \in BOOLEAN /\ attempt = 1 /\ ctxDone = FALSE
  /\ txt = <<>> /\ body = <<>> /\ parser = NewMtaStsPolicyParser
  /\ verdict = Absent /\ tried = {} /\ whole = FALSE

GetResolverAddress ==
  /\ At("resolver")
  /\ Return(Temp) \/ Go("record")
  /\ UNCHANGED <<mayRetry, attempt, ctxDone, txt, body, parser, tried, whole>>

CheckMtaStsRecord ==
  /\ At("record")
  /\ \/ /\ txt' \in {<<>>, <<Other>>} \cup {<<r>> : r \in Candidates}
                    \cup {<<r, q>> : r \in Candidates, q \in {Other, [candidate |-> TRUE, fields |-> <<"id">>]}}
        /\ IF MtaStsRecordAvailable(txt') THEN Go("fetch") ELSE Return(Absent)
     \/ Go("failed") /\ UNCHANGED txt         \* no answer, or neither success nor NXDOMAIN
  /\ UNCHANGED <<mayRetry, attempt, ctxDone, body, parser, tried, whole>>

(* The request for mta-sts.txt up to the status and the header.            *)
Fetch ==
  /\ At("fetch") /\ txt' = <<>>
  /\ \/ Go("read")
     \/ Return(Absent)                        \* not StatusOK, or not text/plain
     \/ Go("failed")
  /\ UNCHANGED <<mayRetry, attempt, ctxDone, body, parser, tried, whole>>

(* io.ReadAll before the first line is parsed.  A body that breaks off, or *)
(* is longer than MTASTS_MAX_POLICY_SIZE, is no error of the attempt.      *)
ReadAll ==
  /\ At("read")
  /\ \/ Go("parse") /\ whole' = TRUE
     \/ Return(Absent) /\ UNCHANGED whole
  /\ parser' = NewMtaStsPolicyParser
  /\ UNCHANGED <<mayRetry, attempt, ctxDone, txt, body, tried>>

Scan ==
  /\ At("parse") /\ Len(body) < MaxLines
  /\ \E line \in Lines :
       /\ body' = Append(body, line)
       /\ \/ /\ Parses(parser, line)
             /\ parser' = ParseLine(parser, line) /\ Go("parse")
          \/ /\ ~Parses(parser, line)
             /\ Return(Absent) /\ UNCHANGED parser
  /\ UNCHANGED <<mayRetry, attempt, ctxDone, txt, tried, whole>>

ScanEnd ==
  /\ At("parse")
  /\ Return(ParseMtaStsPolicy(parser))
  /\ UNCHANGED <<mayRetry, attempt, ctxDone, txt, body, parser, tried, whole>>

(* The attempt has ended with an error.                                    *)
AttemptFailedEarly ==                         \* mutant: gives up one attempt too soon
  /\ At("failed")
  /\ tried' = tried \cup {attempt}
  /\ IF ctxDone \/ attempt + 1 >= Attempts THEN Return(Temp) ELSE Go("wait")
  /\ UNCHANGED <<mayRetry, attempt, ctxDone, txt, body, parser, whole>>

AttemptFailed ==
  /\ At("failed")
  /\ tried' = tried \cup {attempt}
  /\ IF ctxDone \/ attempt = Attempts THEN Return(Temp) ELSE Go("wait")
  /\ UNCHANGED <<mayRetry, attempt, ctxDone, txt, body, parser, whole>>

WaitPolicyRetryUncounted ==                   \* mutant: attempts are not counted
  /\ At("wait")
  /\ \/ ctxDone /\ Return(Temp)
     \/ Go("record")
  /\ UNCHANGED <<mayRetry, attempt, ctxDone, txt, body, parser, tried, whole>>

WaitPolicyRetry ==
  /\ At("wait")
  /\ \/ ctxDone /\ Return(Temp) /\ UNCHANGED attempt
     \/ Go("record") /\ attempt' = attempt + 1
  /\ UNCHANGED <<mayRetry, ctxDone, txt, body, parser, tried, whole>>

(* The deadline of the query is over, or the daemon shuts down; once the   *)
(* policy has been read nothing looks at the context any more.             *)
Expire ==
  /\ pc \notin {"parse", "done"} /\ ~ctxDone /\ ctxDone' = TRUE
  /\ UNCHANGED <<pc, mayRetry, attempt, txt, body, parser, verdict, tried, whole>>

Lookup ==
  \/ GetResolverAddress \/ CheckMtaStsRecord \/ Fetch \/ ReadAll \/ Scan \/ ScanEnd
  \/ AttemptFailed \/ WaitPolicyRetry

Next == Lookup \/ Expire

Spec == Init /\ [][Next]_vars

(* Every wait has its timeout: those of the DNS client and of httpClient,  *)
(* and the timer of waitPolicyRetry.                                       *)
FairSpec == Spec /\ WF_vars(Lookup)

---------------------------------------------------------------------------
(* checkMtaSts makes no more attempts than it may, and max_age fits the    *)
(* width of the field it is kept in.                                       *)
TypeOK ==
  /\ pc \in {"resolver", "record", "fetch", "read", "parse", "failed", "wait", "done"}
  /\ mayRetry \in BOOLEAN /\ ctxDone \in BOOLEAN /\ whole \in BOOLEAN
  /\ attempt \in 1 .. Attempts /\ tried \subseteq 1 .. attempt
  /\ body \in Seq(Lines) /\ parser.maxAge \in 0 .. MTASTS_MAX_AGE
  /\ parser.existingKeys \subseteq Keys

(* The record as RFC 8461 has it: one record with the version, and in it   *)
(* an id that is well-formed, nothing that is not, and an empty field only *)
(* at the end; of several ids the first counts.                            *)
Announced(rs) ==
  \E i \in DOMAIN rs :
    /\ \A j \in DOMAIN rs : rs[j].candidate <=> j = i
    /\ LET f == rs[i].fields
       IN  \E k \in DOMAIN f :
             /\ f[k] = "id"
             /\ \A m \in DOMAIN f :
                  /\ f[m] # "bad" /\ (f[m] = "" => m = Len(f))
                  /\ f[m] = "bad id" => m > k

(* The policy is asked for exactly when the TXT records that have come in  *)
(* announce one.                                                           *)
FetchedIfAnnounced ==
  /\ At("fetch") => Announced(txt)
  /\ At("done") /\ txt # <<>> => ~Announced(txt)

(* The policy as RFC 8461 has it, of the lines and without a parser: of a  *)
(* repeated key only mx counts more than once, and for the others the      *)
(* first line.                                                             *)
Counted ==
  {i \in DOMAIN body :
     body[i].key = "mx" \/ \A j \in DOMAIN body : body[j].key = body[i].key => i <= j}
CountedLines == {body[i] : i \in Counted}
WellFormed ==
  /\ \A i \in DOMAIN body : body[i] # Malformed
  /\ \A line \in CountedLines : Accepts(line)
Said(key) == {line.val : line \in {l \in CountedLines : l.key = key}}
Published ==
  /\ WellFormed
  /\ \A key \in {"version", "mode", "max_age"} : Said(key) # {}
  /\ Said("mode") = {"none"} \/ Said("mx") # {}

ElementsOf(s) == {s[i] : i \in DOMAIN s}

(* The policy returned is the one published, whatever the order of its     *)
(* lines and the repetitions among them: it is enforced if and only if     *)
(* that says so, for the servers it names and no others and for the time   *)
(* it gives, up to the limit; the report has the lines that count, except  *)
(* extensions with braces; and of a policy that is not valid, or was not   *)
(* read to its end, nothing is returned.                                   *)
PolicyAsPublished ==
  At("done") =>
    IF whole /\ Published
    THEN /\ verdict.policy = IF Said("mode") = {"enforce"} THEN "secure" ELSE ""
         /\ \A v \in Said("max_age") :
              verdict.ttl = IF Number[v] < MTASTS_MAX_AGE THEN Number[v] ELSE MTASTS_MAX_AGE
         /\ verdict.policy = "secure" =>
              /\ ElementsOf(verdict.servers) = {Server[v] : v \in Said("mx")}
              /\ ElementsOf(verdict.report) =
                   {line \in CountedLines : line.key \notin Extensions \/ line.val \notin Braces}
    ELSE verdict \in {Temp, Absent}

(* A failure is temporary only if there was no resolver to ask, the        *)
(* context was over, or every attempt there may be has failed; and as long *)
(* as an attempt may still succeed no answer is given.                     *)
TempOnlyAfterAttempts ==
  At("done") =>
    IF verdict.policy = "TEMP"
    THEN ctxDone \/ tried = 1 .. Attempts \/ tried = {}
    ELSE tried = 1 .. attempt - 1

(* checkMtaSts returns.                                                    *)
LookupReturns == <>At("done")

=============================================================================
