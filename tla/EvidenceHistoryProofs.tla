------------------------ MODULE EvidenceHistoryProofs ------------------------
(***************************************************************************)
(* Theorems about EvidenceHistory, for every set of responses and scenes,  *)
(* every limit and every timeout: rechecks are bounded, what they conclude *)
(* is true, the comparison accepts it, and "resolved" means resolved.      *)
(***************************************************************************)
EXTENDS EvidenceHistory, SequenceTheorems, FiniteSetTheorems, WellFoundedInduction, TLAPS

-----------------------------------------------------------------------------
(* The parser.                                                             *)

\* The parser knows three verdicts.
LEMMA ParseVerdicts ==
  ASSUME NEW wire \in Responses, NEW got \in Nat, NEW eof \in BOOLEAN
  PROVE  Parse(wire, got, eof) \in {"incomplete", "malformed", "complete"}
  <1>1. wire.head \in Nat /\ HeaderLimit \in Nat /\ wire.promised \in Nat
        /\ wire.framing \in {"length", "chunked", "none", "refused"}
        /\ wire.parts \in Seq(SUBSET Marks)
    BY ResponseLimitAssumption DEF Responses
  <1>2. HeaderState(wire, got) \in {"incomplete", "malformed", "parsed"}
    BY <1>1 DEF HeaderState
  <1> DEFINE body == BodyOf(wire, got)
  <1>3. CASE HeaderState(wire, got) # "parsed"
    BY <1>2, <1>3 DEF Parse
  <1>4. CASE HeaderState(wire, got) = "parsed"
    <2>1. got >= wire.head
      BY <1>1, <1>4 DEF HeaderState
    <2>2. ChunkedState(body) \in {"incomplete", "malformed", "complete"}
      BY DEF ChunkedState
    <2>3. UndeclaredState(wire, body, eof) \in {"incomplete", "malformed", "complete"}
      BY DEF UndeclaredState
    <2>4. Len(body) \in Nat
      BY <1>1, <2>1 DEF BodyOf
    <2>5. LengthState(wire, body) \in {"incomplete", "malformed", "complete"}
      <3> HIDE DEF body
      <3> QED BY <1>1, <2>4 DEF LengthState
    <2> HIDE DEF body
    <2>6. Parse(wire, got, eof) =
            CASE wire.framing = "refused" -> "malformed"
              [] wire.framing = "chunked" -> ChunkedState(body)
              [] wire.framing = "length" -> LengthState(wire, body)
              [] wire.framing = "none" -> UndeclaredState(wire, body, eof)
      BY <1>4 DEF Parse, body
    <2> QED BY <1>1, <2>2, <2>3, <2>5, <2>6
  <1> QED BY <1>3, <1>4

\* The body of a parsed response is the beginning of what was sent.
LEMMA BodyIsPrefix ==
  ASSUME NEW wire \in Responses, NEW got \in Nat,
         wire.head <= got, got <= wire.head + Len(wire.parts)
  PROVE  /\ BodyOf(wire, got) \in Seq(SUBSET Marks)
         /\ Len(BodyOf(wire, got)) = got - wire.head /\ got - wire.head \in 0..Len(wire.parts)
         /\ \A i \in 1..(got - wire.head) : BodyOf(wire, got)[i] = wire.parts[i]
  <1>1. wire.parts \in Seq(SUBSET Marks) /\ wire.head \in Nat /\ Len(wire.parts) \in Nat
    BY DEF Responses
  <1>2. got - wire.head \in 0..Len(wire.parts)
    BY <1>1
  <1> QED BY <1>1, <1>2, SubSeqProperties DEF BodyOf

\* A complete body is the one the server announced, unless its status has none.
LEMMA WholeBody ==
  ASSUME NEW wire \in Responses, NEW got \in Nat, NEW eof \in BOOLEAN,
         got <= wire.head + Len(wire.parts), Parse(wire, got, eof) = "complete"
  PROVE  /\ wire.head <= got
         /\ \/ MarksOf(BodyOf(wire, got)) = Announced(wire)
            \/ wire.status \in {204, 304} \cup 100..199
  <1>1. /\ wire.parts \in Seq(SUBSET Marks) /\ {wire.head, wire.promised, HeaderLimit} \subseteq Nat
        /\ wire.framing \in {"length", "chunked", "none", "refused"} /\ Len(wire.parts) \in Nat
    BY ResponseLimitAssumption DEF Responses
  <1>2. HeaderState(wire, got) = "parsed" /\ wire.head <= got
    <2>1. HeaderState(wire, got) = "parsed"
      BY <1>1 DEF Parse, HeaderState
    <2> QED BY <1>1, <2>1 DEF HeaderState
  <1> DEFINE body == BodyOf(wire, got)
             size == got - wire.head
  <1>3. /\ body \in Seq(SUBSET Marks) /\ Len(body) = size /\ size \in 0..Len(wire.parts)
        /\ \A i \in 1..size : body[i] = wire.parts[i]
    BY <1>2, BodyIsPrefix
  <1>4. body = SubSeq(wire.parts, 1, size)
    BY DEF BodyOf
  <1>5. CASE wire.framing = "length"
    <2>1. LengthState(wire, body) = "complete"
      BY <1>2, <1>5 DEF Parse
    <2>2. size = wire.promised
      <3> HIDE DEF body
      <3> QED BY <1>1, <1>3, <2>1 DEF LengthState
    <2>3. Min2(wire.promised, Len(wire.parts)) = size
      BY <1>1, <1>3, <2>2 DEF Min2
    <2>4. Announced(wire) = MarksOf(SubSeq(wire.parts, 1, size))
      BY <1>5, <2>3 DEF Announced
    <2> QED BY <1>2, <1>4, <2>4
  <1>6. CASE wire.framing = "chunked"
    <2>1. ChunkedState(body) = "complete"
      BY <1>2, <1>6 DEF Parse
    <2>2. "end" \in MarksOf(body) /\ \A i \in 1..Len(body) - 1 : "end" \notin body[i]
      <3> HIDE DEF body
      <3> QED BY <2>1 DEF ChunkedState
    <2>3. PICK j \in DOMAIN body : "end" \in body[j]
      BY <2>2 DEF MarksOf
    <2>4. j \in 1..size /\ j = size
      <3>1. DOMAIN body = 1..size
        BY <1>3
      <3> QED BY <1>1, <1>3, <2>2, <2>3, <3>1
    <2> DEFINE ends == {i \in DOMAIN wire.parts : "end" \in wire.parts[i]}
    <2>5. size \in ends /\ \A i \in ends : size <= i
      <3>1. size \in DOMAIN wire.parts /\ DOMAIN wire.parts = 1..Len(wire.parts)
        BY <1>1, <1>3, <2>4
      <3>2. "end" \in wire.parts[size]
        BY <1>3, <2>3, <2>4
      <3>3. ASSUME NEW i \in ends, i < size PROVE FALSE
        <4>1. i \in 1..size /\ i \in 1..size - 1 /\ "end" \in wire.parts[i]
          BY <1>1, <1>2, <3>1, <3>3 DEF Responses
        <4>2. body[i] = wire.parts[i]
          BY <1>3, <4>1
        <4> HIDE DEF body
        <4> QED BY <1>3, <2>2, <4>1, <4>2
      <3> QED BY <1>1, <1>3, <3>1, <3>2, <3>3
    <2>6. SmallestOf(ends) = size
      <3>1. \A i \in ends : i \in Nat
        BY <1>1
      <3> QED BY <1>3, <2>5, <3>1 DEF SmallestOf
    <2>7. Min2(SmallestOf(ends), Len(wire.parts)) = size
      BY <1>1, <1>3, <2>6 DEF Min2
    <2>8. Announced(wire) = MarksOf(SubSeq(wire.parts, 1, Min2(SmallestOf(ends), Len(wire.parts))))
      BY <1>6, <2>5 DEF Announced
    <2> QED BY <1>2, <1>4, <2>7, <2>8
  <1>7. CASE wire.framing = "none"
    <2>1. UndeclaredState(wire, body, eof) = "complete"
      BY <1>2, <1>7 DEF Parse
    <2> QED BY <1>2, <2>1 DEF UndeclaredState
  <1>8. CASE wire.framing = "refused"
    BY <1>2, <1>8 DEF Parse
  <1> QED BY <1>1, <1>5, <1>6, <1>7, <1>8

-----------------------------------------------------------------------------
(* The rules.                                                              *)

\* Why an acquisition is not used: only one that was not run says so.
LEMMA ReasonsOfFailure ==
  ASSUME NEW status \in Statuses
  PROVE  /\ FailureReason(status) # "no_supported_negative_evidence"
         /\ FailureReason(status) = "check_not_run" => status = "not_run"
  BY DEF FailureReason, Statuses

\* What either exposure rule says, and of which responses it says it.
LEMMA ExposureResult ==
  ASSUME NEW x, x.status \in Statuses, NEW rule \in {DIRECTORY_RULE, GIT_CONFIG_RULE}
  PROVE  LET a == AssessExposure(rule, x)
             matched == MarkersPresent(rule, x.response)
         IN
         /\ a.rule = rule /\ a.resource = ResourceOf(rule)
         /\ \/ /\ a.outcome = "inconclusive" /\ a.reason # "no_supported_negative_evidence"
               /\ a.reason = "check_not_run" => x.status = "not_run"
            \/ /\ x.status = "complete" /\ x.response # Nothing
               /\ x.response.status \in {200, 404, 410} /\ x.response.identity
               /\ ~x.response.challenge /\ ~AccessPage(x.response)
               /\ a.met = RequiredOf(rule)
               /\ a.facts.status = x.response.status /\ a.facts.markers = matched
               /\ a.outcome = IF matched THEN "supported_positive" ELSE "supported_negative"
  <1> DEFINE a == AssessExposure(rule, x)
             matched == MarkersPresent(rule, x.response)
             whole == {"authorized_target", "intended_resource"} \cup {"complete_response"}
             conclusion == Result(rule, IF matched THEN "supported_positive"
                                                   ELSE "supported_negative",
                                  IF matched THEN "reviewed_markers_present"
                                             ELSE "reviewed_condition_absent",
                                  whole, [status |-> x.response.status, markers |-> matched])
  <1>1. \/ \E reason, met :
             /\ a = Inconclusive(rule, reason, met)
             /\ \/ reason = FailureReason(x.status)
                \/ reason \in {"redirect_prevented_evaluation", "response_blocked_or_ambiguous",
                               "response_status_ambiguous", "unsupported_content_encoding"}
        \/ /\ a = conclusion /\ x.status = "complete" /\ x.response # Nothing
           /\ x.response.status \in {200, 404, 410} /\ x.response.identity
           /\ ~ExposureBlocked(x.response)
    BY DEF AssessExposure
  <1>2. ASSUME NEW reason, NEW met, a = Inconclusive(rule, reason, met),
               \/ reason = FailureReason(x.status)
               \/ reason \in {"redirect_prevented_evaluation", "response_blocked_or_ambiguous",
                              "response_status_ambiguous", "unsupported_content_encoding"}
        PROVE  /\ a.rule = rule /\ a.resource = ResourceOf(rule)
               /\ a.outcome = "inconclusive" /\ a.reason # "no_supported_negative_evidence"
               /\ a.reason = "check_not_run" => x.status = "not_run"
    <2>1. a = [rule |-> rule, resource |-> ResourceOf(rule), outcome |-> "inconclusive",
               reason |-> reason, met |-> met, facts |-> NoFacts]
      BY <1>2 DEF Inconclusive, Result
    <2> HIDE DEF a
    <2> QED BY <1>2, <2>1, ReasonsOfFailure
  <1>3. ASSUME a = conclusion, ~ExposureBlocked(x.response)
        PROVE  /\ a.rule = rule /\ a.resource = ResourceOf(rule)
               /\ ~x.response.challenge /\ ~AccessPage(x.response)
               /\ a.met = RequiredOf(rule)
               /\ a.facts.status = x.response.status /\ a.facts.markers = matched
               /\ a.outcome = IF matched THEN "supported_positive" ELSE "supported_negative"
    <2>1. a = [rule |-> rule, resource |-> ResourceOf(rule),
               outcome |-> IF matched THEN "supported_positive" ELSE "supported_negative",
               reason |-> IF matched THEN "reviewed_markers_present"
                                     ELSE "reviewed_condition_absent",
               met |-> whole, facts |-> [status |-> x.response.status, markers |-> matched]]
      BY <1>3 DEF Result
    <2>2. whole = RequiredOf(rule)
      BY DEF RequiredOf, DIRECTORY_RULE, GIT_CONFIG_RULE, HSTS_RULE
    <2>3. ~x.response.challenge /\ ~AccessPage(x.response)
      BY <1>3 DEF ExposureBlocked
    <2> HIDE DEF a, matched, whole
    <2> QED BY <2>1, <2>2, <2>3
  <1> HIDE DEF a, matched, conclusion
  <1>4. CASE \E reason, met :
               /\ a = Inconclusive(rule, reason, met)
               /\ \/ reason = FailureReason(x.status)
                  \/ reason \in {"redirect_prevented_evaluation", "response_blocked_or_ambiguous",
                                 "response_status_ambiguous", "unsupported_content_encoding"}
    BY <1>2, <1>4 DEF a
  <1> QED BY <1>1, <1>3, <1>4 DEF a, matched

\* What the HSTS rule says, and of which responses it says it.
LEMMA HstsResult ==
  ASSUME NEW x, x.status \in Statuses, NEW o
  PROVE  LET a == AssessHsts(o, x)
         IN
         /\ a.rule = HSTS_RULE /\ a.resource = "/"
         /\ \/ /\ a.outcome = "inconclusive" /\ a.reason # "no_supported_negative_evidence"
               /\ a.reason = "check_not_run" => x.status = "not_run"
            \/ /\ x.status \in {"complete", "truncated"} /\ x.response # Nothing
               /\ x.response.status = 200 /\ x.response.identity /\ ~x.response.challenge
               /\ a.met = RequiredOf(HSTS_RULE)
               /\ a.facts.status = x.response.status /\ a.facts.present = x.response.hsts
               /\ a.outcome = IF x.response.hsts THEN "supported_negative"
                                                 ELSE "supported_positive"
  <1> DEFINE a == AssessHsts(o, x)
             met == {"intended_resource"}
               \cup (IF o.https THEN {"https_origin"} ELSE {})
               \cup (IF o.hostname THEN {"hostname_origin"} ELSE {})
               \cup (IF x.response # Nothing THEN {"complete_headers"} ELSE {})
               \cup (IF HstsUsable(x) THEN {"usable_response"} ELSE {})
             failures == {"hsts_not_applicable", "redirect_prevented_evaluation",
                          "response_blocked_or_ambiguous"}
             conclusion == Result(HSTS_RULE,
                                  IF x.response.hsts THEN "supported_negative"
                                                     ELSE "supported_positive",
                                  IF x.response.hsts THEN "hsts_header_present"
                                                     ELSE "hsts_header_absent",
                                  met, [status |-> x.response.status, present |-> x.response.hsts])
  <1>1. \/ \E reason : /\ a = Inconclusive(HSTS_RULE, reason, met)
                       /\ reason = FailureReason(x.status) \/ reason \in failures
        \/ a = conclusion /\ o.https /\ o.hostname /\ HstsUsable(x)
    BY DEF AssessHsts, HstsFailure
  <1>2. ASSUME NEW reason, a = Inconclusive(HSTS_RULE, reason, met),
               reason = FailureReason(x.status) \/ reason \in failures
        PROVE  /\ a.rule = HSTS_RULE /\ a.resource = "/"
               /\ a.outcome = "inconclusive" /\ a.reason # "no_supported_negative_evidence"
               /\ a.reason = "check_not_run" => x.status = "not_run"
    <2>1. a = [rule |-> HSTS_RULE, resource |-> "/", outcome |-> "inconclusive",
               reason |-> reason, met |-> met, facts |-> NoFacts]
      BY <1>2 DEF Inconclusive, Result, ResourceOf, HSTS_RULE, GIT_CONFIG_RULE
    <2> HIDE DEF a, met
    <2> QED BY <1>2, <2>1, ReasonsOfFailure
  <1>3. ASSUME a = conclusion, o.https, o.hostname, HstsUsable(x)
        PROVE  /\ a.rule = HSTS_RULE /\ a.resource = "/"
               /\ x.status \in {"complete", "truncated"} /\ x.response # Nothing
               /\ x.response.status = 200 /\ x.response.identity /\ ~x.response.challenge
               /\ a.met = RequiredOf(HSTS_RULE)
               /\ a.facts.status = x.response.status /\ a.facts.present = x.response.hsts
               /\ a.outcome = IF x.response.hsts THEN "supported_negative"
                                                 ELSE "supported_positive"
    <2>1. a = [rule |-> HSTS_RULE, resource |-> "/",
               outcome |-> IF x.response.hsts THEN "supported_negative"
                                              ELSE "supported_positive",
               reason |-> IF x.response.hsts THEN "hsts_header_present"
                                             ELSE "hsts_header_absent",
               met |-> met, facts |-> [status |-> x.response.status, present |-> x.response.hsts]]
      BY <1>3 DEF Result, ResourceOf, HSTS_RULE, GIT_CONFIG_RULE
    <2>2. /\ x.status \in {"complete", "truncated"} /\ x.response # Nothing
          /\ x.response.status = 200 /\ x.response.identity /\ ~x.response.challenge
      BY <1>3 DEF HstsUsable
    <2>3. met = RequiredOf(HSTS_RULE)
      BY <1>3, <2>2 DEF RequiredOf
    <2> HIDE DEF a, met
    <2> QED BY <2>1, <2>2, <2>3
  <1> HIDE DEF a, conclusion, met
  <1> QED BY <1>1, <1>2, <1>3 DEF a

-----------------------------------------------------------------------------
(* The inductive invariant.                                                *)

Fetching == {"connect", "read", "close", "record"}
Positions == Fetching \cup {"ask"}

\* The server answered the request under way, during it, with the response being read.
Answered ==
  /\ fetch.wire \in Responses /\ fetch.got <= fetch.wire.head + Len(fetch.wire.parts)
  /\ \E e \in served : /\ e.wire = fetch.wire /\ e.at \in Nat
                       /\ e.resource = ResourceAt[index] /\ e.address = address
                       /\ fetch.started <= e.at /\ e.at <= now

\* A status that lets a rule look at the response was earned.
Judged(wire, got, status) ==
  status = "complete" => \E eof \in BOOLEAN : Parse(wire, got, eof) = "complete"

\* Every response a rule looks at came from the server, in the time of its acquisition.
Sourced(x) ==
  x.status \in {"complete", "truncated"} /\ x.response # Nothing =>
    /\ x.evidence # Nothing
    /\ \E e \in served, got \in Nat :
         /\ e.wire \in Responses /\ got <= e.wire.head + Len(e.wire.parts)
         /\ e.resource = x.resource /\ e.address = x.address
         /\ x.started <= e.at /\ e.at <= x.finished
         /\ x.response = ResponseOf(e.wire, got, x.status)
         /\ Judged(e.wire, got, x.status)

\* The acquisition of the i-th resource.
Dated(x) == x.started \in Nat /\ x.finished \in Nat \cup {Nothing}
Acquired(x, i) == x.resource = ResourceAt[i] /\ x.status \in Statuses /\ Dated(x) /\ Sourced(x)

\* A report is made of the acquisitions of both resources and what the rules say of them.
Founded(report) ==
  \E x, y : /\ report.acquisitions = <<x, y>> /\ Acquired(x, 1) /\ Acquired(y, 2)
            /\ report.assessments =
                 {AssessExposure(DIRECTORY_RULE, x), AssessExposure(GIT_CONFIG_RULE, y),
                  AssessHsts(origin, x)}

\* Sites answer with responses.
SitesAnswer == scene \in Scenes /\ site \in [Addresses -> [Resources -> Responses]]

\* Every wait has a timer, which the clock does not pass, and a request has one that ends it
\* by the deadline.
Timely ==
  /\ {now, deadline, until} \subseteq Nat
  /\ pc \in Waiting => now <= until
  /\ pc \in {"sleep", "connect", "read"} => until <= deadline
  /\ pc \in {"close", "abort"} => until <= deadline + CloseTimeout
  /\ pc \in {"connect", "read"} => fetch.started < deadline
  /\ pc # "idle" => now <= deadline + CloseTimeout

\* The fetch under way.
Fetched ==
  /\ DOMAIN fetch = {"started", "wire", "got", "status"}
  /\ fetch.got \in Nat /\ fetch.status \in Statuses /\ fetch.started \in Nat
  /\ pc \in RecheckPcs
  /\ pc # "idle" => address \in Addresses
  /\ pc \in Fetching => fetch.started <= now
  /\ pc = "connect" => fetch.got = 0
  /\ pc \in {"read", "close"} => Answered
  /\ pc \in {"close", "record"} => Judged(fetch.wire, fetch.got, fetch.status)
  /\ pc = "record" /\ fetch.status \in {"complete", "truncated"} => Answered

\* The acquisitions so far.
Collected ==
  /\ pc \in Positions => index \in {1, 2}
  /\ pc \in {"pause", "sleep"} => index = 2
  /\ pc \in Positions /\ index = 1 => exchanges = <<>>
  /\ pc \in Positions \cup {"pause", "sleep"} /\ index = 2 =>
       \E x : exchanges = <<x>> /\ Acquired(x, 1)
  /\ pc = "report" => \E x, y : exchanges = <<x, y>> /\ Acquired(x, 1) /\ Acquired(y, 2)

Reported ==
  /\ \E S : reports \in Seq(S)
  /\ \A k \in DOMAIN reports : Founded(reports[k])

RecheckInv == SitesAnswer /\ Timely /\ Fetched /\ Collected /\ Reported

\* The steps that are not the recheck's: time passes, others act, a recheck begins.
Elsewhere ==
  \/ /\ UNCHANGED recheckVars /\ served \subseteq served'
     /\ \/ now' = now
        \/ now' = now + 1 /\ (pc = "idle" \/ (pc \in Waiting /\ now < until))
  \/ \E a \in Addresses : BeginRecheck(a)

-----------------------------------------------------------------------------
(* The clock and the timers.                                               *)

\* The constants are numbers.
LEMMA Numbers ==
  /\ {ScanTimeout, RequestTimeout, CloseTimeout, MaxRead, Delay, ResponseLimit} \subseteq Nat
  /\ ResponseLimit > 0
  BY TimeAssumption, DelayAssumption, ResponseLimitAssumption

\* The end of an acquisition leaves everything but the fetch and its timer.
LEMMA EndFetchFrame ==
  ASSUME NEW status, NEW got, EndFetch(status, got), pc \in {"connect", "read"}
  PROVE  /\ pc' = IF pc = "read" THEN "close" ELSE "record"
         /\ until' = IF pc = "read" THEN now + CloseTimeout ELSE until
         /\ fetch' = [fetch EXCEPT !.status = status, !.got = got]
         /\ UNCHANGED <<now, network, served, address, deadline, reports, index, exchanges>>
  BY DEF EndFetch, Unchanging

\* One read ends the acquisition at its limit, by the verdict of the parser, or not at all.
LEMMA ReceiveCases ==
  ASSUME Fetched, Receive
  PROVE  /\ pc = "read" /\ {fetch.got, Sent} \subseteq Nat
         /\ \E n \in Nat \ {0} :
              /\ fetch.got + n <= Sent
              /\ \/ n > ResponseLimit - fetch.got /\ EndFetch("truncated", ResponseLimit)
                 \/ /\ Parse(fetch.wire, fetch.got + n, FALSE) # "incomplete"
                    /\ EndFetch(Parse(fetch.wire, fetch.got + n, FALSE), fetch.got + n)
                 \/ /\ fetch' = [fetch EXCEPT !.got = @ + n]
                    /\ UNCHANGED <<pc, index, until, exchanges, now, network, served, address,
                                   deadline, reports>>
  <1>1. pc = "read" /\ Answered
    BY DEF Receive, Fetched
  <1>2. fetch.got \in Nat /\ Sent \in Nat /\ MaxRead \in Nat
    BY <1>1, Numbers DEF Fetched, Answered, Responses, Sent
  <1> DEFINE state(n) == Parse(fetch.wire, fetch.got + n, FALSE)
  <1>3. PICK n \in 1..Min2(MaxRead, Sent - fetch.got) :
          IF n > ResponseLimit - fetch.got THEN EndFetch("truncated", ResponseLimit)
          ELSE IF state(n) # "incomplete" THEN EndFetch(state(n), fetch.got + n)
          ELSE /\ fetch' = [fetch EXCEPT !.got = @ + n]
               /\ UNCHANGED <<pc, index, until, exchanges>> /\ Unchanging
    BY DEF Receive
  <1>4. n \in Nat \ {0} /\ fetch.got + n <= Sent
    BY <1>2, <1>3 DEF Min2
  <1> QED BY <1>1, <1>2, <1>3, <1>4 DEF Unchanging

\* The end of an acquisition keeps the timers right.
LEMMA EndFetchTimely ==
  ASSUME Timely, NEW status, NEW got, EndFetch(status, got), pc \in {"connect", "read"}
  PROVE  Timely'
  <1>1. /\ pc' = IF pc = "read" THEN "close" ELSE "record"
        /\ until' = IF pc = "read" THEN now + CloseTimeout ELSE until
        /\ UNCHANGED <<now, deadline>>
    BY EndFetchFrame
  <1>2. now <= deadline /\ {now, deadline, until, CloseTimeout} \subseteq Nat
    BY Numbers DEF Timely, Waiting
  <1> QED BY <1>1, <1>2 DEF Timely, Waiting

\* A step of the recheck keeps the timers right.
LEMMA RecheckTimely ==
  ASSUME Timely, Fetched, RecheckStep \/ RecheckFault
  PROVE  Timely'
  <1>n. {now, deadline, until, ScanTimeout, RequestTimeout, CloseTimeout, Delay} \subseteq Nat
        /\ pc \in RecheckPcs
    BY Numbers DEF Timely, Fetched
  <1>1. CASE Pause
    <2>1. pc = "pause" /\ UNCHANGED <<now, deadline>>
      BY <1>1 DEF Pause, Unchanging
    <2>2. CASE now + Delay >= deadline
      BY <1>1, <1>n, <2>1, <2>2 DEF Pause, Skip, Timely, Waiting
    <2>3. CASE ~(now + Delay >= deadline)
      <3>1. pc' = "sleep" /\ until' = now + Delay /\ now <= deadline + CloseTimeout
        BY <1>1, <2>1, <2>3 DEF Pause, Timely
      <3> QED BY <1>n, <2>1, <2>3, <3>1 DEF Timely, Waiting
    <2> QED BY <2>2, <2>3
  <1>2. CASE Wake
    BY <1>2, <1>n DEF Wake, Unchanging, Timely, Waiting
  <1>3. CASE Ask
    <2>1. pc = "ask" /\ UNCHANGED <<now, deadline>>
      BY <1>3 DEF Ask, Unchanging
    <2>2. CASE deadline <= now
      BY <1>3, <1>n, <2>1, <2>2 DEF Ask, Skip, Timely, Waiting
    <2>3. CASE ~(deadline <= now)
      <3>1. /\ pc' = "connect" /\ until' = now + Min2(RequestTimeout, deadline - now)
            /\ fetch' = [NoFetch EXCEPT !.started = now]
        BY <1>3, <2>3 DEF Ask
      <3>2. Min2(RequestTimeout, deadline - now) \in 0..(deadline - now)
        BY <1>n, <2>3 DEF Min2
      <3>3. fetch'.started = now
        BY <3>1 DEF NoFetch
      <3> QED BY <1>n, <2>1, <2>3, <3>1, <3>2, <3>3 DEF Timely, Waiting
    <2> QED BY <2>2, <2>3
  <1>4. CASE Connect
    <2>1. /\ pc = "connect" /\ pc' = "read" /\ UNCHANGED <<now, deadline, until>>
          /\ fetch'.started = fetch.started
      BY <1>4 DEF Connect, Fetched
    <2> QED BY <1>n, <2>1 DEF Timely, Waiting
  <1>5. CASE TimesOut \/ TransportError \/ EndOfStream
    BY <1>5, EndFetchTimely DEF TimesOut, TransportError, EndOfStream
  <1>6. CASE Receive
    <2>1. PICK n \in Nat \ {0} :
            \/ \E status, got : EndFetch(status, got)
            \/ /\ fetch' = [fetch EXCEPT !.got = @ + n]
               /\ UNCHANGED <<pc, now, deadline, until>>
      BY <1>6, ReceiveCases
    <2>2. pc = "read"
      BY <1>6 DEF Receive
    <2>3. CASE fetch' = [fetch EXCEPT !.got = @ + n] /\ UNCHANGED <<pc, now, deadline, until>>
      <3>1. fetch'.started = fetch.started
        BY <2>3 DEF Fetched
      <3> QED BY <1>n, <2>2, <2>3, <3>1 DEF Timely, Waiting
    <2> QED BY <2>1, <2>2, <2>3, EndFetchTimely
  <1>7. CASE Close
    BY <1>7, <1>n DEF Close, Unchanging, Timely, Waiting
  <1>8. CASE Record
    BY <1>8, <1>n DEF Record, Unchanging, Timely, Waiting
  <1>9. CASE Report \/ CancelRecheck
    BY <1>9, <1>n DEF Report, CancelRecheck, Timely, Waiting
  <1> QED BY <1>1, <1>2, <1>3, <1>4, <1>5, <1>6, <1>7, <1>8, <1>9 DEF RecheckStep, RecheckFault

\* So does every other step.
LEMMA ElsewhereTimely ==
  ASSUME Timely, Elsewhere
  PROVE  Timely'
  <1>n. {now, deadline, until, ScanTimeout, CloseTimeout} \subseteq Nat
    BY Numbers DEF Timely
  <1>1. CASE UNCHANGED recheckVars /\ now' = now
    BY <1>1 DEF Timely, recheckVars
  <1>2. CASE UNCHANGED recheckVars /\ now' = now + 1 /\ pc \in Waiting /\ now < until
    <2>1. UNCHANGED <<pc, until, deadline, fetch>> /\ now' \in Nat /\ now' <= until
      BY <1>n, <1>2 DEF recheckVars
    <2>2. until <= deadline + CloseTimeout
      BY <1>n, <1>2 DEF Timely, Waiting
    <2> QED BY <1>n, <2>1, <2>2 DEF Timely
  <1>3. CASE UNCHANGED recheckVars /\ now' = now + 1 /\ pc = "idle"
    BY <1>n, <1>3 DEF Timely, recheckVars, Waiting
  <1>4. ASSUME NEW a \in Addresses, BeginRecheck(a) PROVE Timely'
    BY <1>n, <1>4 DEF BeginRecheck, Timely, Waiting
  <1> QED BY <1>1, <1>2, <1>3, <1>4 DEF Elsewhere

-----------------------------------------------------------------------------
(* The fetch and the acquisitions.                                         *)

\* The end of an acquisition records its verdict and what was read.
LEMMA EndFetchFetched ==
  ASSUME Fetched, Timely, NEW status \in Statuses, NEW got \in Nat, EndFetch(status, got),
         pc \in {"connect", "read"},
         status \in {"complete", "truncated"} => pc = "read",
         pc = "read" => got <= Sent,
         Judged(fetch.wire, got, status)
  PROVE  Fetched'
  <1>1. /\ pc' = IF pc = "read" THEN "close" ELSE "record"
        /\ fetch' = [fetch EXCEPT !.status = status, !.got = got]
        /\ UNCHANGED <<now, served, address, index>>
    BY EndFetchFrame
  <1>2. /\ fetch'.status = status /\ fetch'.got = got
        /\ fetch'.wire = fetch.wire /\ fetch'.started = fetch.started
        /\ DOMAIN fetch' = DOMAIN fetch
    BY <1>1 DEF Fetched
  <1>3. pc = "read" => Answered'
    BY <1>1, <1>2 DEF Fetched, Answered, Sent
  <1>4. Judged(fetch.wire, fetch.got, fetch.status)'
    BY <1>2 DEF Judged
  <1>5. pc \in Fetching /\ pc' \in {"close", "record"} /\ pc' \in RecheckPcs
    BY <1>1 DEF Fetching, RecheckPcs
  <1> QED BY <1>1, <1>2, <1>3, <1>4, <1>5 DEF Fetched

\* A step of the recheck keeps the fetch right.
LEMMA RecheckFetched ==
  ASSUME SitesAnswer, Timely, Fetched, Collected, RecheckStep \/ RecheckFault
  PROVE  Fetched'
  <1>n. /\ {now, deadline, until, ResponseLimit} \subseteq Nat /\ ResponseLimit > 0
        /\ pc \in RecheckPcs
    BY Numbers DEF Timely, Fetched
  <1>f. /\ DOMAIN fetch = {"started", "wire", "got", "status"}
        /\ fetch.got \in Nat /\ fetch.status \in Statuses /\ fetch.started \in Nat
        /\ pc # "idle" => address \in Addresses
    BY DEF Fetched
  <1>0. /\ DOMAIN NoFetch = {"started", "wire", "got", "status"}
        /\ NoFetch.got \in Nat /\ NoFetch.status \in Statuses /\ NoFetch.started \in Nat
    BY DEF NoFetch, Statuses
  <1>k. ASSUME fetch' \in {fetch, NoFetch},
               pc' \in {"idle", "ask", "pause", "sleep", "report", "abort"},
               UNCHANGED <<now, address>>, pc # "idle"
        PROVE  Fetched'
    BY <1>f, <1>0, <1>k DEF Fetched, Fetching, RecheckPcs
  <1>1. CASE Pause \/ Wake
    <2>1. /\ fetch' = fetch /\ pc' \in {"pause", "sleep", "ask", "report"} /\ pc # "idle"
          /\ UNCHANGED <<now, address>>
      BY <1>1 DEF Pause, Wake, Skip, Unchanging
    <2> QED BY <1>k, <2>1
  <1>2. CASE Ask
    <2>1. CASE deadline <= now
      <3>1. /\ fetch' = fetch /\ pc' \in {"pause", "report"} /\ pc # "idle"
            /\ UNCHANGED <<now, address>>
        BY <1>2, <2>1 DEF Ask, Skip, Unchanging
      <3> QED BY <1>k, <3>1
    <2>2. CASE ~(deadline <= now)
      <3>1. /\ fetch' = [NoFetch EXCEPT !.started = now] /\ pc' = "connect" /\ pc = "ask"
            /\ UNCHANGED <<now, address>>
        BY <1>2, <2>2 DEF Ask, Unchanging
      <3>2. /\ fetch'.started = now /\ fetch'.got = 0 /\ fetch'.status \in Statuses
            /\ DOMAIN fetch' = {"started", "wire", "got", "status"}
        BY <3>1 DEF NoFetch, Statuses
      <3> QED BY <1>n, <1>f, <3>1, <3>2 DEF Fetched, RecheckPcs
    <2> QED BY <2>1, <2>2
  <1>3. CASE Connect
    <2> DEFINE wire == site[address][ResourceAt[index]]
    <2>1. /\ pc = "connect" /\ pc' = "read" /\ fetch' = [fetch EXCEPT !.wire = wire]
          /\ UNCHANGED <<now, address, index>>
          /\ served' = served \cup {[at |-> now, address |-> address,
                                    resource |-> ResourceAt[index], wire |-> wire]}
      BY <1>3 DEF Connect
    <2>2. wire \in Responses
      BY <1>f, <2>1 DEF SitesAnswer, ResourceAt, Resources, Collected, Positions, Fetching
    <2> HIDE DEF wire
    <2>3. /\ fetch'.wire = wire /\ fetch'.got = 0 /\ fetch'.status = fetch.status
          /\ fetch'.started = fetch.started /\ DOMAIN fetch' = DOMAIN fetch
      BY <1>f, <2>1 DEF Fetched
    <2>4. Answered'
      <3>1. PICK e \in served' : e = [at |-> now, address |-> address,
                                    resource |-> ResourceAt[index], wire |-> wire]
        BY <2>1
      <3>2. /\ e.wire = wire /\ e.at = now /\ e.resource = ResourceAt[index]
            /\ e.address = address
        BY <3>1
      <3>3. fetch.started <= now
        BY <2>1 DEF Fetched, Fetching
      <3>4. fetch'.got <= wire.head + Len(wire.parts)
        BY <2>2, <2>3 DEF Responses
      <3> QED BY <1>n, <2>1, <2>2, <2>3, <3>2, <3>3, <3>4 DEF Answered
    <2> QED BY <1>n, <1>f, <2>1, <2>3, <2>4 DEF Fetched, Fetching, RecheckPcs
  <1>4. CASE TimesOut \/ TransportError
    <2>1. PICK status \in {"timeout", "transport_error"} :
            EndFetch(status, fetch.got) /\ pc \in {"connect", "read"}
      BY <1>4 DEF TimesOut, TransportError
    <2>2. pc = "read" => fetch.got <= Sent
      BY DEF Fetched, Answered, Sent
    <2>3. Judged(fetch.wire, fetch.got, status) /\ status \in Statuses
      BY <2>1 DEF Judged, Statuses
    <2> QED BY <1>f, <2>1, <2>2, <2>3, EndFetchFetched
  <1>5. CASE EndOfStream
    <2>1. PICK status \in {"complete", "malformed"} :
            /\ EndFetch(status, fetch.got) /\ pc = "read"
            /\ status = "complete" => Parse(fetch.wire, fetch.got, TRUE) = "complete"
      BY <1>5 DEF EndOfStream
    <2>2. fetch.got <= Sent
      BY <2>1 DEF Fetched, Answered, Sent
    <2>3. Judged(fetch.wire, fetch.got, status) /\ status \in Statuses
      BY <2>1 DEF Judged, Statuses
    <2> QED BY <1>f, <2>1, <2>2, <2>3, EndFetchFetched
  <1>6. CASE Receive
    <2>1. pc = "read" /\ {fetch.got, Sent} \subseteq Nat
      BY <1>6, ReceiveCases
    <2>2. PICK n \in Nat \ {0} :
            /\ fetch.got + n <= Sent
            /\ \/ n > ResponseLimit - fetch.got /\ EndFetch("truncated", ResponseLimit)
               \/ /\ Parse(fetch.wire, fetch.got + n, FALSE) # "incomplete"
                  /\ EndFetch(Parse(fetch.wire, fetch.got + n, FALSE), fetch.got + n)
               \/ /\ fetch' = [fetch EXCEPT !.got = @ + n]
                  /\ UNCHANGED <<pc, index, until, exchanges, now, network, served, address,
                                 deadline, reports>>
      BY <1>6, ReceiveCases
    <2>3. CASE n > ResponseLimit - fetch.got /\ EndFetch("truncated", ResponseLimit)
      <3>1. ResponseLimit <= Sent
        BY <1>n, <2>1, <2>2, <2>3
      <3>2. Judged(fetch.wire, ResponseLimit, "truncated") /\ "truncated" \in Statuses
        BY DEF Judged, Statuses
      <3> QED BY <1>n, <2>1, <2>3, <3>1, <3>2, EndFetchFetched
    <2>4. CASE /\ Parse(fetch.wire, fetch.got + n, FALSE) # "incomplete"
               /\ EndFetch(Parse(fetch.wire, fetch.got + n, FALSE), fetch.got + n)
      <3> DEFINE status == Parse(fetch.wire, fetch.got + n, FALSE)
                 got == fetch.got + n
      <3>1. got \in Nat /\ got <= Sent
        BY <2>1, <2>2
      <3>2. fetch.wire \in Responses
        BY <2>1 DEF Fetched, Answered
      <3>3. status \in Statuses
        BY <2>4, <3>1, <3>2, ParseVerdicts DEF Statuses
      <3>4. Judged(fetch.wire, got, status)
        BY DEF Judged
      <3>5. EndFetch(status, got)
        BY <2>4
      <3> HIDE DEF status, got
      <3> QED BY <2>1, <3>1, <3>3, <3>4, <3>5, EndFetchFetched
    <2>5. CASE /\ fetch' = [fetch EXCEPT !.got = @ + n]
               /\ UNCHANGED <<pc, index, until, exchanges, now, network, served, address,
                              deadline, reports>>
      <3>1. /\ fetch'.got = fetch.got + n /\ fetch'.got \in Nat /\ fetch'.wire = fetch.wire
            /\ fetch'.started = fetch.started /\ fetch'.status = fetch.status
            /\ DOMAIN fetch' = DOMAIN fetch
        BY <1>f, <2>1, <2>5
      <3>2. Answered /\ fetch.started <= now
        BY <2>1 DEF Fetched, Fetching
      <3>3. Answered'
        BY <2>1, <2>2, <2>5, <3>1, <3>2 DEF Answered, Sent
      <3> QED BY <1>n, <1>f, <2>1, <2>5, <3>1, <3>2, <3>3 DEF Fetched
    <2> QED BY <2>2, <2>3, <2>4, <2>5
  <1>7. CASE Close
    <2>1. UNCHANGED <<index, fetch, now, served, address>>
      BY <1>7 DEF Close, Unchanging
    <2>2. CASE pc = "close" /\ pc' = "record"
      <3>1. Answered'
        BY <2>1, <2>2 DEF Fetched, Answered
      <3> QED BY <2>1, <2>2, <3>1 DEF Fetched, Fetching, RecheckPcs, Judged
    <2>3. CASE pc = "abort" /\ pc' = "idle"
      BY <1>k, <2>1, <2>3
    <2> QED BY <1>7, <2>2, <2>3 DEF Close
  <1>8. CASE Record \/ Report \/ CancelRecheck
    <2>1. /\ fetch' \in {fetch, NoFetch} /\ pc' \in {"pause", "report", "idle", "abort"}
          /\ pc # "idle" /\ UNCHANGED <<now, address>>
      BY <1>8 DEF Record, Report, CancelRecheck, Unchanging, Waiting
    <2> QED BY <1>k, <2>1
  <1> QED BY <1>1, <1>2, <1>3, <1>4, <1>5, <1>6, <1>7, <1>8 DEF RecheckStep, RecheckFault

\* What was acquired stays sourced: the server's answers are history.
LEMMA AcquiredStays ==
  ASSUME NEW x, NEW i, Acquired(x, i), served \subseteq served'
  PROVE  Acquired(x, i)'
  BY DEF Acquired, Dated, Sourced

\* A parsed response begins with its whole header block.
LEMMA ParsedHeaders ==
  ASSUME NEW wire \in Responses, NEW got \in Nat,
         IncompleteResponse(wire, got) # Nothing
  PROVE  wire.head <= got
  <1>1. HeaderState(wire, got) = "parsed"
    BY DEF IncompleteResponse
  <1>2. wire.head \in Nat /\ HeaderLimit \in Nat
    BY ResponseLimitAssumption DEF Responses
  <1> QED BY <1>1, <1>2 DEF HeaderState

\* The acquisition that is recorded is sourced.
LEMMA AcquisitionSourced ==
  ASSUME Timely, Fetched, pc = "record", index \in {1, 2}, NEW x, x = Acquisition
  PROVE  Acquired(x, index)
  <1>1. /\ x.resource = ResourceAt[index] /\ x.address = address
        /\ x.started = fetch.started /\ x.finished = now /\ x.status = fetch.status
        /\ x.evidence = IF fetch.got > 0 THEN [of |-> fetch.wire, size |-> fetch.got] ELSE Nothing
        /\ x.response = ResponseOf(fetch.wire, fetch.got, fetch.status)
    BY DEF Acquisition
  <1>2. fetch.status \in Statuses /\ fetch.got \in Nat
        /\ Judged(fetch.wire, fetch.got, fetch.status)
    BY DEF Fetched
  <1>3. ASSUME x.status \in {"complete", "truncated"}, x.response # Nothing
        PROVE  /\ x.evidence # Nothing
               /\ \E e \in served, got \in Nat :
                    /\ e.wire \in Responses /\ got <= e.wire.head + Len(e.wire.parts)
                    /\ e.resource = x.resource /\ e.address = x.address
                    /\ x.started <= e.at /\ e.at <= x.finished
                    /\ x.response = ResponseOf(e.wire, got, x.status)
                    /\ Judged(e.wire, got, x.status)
    <2>1. Answered
      BY <1>1, <1>3 DEF Fetched
    <2>2. fetch.wire \in Responses /\ fetch.got <= fetch.wire.head + Len(fetch.wire.parts)
      BY <2>1 DEF Answered
    <2>3. fetch.wire.head <= fetch.got
      <3>1. CASE fetch.status = "complete"
        BY <1>2, <2>2, <3>1, WholeBody DEF Judged
      <3>2. CASE fetch.status = "truncated"
        BY <1>1, <1>2, <1>3, <2>2, <3>2, ParsedHeaders DEF ResponseOf
      <3> QED BY <1>1, <1>3, <3>1, <3>2
    <2>4. fetch.got > 0
      BY <1>2, <2>2, <2>3 DEF Responses
    <2>5. x.evidence # Nothing
      <3>1. [of |-> fetch.wire, size |-> fetch.got] \in [of : Responses, size : Nat]
        BY <1>2, <2>2
      <3> QED BY <1>1, <2>4, <3>1, NothingAssumption
    <2>6. PICK e \in served : /\ e.wire = fetch.wire
                              /\ e.resource = ResourceAt[index] /\ e.address = address
                              /\ fetch.started <= e.at /\ e.at <= now
      BY <2>1 DEF Answered
    <2> QED BY <1>1, <1>2, <2>2, <2>5, <2>6
  <1>4. Dated(x)
    BY <1>1 DEF Dated, Timely, Fetched
  <1> QED BY <1>1, <1>2, <1>3, <1>4 DEF Acquired, Sourced

\* Short sequences.
LEMMA AppendShort ==
  ASSUME NEW x, NEW y
  PROVE  Append(<<>>, x) = <<x>> /\ Append(<<x>>, y) = <<x, y>>
  <1> DEFINE S == {x, y}
  <1>1. <<>> \in Seq(S) /\ Len(<<>>) = 0
    BY EmptySeq
  <1>2. <<x>> \in Seq(S) /\ Len(<<x>>) = 1
    OBVIOUS
  <1>3. <<x, y>> \in Seq(S) /\ Len(<<x, y>>) = 2
    OBVIOUS
  <1>4. Append(<<>>, x) = <<x>>
    BY <1>1, <1>2, AppendIsConcat, ConcatEmptySeq
  <1>5. Append(<<x>>, y) = <<x, y>>
    <2>1. /\ Append(<<x>>, y) \in Seq(S) /\ Len(Append(<<x>>, y)) = 2
          /\ Append(<<x>>, y)[1] = x /\ Append(<<x>>, y)[2] = y
      BY <1>2, AppendProperties
    <2>2. \A i \in 1..2 : Append(<<x>>, y)[i] = <<x, y>>[i]
      BY <2>1
    <2> QED BY <1>3, <2>1, <2>2, SeqEqual
  <1> QED BY <1>4, <1>5

\* One more acquisition, made or not.
LEMMA OneMore ==
  ASSUME Collected, index \in {1, 2}, pc \in Positions \cup {"pause", "sleep"},
         NEW x, Acquired(x, index), exchanges' = Append(exchanges, x), index' = index + 1,
         pc' = IF index = 1 THEN "pause" ELSE "report", served' = served
  PROVE  Collected'
  <1>1. pc' \notin Positions \cup {"sleep"}
    BY DEF Positions, Fetching
  <1>2. CASE index = 1
    <2>1. exchanges = <<>>
      BY <1>2 DEF Collected
    <2>2. Acquired(x, 1) /\ exchanges' = <<x>> /\ pc' = "pause" /\ index' = 2
      BY <1>2, <2>1, AppendShort
    <2>3. Acquired(x, 1)'
      BY <2>2, AcquiredStays
    <2> QED BY <1>1, <2>2, <2>3 DEF Collected
  <1>3. CASE index = 2
    <2>1. PICK w : exchanges = <<w>> /\ Acquired(w, 1)
      BY <1>3 DEF Collected
    <2>2. Acquired(x, 2) /\ exchanges' = <<w, x>> /\ pc' = "report"
      BY <1>3, <2>1, AppendShort
    <2>3. Acquired(w, 1)' /\ Acquired(x, 2)'
      BY <2>1, <2>2, AcquiredStays
    <2> QED BY <1>1, <2>2, <2>3 DEF Collected
  <1> QED BY <1>2, <1>3

\* A step that adds none.
LEMMA NoneMore ==
  ASSUME Collected, UNCHANGED <<index, exchanges>>, served \subseteq served',
         \/ pc' = pc
         \/ pc \in Positions /\ pc' \in Positions
         \/ pc \in {"pause", "sleep"} /\ pc' \in {"sleep", "ask"}
  PROVE  Collected'
  <1>1. /\ pc' \in Positions => index \in {1, 2} /\ (index = 1 => exchanges = <<>>)
        /\ pc' \in {"pause", "sleep"} => index = 2
        /\ pc' \in Positions \cup {"pause", "sleep"} /\ index = 2 =>
             \E x : exchanges = <<x>> /\ Acquired(x, 1)
        /\ pc' = "report" => \E x, y : exchanges = <<x, y>> /\ Acquired(x, 1) /\ Acquired(y, 2)
    BY DEF Collected, Positions, Fetching
  <1>2. pc' \in Positions \cup {"pause", "sleep"} /\ index = 2 =>
          \E x : exchanges = <<x>> /\ Acquired(x, 1)'
    BY <1>1, AcquiredStays
  <1>3. pc' = "report" => \E x, y : exchanges = <<x, y>> /\ Acquired(x, 1)' /\ Acquired(y, 2)'
    BY <1>1, AcquiredStays
  <1> QED BY <1>1, <1>2, <1>3 DEF Collected

\* A step of the recheck keeps the acquisitions right.
LEMMA RecheckCollected ==
  ASSUME Timely, Fetched, Collected, RecheckStep \/ RecheckFault
  PROVE  Collected'
  <1>s. ASSUME Skip, pc \in {"ask", "pause"}, served' = served PROVE Collected'
    <2>1. index \in {1, 2}
      BY <1>s DEF Collected, Positions
    <2>2. PICK x : x = NotRun
      OBVIOUS
    <2>3. Acquired(x, index)
      BY <2>2 DEF NotRun, Acquired, Dated, Sourced, Statuses, Timely
    <2> QED BY <1>s, <2>1, <2>2, <2>3, OneMore DEF Skip, Positions
  <1>1. CASE Pause
    <2>1. pc = "pause" /\ served' = served
      BY <1>1 DEF Pause, Unchanging
    <2>2. CASE Skip
      BY <1>s, <2>1, <2>2
    <2>3. CASE pc' = "sleep" /\ UNCHANGED <<index, exchanges>>
      BY <2>1, <2>3, NoneMore
    <2> QED BY <1>1, <2>2, <2>3 DEF Pause
  <1>2. CASE Ask
    <2>1. pc = "ask" /\ served' = served
      BY <1>2 DEF Ask, Unchanging
    <2>2. CASE Skip
      BY <1>s, <2>1, <2>2
    <2>3. CASE pc' = "connect" /\ UNCHANGED <<index, exchanges>>
      BY <2>1, <2>3, NoneMore DEF Positions, Fetching
    <2> QED BY <1>2, <2>2, <2>3 DEF Ask
  <1>3. CASE Wake \/ Connect \/ Close
    <2>1. /\ UNCHANGED <<index, exchanges>> /\ served \subseteq served'
          /\ \/ pc \in Positions /\ pc' \in Positions
             \/ pc \in {"pause", "sleep"} /\ pc' \in {"sleep", "ask"}
             \/ pc = "abort" /\ pc' = "idle"
      BY <1>3 DEF Wake, Connect, Close, Unchanging, Positions, Fetching
    <2>2. CASE pc' = "idle"
      BY <2>2 DEF Collected, Positions, Fetching
    <2> QED BY <2>1, <2>2, NoneMore
  <1>4. ASSUME NEW status, NEW got, EndFetch(status, got), pc \in {"connect", "read"}
        PROVE  Collected'
    <2>1. UNCHANGED <<index, exchanges, served>> /\ pc \in Positions /\ pc' \in Positions
      BY <1>4, EndFetchFrame DEF Positions, Fetching
    <2> QED BY <2>1, NoneMore
  <1>5. CASE TimesOut \/ TransportError \/ EndOfStream
    BY <1>4, <1>5 DEF TimesOut, TransportError, EndOfStream
  <1>6. CASE Receive
    <2>1. pc = "read"
      BY <1>6 DEF Receive
    <2>2. \/ \E status, got : EndFetch(status, got)
          \/ UNCHANGED <<pc, index, exchanges, served>>
      BY <1>6, ReceiveCases
    <2> QED BY <1>4, <2>1, <2>2, NoneMore
  <1>7. CASE Record
    <2>1. pc = "record" /\ index \in {1, 2}
      BY <1>7 DEF Record, Collected, Positions, Fetching
    <2>2. PICK x : x = Acquisition
      OBVIOUS
    <2>3. Acquired(x, index)
      BY <2>1, <2>2, AcquisitionSourced
    <2> QED BY <1>7, <2>1, <2>2, <2>3, OneMore DEF Record, Unchanging, Positions, Fetching
  <1>8. CASE Report \/ CancelRecheck
    BY <1>8 DEF Report, CancelRecheck, Collected, Positions, Fetching
  <1> QED BY <1>1, <1>2, <1>3, <1>5, <1>6, <1>7, <1>8 DEF RecheckStep, RecheckFault

\* Every other step keeps the fetch right.
LEMMA ElsewhereFetched ==
  ASSUME Timely, Fetched, Elsewhere
  PROVE  Fetched'
  <1>n. now \in Nat
    BY DEF Timely
  <1>1. CASE UNCHANGED recheckVars /\ served \subseteq served' /\ now' \in {now, now + 1}
    <2>1. UNCHANGED <<pc, address, index, fetch>> /\ now' \in Nat /\ now <= now'
      BY <1>n, <1>1 DEF recheckVars
    <2>2. Answered => Answered'
      BY <1>n, <1>1, <2>1 DEF Answered
    <2>3. Judged(fetch.wire, fetch.got, fetch.status)
          => Judged(fetch.wire, fetch.got, fetch.status)'
      BY <2>1 DEF Judged
    <2>4. pc \in Fetching => fetch.started \in Nat /\ fetch.started <= now'
      BY <1>n, <2>1 DEF Fetched
    <2> QED BY <2>1, <2>2, <2>3, <2>4 DEF Fetched
  <1>2. ASSUME NEW a \in Addresses, BeginRecheck(a) PROVE Fetched'
    BY <1>2 DEF BeginRecheck, Fetched, Fetching, RecheckPcs
  <1> QED BY <1>1, <1>2 DEF Elsewhere

\* Every other step keeps the acquisitions right.
LEMMA ElsewhereCollected ==
  ASSUME Collected, Elsewhere
  PROVE  Collected'
  <1>1. CASE UNCHANGED recheckVars /\ served \subseteq served'
    <2>1. UNCHANGED <<pc, index, exchanges>>
      BY <1>1 DEF recheckVars
    <2> QED BY <1>1, <2>1, NoneMore
  <1>2. ASSUME NEW a \in Addresses, BeginRecheck(a) PROVE Collected'
    BY <1>2 DEF BeginRecheck, Collected, Positions, Fetching
  <1> QED BY <1>1, <1>2 DEF Elsewhere

-----------------------------------------------------------------------------
(* The reports.                                                            *)

\* A report stays founded.
LEMMA FoundedStays ==
  ASSUME NEW r, Founded(r), served \subseteq served', origin' = origin
  PROVE  Founded(r)'
  <1>1. PICK x, y : /\ r.acquisitions = <<x, y>> /\ Acquired(x, 1) /\ Acquired(y, 2)
                    /\ r.assessments =
                         {AssessExposure(DIRECTORY_RULE, x), AssessExposure(GIT_CONFIG_RULE, y),
                          AssessHsts(origin, x)}
    BY DEF Founded
  <1>2. Acquired(x, 1)' /\ Acquired(y, 2)'
    BY <1>1, AcquiredStays
  <1> QED BY <1>1, <1>2 DEF Founded

\* A step that reports nothing.
LEMMA ReportedStays ==
  ASSUME Reported, served \subseteq served', UNCHANGED <<origin, reports>>
  PROVE  Reported'
  <1>1. \A k \in DOMAIN reports : Founded(reports[k])'
    BY FoundedStays DEF Reported
  <1> QED BY <1>1 DEF Reported

\* A report is founded on what was acquired.
LEMMA ReportReported ==
  ASSUME Reported, Collected, Report
  PROVE  Reported'
  <1> DEFINE r == [acquisitions |-> exchanges, assessments |-> Assessments]
  <1>1. reports' = Append(reports, r) /\ UNCHANGED <<served, origin>> /\ pc = "report"
    BY DEF Report, network
  <1>2. PICK x, y : exchanges = <<x, y>> /\ Acquired(x, 1) /\ Acquired(y, 2)
    BY <1>1 DEF Collected
  <1>3. Founded(r)
    <2>1. r.acquisitions = <<x, y>>
      BY <1>2
    <2>2. r.assessments = {AssessExposure(DIRECTORY_RULE, x), AssessExposure(GIT_CONFIG_RULE, y),
                           AssessHsts(origin, x)}
      BY <1>2 DEF Assessments
    <2> QED BY <1>2, <2>1, <2>2 DEF Founded
  <1> HIDE DEF r
  <1>4. PICK S : reports \in Seq(S)
    BY DEF Reported
  <1> DEFINE T == S \cup {r}
  <1>5. reports \in Seq(T) /\ r \in T
    BY <1>4, SeqMonotonic
  <1> HIDE DEF T
  <1>6. /\ reports' \in Seq(T) /\ Len(reports') = Len(reports) + 1
        /\ \A i \in 1..Len(reports) : reports'[i] = reports[i]
        /\ reports'[Len(reports) + 1] = r
    BY <1>1, <1>5, AppendProperties
  <1>7. /\ Len(reports) \in Nat /\ DOMAIN reports = 1..Len(reports)
        /\ DOMAIN reports' = 1..(Len(reports) + 1)
    BY <1>5, <1>6, LenProperties
  <1>8. ASSUME NEW k \in DOMAIN reports'
        PROVE  \E v, w : /\ reports'[k].acquisitions = <<v, w>>
                         /\ Acquired(v, 1)' /\ Acquired(w, 2)'
                         /\ reports'[k].assessments =
                              {AssessExposure(DIRECTORY_RULE, v),
                               AssessExposure(GIT_CONFIG_RULE, w), AssessHsts(origin', v)}
    <2>1. reports'[k] = r \/ (k \in DOMAIN reports /\ reports'[k] = reports[k])
      BY <1>6, <1>7
    <2>2. PICK s : s = reports'[k]
      OBVIOUS
    <2>3. Founded(s)
      BY <1>3, <2>1, <2>2 DEF Reported
    <2>4. Founded(s)'
      BY <1>1, <2>3, FoundedStays
    <2> QED BY <2>2, <2>4 DEF Founded
  <1> QED BY <1>6, <1>8 DEF Reported, Founded

\* A step of the recheck keeps the reports right.
LEMMA RecheckReported ==
  ASSUME Reported, Collected, RecheckStep \/ RecheckFault
  PROVE  Reported'
  <1>1. CASE Report
    BY <1>1, ReportReported
  <1>2. CASE Receive
    <2>1. UNCHANGED <<network, served, reports>>
      BY <1>2 DEF Receive, EndFetch, Unchanging
    <2> QED BY <2>1, ReportedStays DEF network
  <1>3. CASE RecheckStep \/ RecheckFault
    <2>1. ~Report /\ ~Receive => UNCHANGED <<origin, reports>> /\ served \subseteq served'
      BY <1>3 DEF RecheckStep, RecheckFault, Pause, Wake, Ask, Connect, TimesOut, Close, Record,
                  TransportError, EndOfStream, CancelRecheck, EndFetch, Unchanging, network
    <2> QED BY <1>1, <1>2, <2>1, ReportedStays
  <1> QED BY <1>3

-----------------------------------------------------------------------------
(* The inductive invariant holds.                                          *)

\* A step is one of the recheck or happens elsewhere, and the sites keep answering.
LEMMA StepCases ==
  ASSUME SitesAnswer, [Next]_vars
  PROVE  /\ SitesAnswer'
         /\ \/ RecheckStep \/ RecheckFault
            \/ Elsewhere /\ UNCHANGED <<origin, reports>> /\ served \subseteq served'
  <1>t. scene \in Scenes /\ scene.targets \subseteq Addresses
        /\ scene.sites \subseteq [Addresses -> [Resources -> Responses]]
    BY SceneAssumption DEF SitesAnswer
  <1> DEFINE Other == Elsewhere /\ UNCHANGED <<origin, reports>> /\ served \subseteq served'
  <1>1. CASE Recheck \/ Fail
    <2>1. (RecheckStep \/ RecheckFault) /\ scene' = scene
      BY <1>1 DEF Recheck, Fail, evidence
    <2>2. site' = site
      BY <2>1 DEF RecheckStep, RecheckFault, Pause, Wake, Ask, Connect, TimesOut, Receive, Close,
                  Record, Report, TransportError, EndOfStream, CancelRecheck, EndFetch, Unchanging,
                  network
    <2> QED BY <2>1, <2>2 DEF SitesAnswer
  <1>2. CASE Pass \/ Wait
    <2>1. /\ UNCHANGED <<network, served, scene, recheckVars>> /\ now' = now + 1
          /\ pc = "idle" \/ (pc \in Waiting /\ now < until)
      BY <1>2 DEF Pass, Wait, Tick, evidence
    <2> QED BY <2>1 DEF SitesAnswer, Elsewhere, network, recheckVars
  <1>3. CASE StartRecheck
    <2>1. PICK a \in scene.targets : BeginRecheck(a)
      BY <1>3 DEF StartRecheck
    <2>2. UNCHANGED <<network, served, scene, reports>>
      BY <1>3, <2>1 DEF StartRecheck, BeginRecheck, evidence
    <2> QED BY <1>t, <2>1, <2>2 DEF SitesAnswer, Elsewhere, network
  <1>4. CASE ChangeSite
    <2>1. PICK a \in scene.targets, s \in scene.sites : site' = [site EXCEPT ![a] = s[a]]
      BY <1>4 DEF ChangeSite
    <2>2. s[a] \in [Resources -> Responses]
      BY <1>t
    <2>3. SitesAnswer'
      BY <1>4, <2>1, <2>2 DEF ChangeSite, SitesAnswer, evidence
    <2>4. Other
      BY <1>4 DEF ChangeSite, Elsewhere, recheckVars
    <2> QED BY <2>3, <2>4
  <1>5. CASE BeginScan \/ Probe \/ EndScan \/ Import \/ DamageFile \/ UNCHANGED vars
    <2>1. UNCHANGED <<now, network, scene, recheckVars>> /\ served \subseteq served'
      BY <1>5 DEF BeginScan, Probe, EndScan, Import, DamageFile, vars, evidence
    <2> QED BY <2>1 DEF SitesAnswer, Elsewhere, network, recheckVars
  <1> QED BY <1>1, <1>2, <1>3, <1>4, <1>5 DEF Next

\* The invariant of the recheck holds throughout.
LEMMA RecheckInvariant == Spec => []RecheckInv
  <1>1. Init => RecheckInv
    <2> SUFFICES ASSUME Init PROVE RecheckInv
      OBVIOUS
    <2>1. /\ now = 0 /\ served = {} /\ pc = "idle" /\ address = Nothing /\ index = 1
          /\ deadline = 0 /\ until = 0 /\ fetch = NoFetch /\ exchanges = <<>> /\ reports = <<>>
      BY DEF Init, RecheckInit
    <2>2. SitesAnswer
      BY SceneAssumption DEF Init, SitesAnswer
    <2>3. Timely
      BY <2>1, Numbers DEF Timely, Waiting
    <2>4. Fetched
      BY <2>1 DEF Fetched, NoFetch, Statuses, RecheckPcs, Fetching
    <2>5. Collected
      BY <2>1 DEF Collected, Positions, Fetching
    <2>6. Reported
      BY <2>1, EmptySeq DEF Reported
    <2> QED BY <2>2, <2>3, <2>4, <2>5, <2>6 DEF RecheckInv
  <1>2. RecheckInv /\ [Next]_vars => RecheckInv'
    <2> SUFFICES ASSUME RecheckInv, [Next]_vars PROVE RecheckInv'
      OBVIOUS
    <2>1. SitesAnswer /\ Timely /\ Fetched /\ Collected /\ Reported
      BY DEF RecheckInv
    <2>2. CASE RecheckStep \/ RecheckFault
      <3>1. SitesAnswer'
        BY <2>1, StepCases
      <3> QED BY <2>1, <2>2, <3>1, RecheckTimely, RecheckFetched, RecheckCollected,
                 RecheckReported DEF RecheckInv
    <2>3. CASE Elsewhere /\ UNCHANGED <<origin, reports>> /\ served \subseteq served'
      <3>1. SitesAnswer'
        BY <2>1, StepCases
      <3> QED BY <2>1, <2>3, <3>1, ElsewhereTimely, ElsewhereFetched, ElsewhereCollected,
                 ReportedStays DEF RecheckInv
    <2> QED BY <2>1, <2>2, <2>3, StepCases
  <1> QED BY <1>1, <1>2, PTL DEF Spec

\* A recheck ends within its deadline and the time to close one connection, and begins no
\* request when the deadline has come (recheck_web, _acquire), whatever the timeouts.
THEOREM RechecksAreBounded == Spec => []RecheckBounded
  <1>1. RecheckInv => RecheckBounded
    BY DEF RecheckInv, Timely, RecheckBounded
  <1> QED BY <1>1, RecheckInvariant, PTL

-----------------------------------------------------------------------------
(* What a report concludes.                                                *)

\* The response of an acquisition a rule could use is the server's.
LEMMA UsedResponse ==
  ASSUME NEW x, NEW i, Acquired(x, i), x.status \in {"complete", "truncated"},
         x.response # Nothing
  PROVE  /\ x.evidence # Nothing /\ x.response.hsts \in BOOLEAN
         /\ x.status = "complete" => x.response.body_complete
         /\ \E e \in served :
              /\ e.resource = x.resource /\ e.address = x.address
              /\ x.started <= e.at /\ e.at <= x.finished
              /\ x.response.status = e.wire.status /\ x.response.hsts = e.wire.hsts
              /\ x.response.challenge = e.wire.challenge
              /\ x.status = "complete" => \/ x.response.body = Announced(e.wire)
                                          \/ e.wire.status \in {204, 304} \cup 100..199
  <1>1. /\ x.evidence # Nothing
        /\ \E e \in served, got \in Nat :
             /\ e.wire \in Responses /\ got <= e.wire.head + Len(e.wire.parts)
             /\ e.resource = x.resource /\ e.address = x.address
             /\ x.started <= e.at /\ e.at <= x.finished
             /\ x.response = ResponseOf(e.wire, got, x.status)
             /\ Judged(e.wire, got, x.status)
    BY DEF Acquired, Sourced
  <1>2. PICK e \in served, got \in Nat :
             /\ e.wire \in Responses /\ got <= e.wire.head + Len(e.wire.parts)
             /\ e.resource = x.resource /\ e.address = x.address
             /\ x.started <= e.at /\ e.at <= x.finished
             /\ x.response = ResponseOf(e.wire, got, x.status)
             /\ Judged(e.wire, got, x.status)
    BY <1>1
  <1>3. \E whole \in BOOLEAN : /\ x.response = Captured(e.wire, got, whole)
                               /\ x.status = "complete" => whole
    BY <1>2 DEF ResponseOf, IncompleteResponse
  <1>4. PICK whole \in BOOLEAN : /\ x.response = Captured(e.wire, got, whole)
                                 /\ x.status = "complete" => whole
    BY <1>3
  <1>5. /\ x.response.status = e.wire.status /\ x.response.hsts = e.wire.hsts
        /\ x.response.challenge = e.wire.challenge /\ x.response.body_complete = whole
        /\ x.response.body = MarksOf(BodyOf(e.wire, got))
    BY <1>4 DEF Captured
  <1>6. e.wire.hsts \in BOOLEAN
    BY <1>2 DEF Responses
  <1>7. x.status = "complete" => \/ x.response.body = Announced(e.wire)
                                 \/ e.wire.status \in {204, 304} \cup 100..199
    <2>1. ASSUME x.status = "complete"
          PROVE  \/ x.response.body = Announced(e.wire)
                 \/ e.wire.status \in {204, 304} \cup 100..199
      <3>1. PICK eof \in BOOLEAN : Parse(e.wire, got, eof) = "complete"
        BY <1>2, <2>1 DEF Judged
      <3>2. PICK w \in Responses : w = e.wire
        BY <1>2
      <3>3. got <= w.head + Len(w.parts) /\ Parse(w, got, eof) = "complete"
        BY <1>2, <3>1, <3>2
      <3>4. \/ MarksOf(BodyOf(w, got)) = Announced(w)
            \/ w.status \in {204, 304} \cup 100..199
        BY <3>3, WholeBody
      <3> QED BY <1>5, <3>2, <3>4
    <2> QED BY <2>1
  <1> QED BY <1>1, <1>2, <1>4, <1>5, <1>6, <1>7

\* What a rule may conclude.
Outcomes == {"inconclusive", "supported_positive", "supported_negative"}

\* A conclusion about an exposure is that of the whole response, and the comparison accepts it.
LEMMA ExposureConcludes ==
  ASSUME NEW x, NEW i \in {1, 2}, NEW rule \in {DIRECTORY_RULE, GIT_CONFIG_RULE},
         Acquired(x, i), ResourceAt[i] = ResourceOf(rule), NEW a, a = AssessExposure(rule, x)
  PROVE  /\ a.resource = x.resource /\ FreshContextValid(a, x) /\ a.outcome \in Outcomes
         /\ a.outcome # "inconclusive" =>
              \E e \in served :
                /\ e.resource = a.resource /\ x.address = e.address
                /\ x.started <= e.at /\ e.at <= x.finished
                /\ Speaks(a.rule, e.wire)
                /\ a.outcome = "supported_positive" <=> Shows(a.rule, e.wire)
  <1> DEFINE matched == MarkersPresent(rule, x.response)
  <1>1. /\ a.rule = rule /\ a.resource = ResourceOf(rule)
        /\ \/ /\ a.outcome = "inconclusive" /\ a.reason # "no_supported_negative_evidence"
              /\ a.reason = "check_not_run" => x.status = "not_run"
           \/ /\ x.status = "complete" /\ x.response # Nothing
              /\ x.response.status \in {200, 404, 410} /\ x.response.identity
              /\ ~x.response.challenge /\ ~AccessPage(x.response)
              /\ a.met = RequiredOf(rule)
              /\ a.facts.status = x.response.status /\ a.facts.markers = matched
              /\ a.outcome = IF matched THEN "supported_positive" ELSE "supported_negative"
    BY ExposureResult DEF Acquired
  <1>2. a.resource = x.resource
    BY <1>1 DEF Acquired
  <1>r. rule # HSTS_RULE
    BY DEF DIRECTORY_RULE, GIT_CONFIG_RULE, HSTS_RULE
  <1>o. a.outcome \in Outcomes
    BY <1>1 DEF Outcomes
  <1>3. CASE a.outcome = "inconclusive"
    BY <1>1, <1>2, <1>3, <1>o DEF FreshContextValid
  <1>4. CASE a.outcome # "inconclusive"
    <2>1. /\ x.status = "complete" /\ x.response # Nothing
          /\ x.response.status \in {200, 404, 410} /\ x.response.identity
          /\ ~x.response.challenge /\ ~AccessPage(x.response)
          /\ a.met = RequiredOf(rule)
          /\ a.facts.status = x.response.status /\ a.facts.markers = matched
          /\ a.outcome = IF matched THEN "supported_positive" ELSE "supported_negative"
      BY <1>1, <1>4
    <2>2. matched <=> x.response.status = 200 /\ MarkersOf(rule) \subseteq x.response.body
      BY DEF MarkersPresent
    <2>3. x.evidence # Nothing /\ x.response.body_complete
      BY <2>1, UsedResponse
    <2>4. ExposureEvidenceValid(a, x)
      <3>1. matched \in BOOLEAN
        BY DEF MarkersPresent
      <3> HIDE DEF matched
      <3>2. (a.outcome = "supported_positive") = matched
        BY <2>1, <3>1
      <3>3. a.facts.markers = (a.outcome = "supported_positive")
        BY <2>1, <3>2
      <3> QED BY <2>1, <2>2, <2>3, <3>3 DEF ExposureEvidenceValid
    <2>5. FreshContextValid(a, x)
      <3> HIDE DEF matched
      <3> QED BY <1>1, <1>2, <1>4, <1>r, <2>1, <2>3, <2>4 DEF FreshContextValid
    <2>6. PICK e \in served :
              /\ e.resource = x.resource /\ e.address = x.address
              /\ x.started <= e.at /\ e.at <= x.finished
              /\ x.response.status = e.wire.status
              /\ x.response.challenge = e.wire.challenge
              /\ \/ x.response.body = Announced(e.wire)
                 \/ e.wire.status \in {204, 304} \cup 100..199
      BY <2>1, UsedResponse
    <2>7. x.response.body = Announced(e.wire)
      BY <2>1, <2>6
    <2>8. Speaks(rule, e.wire)
      BY <1>r, <2>1, <2>6, <2>7 DEF Speaks, AccessPage
    <2>9. a.outcome = "supported_positive" <=> Shows(rule, e.wire)
      BY <1>r, <2>1, <2>2, <2>6, <2>7 DEF Shows
    <2> QED BY <1>o, <1>1, <1>2, <2>5, <2>6, <2>8, <2>9
  <1> QED BY <1>o, <1>3, <1>4

\* So is a conclusion about the HSTS header.
LEMMA HstsConcludes ==
  ASSUME NEW x, Acquired(x, 1), NEW a, a = AssessHsts(origin, x)
  PROVE  /\ a.resource = x.resource /\ FreshContextValid(a, x) /\ a.outcome \in Outcomes
         /\ a.outcome # "inconclusive" =>
              \E e \in served :
                /\ e.resource = a.resource /\ x.address = e.address
                /\ x.started <= e.at /\ e.at <= x.finished
                /\ Speaks(a.rule, e.wire)
                /\ a.outcome = "supported_positive" <=> Shows(a.rule, e.wire)
  <1>1. /\ a.rule = HSTS_RULE /\ a.resource = "/"
        /\ \/ /\ a.outcome = "inconclusive" /\ a.reason # "no_supported_negative_evidence"
              /\ a.reason = "check_not_run" => x.status = "not_run"
           \/ /\ x.status \in {"complete", "truncated"} /\ x.response # Nothing
              /\ x.response.status = 200 /\ x.response.identity /\ ~x.response.challenge
              /\ a.met = RequiredOf(HSTS_RULE)
              /\ a.facts.status = x.response.status /\ a.facts.present = x.response.hsts
              /\ a.outcome = IF x.response.hsts THEN "supported_negative"
                                                ELSE "supported_positive"
    BY HstsResult DEF Acquired
  <1>2. a.resource = x.resource
    BY <1>1 DEF Acquired, ResourceAt
  <1>o. a.outcome \in Outcomes
    BY <1>1 DEF Outcomes
  <1>3. CASE a.outcome = "inconclusive"
    BY <1>1, <1>2, <1>3, <1>o DEF FreshContextValid
  <1>4. CASE a.outcome # "inconclusive"
    <2>1. /\ x.status \in {"complete", "truncated"} /\ x.response # Nothing
          /\ x.response.status = 200 /\ x.response.identity /\ ~x.response.challenge
          /\ a.met = RequiredOf(HSTS_RULE)
          /\ a.facts.status = x.response.status /\ a.facts.present = x.response.hsts
          /\ a.outcome = IF x.response.hsts THEN "supported_negative" ELSE "supported_positive"
      BY <1>1, <1>4
    <2>2. x.evidence # Nothing /\ x.response.hsts \in BOOLEAN
      BY <2>1, UsedResponse
    <2>3. HstsEvidenceValid(a, x)
      BY <2>1, <2>2 DEF HstsEvidenceValid
    <2>4. FreshContextValid(a, x)
      BY <1>1, <1>2, <1>4, <2>1, <2>2, <2>3 DEF FreshContextValid
    <2>5. PICK e \in served :
              /\ e.resource = x.resource /\ e.address = x.address
              /\ x.started <= e.at /\ e.at <= x.finished
              /\ x.response.status = e.wire.status /\ x.response.hsts = e.wire.hsts
              /\ x.response.challenge = e.wire.challenge
      BY <2>1, UsedResponse
    <2>6. Speaks(HSTS_RULE, e.wire)
      BY <2>1, <2>5 DEF Speaks
    <2>7. a.outcome = "supported_positive" <=> Shows(HSTS_RULE, e.wire)
      BY <2>1, <2>2, <2>5 DEF Shows
    <2> QED BY <1>o, <1>1, <1>2, <2>4, <2>5, <2>6, <2>7
  <1> QED BY <1>o, <1>3, <1>4

\* Both parts of a report conclude like this.
LEMMA ReportConcludes ==
  ASSUME Reported, NEW k \in DOMAIN reports
  PROVE  \E x, y :
           /\ reports[k].acquisitions = <<x, y>>
           /\ x.resource = "/" /\ y.resource = "/.git/config" /\ Dated(x) /\ Dated(y)
           /\ \A a \in reports[k].assessments : \E z \in {x, y} :
                /\ a.resource = z.resource /\ FreshContextValid(a, z) /\ a.outcome \in Outcomes
                /\ a.outcome # "inconclusive" =>
                     \E e \in served :
                       /\ e.resource = a.resource /\ z.address = e.address
                       /\ z.started <= e.at /\ e.at <= z.finished
                       /\ Speaks(a.rule, e.wire)
                       /\ a.outcome = "supported_positive" <=> Shows(a.rule, e.wire)
  <1>1. PICK x, y : /\ reports[k].acquisitions = <<x, y>> /\ Acquired(x, 1) /\ Acquired(y, 2)
                    /\ reports[k].assessments =
                         {AssessExposure(DIRECTORY_RULE, x), AssessExposure(GIT_CONFIG_RULE, y),
                          AssessHsts(origin, x)}
    BY DEF Reported, Founded
  <1>2. x.resource = "/" /\ y.resource = "/.git/config" /\ Dated(x) /\ Dated(y)
    BY <1>1 DEF Acquired, ResourceAt
  <1>3. ResourceAt[1] = ResourceOf(DIRECTORY_RULE) /\ ResourceAt[2] = ResourceOf(GIT_CONFIG_RULE)
    BY DEF ResourceAt, ResourceOf, DIRECTORY_RULE, GIT_CONFIG_RULE
  <1> DEFINE Concludes(a, z) ==
               /\ a.resource = z.resource /\ FreshContextValid(a, z) /\ a.outcome \in Outcomes
               /\ a.outcome # "inconclusive" =>
                     \E e \in served :
                       /\ e.resource = a.resource /\ z.address = e.address
                       /\ z.started <= e.at /\ e.at <= z.finished
                       /\ Speaks(a.rule, e.wire)
                       /\ a.outcome = "supported_positive" <=> Shows(a.rule, e.wire)
  <1>4. ASSUME NEW a, a = AssessExposure(DIRECTORY_RULE, x) PROVE Concludes(a, x)
    BY <1>1, <1>3, <1>4, ExposureConcludes
  <1>5. ASSUME NEW a, a = AssessExposure(GIT_CONFIG_RULE, y) PROVE Concludes(a, y)
    BY <1>1, <1>3, <1>5, ExposureConcludes
  <1>6. ASSUME NEW a, a = AssessHsts(origin, x) PROVE Concludes(a, x)
    BY <1>1, <1>6, HstsConcludes
  <1>7. \A a \in reports[k].assessments : \E z \in {x, y} : Concludes(a, z)
    <2> HIDE DEF Concludes
    <2> QED BY <1>1, <1>4, <1>5, <1>6
  <1> QED BY <1>1, <1>2, <1>7

\* Whatever was cut off, merged, delayed, malformed or closed early: a conclusion a recheck
\* supports is the one the whole response of the server to that request supports, and the
\* server gave it in the time the acquisition names (_parse_response, rules.py), whatever
\* responses there are and however large the limits.
THEOREM ConclusionsHold == Spec => []ConclusionsAreTrue
  <1>1. ASSUME RecheckInv, NEW k \in DOMAIN reports, NEW a \in reports[k].assessments,
               a.outcome # "inconclusive"
        PROVE  \E i \in DOMAIN reports[k].acquisitions : \E e \in served :
                 LET acquisition == reports[k].acquisitions[i] IN
                 /\ acquisition.resource = a.resource /\ e.resource = a.resource
                 /\ acquisition.address = e.address
                 /\ acquisition.started <= e.at /\ e.at <= acquisition.finished
                 /\ Speaks(a.rule, e.wire)
                 /\ a.outcome = "supported_positive" <=> Shows(a.rule, e.wire)
    <2>1. PICK x, y :
           /\ reports[k].acquisitions = <<x, y>>
           /\ \E z \in {x, y} :
                /\ a.resource = z.resource
                /\ \E e \in served :
                       /\ e.resource = a.resource /\ z.address = e.address
                       /\ z.started <= e.at /\ e.at <= z.finished
                       /\ Speaks(a.rule, e.wire)
                       /\ a.outcome = "supported_positive" <=> Shows(a.rule, e.wire)
      BY <1>1, ReportConcludes DEF RecheckInv
    <2>2. PICK z \in {x, y} :
                /\ a.resource = z.resource
                /\ \E e \in served :
                       /\ e.resource = a.resource /\ z.address = e.address
                       /\ z.started <= e.at /\ e.at <= z.finished
                       /\ Speaks(a.rule, e.wire)
                       /\ a.outcome = "supported_positive" <=> Shows(a.rule, e.wire)
      BY <2>1
    <2>3. PICK i \in {1, 2} : i \in DOMAIN <<x, y>> /\ <<x, y>>[i] = z
      OBVIOUS
    <2>4. i \in DOMAIN reports[k].acquisitions /\ reports[k].acquisitions[i] = z
      BY <2>1, <2>3
    <2> QED BY <2>2, <2>4
  <1>2. RecheckInv => ConclusionsAreTrue
    BY <1>1 DEF ConclusionsAreTrue
  <1> QED BY <1>2, RecheckInvariant, PTL

\* The rules and the comparison each decide which responses are usable, in places of their own.
RulesAgreeWithComparison ==
  \A k \in DOMAIN reports : \A e \in Entries(origin, RecheckSide(k, {})) : e.valid

\* What the rules conclude from a recheck, the comparison accepts as consistent with its
\* acquisition (rules.py against compare.py), for every origin and every response.
THEOREM RulesAndComparisonAgree == Spec => []RulesAgreeWithComparison
  <1>1. ASSUME RecheckInv, NEW k \in DOMAIN reports, NEW a \in reports[k].assessments
        PROVE  FreshEntry(a, RecheckSide(k, {})).valid
    <2>1. PICK x, y :
           /\ reports[k].acquisitions = <<x, y>>
           /\ x.resource = "/" /\ y.resource = "/.git/config"
           /\ \E z \in {x, y} : a.resource = z.resource /\ FreshContextValid(a, z)
      BY <1>1, ReportConcludes DEF RecheckInv
    <2>2. PICK z \in {x, y} : a.resource = z.resource /\ FreshContextValid(a, z)
      BY <2>1
    <2> DEFINE acquisitions == RecheckSide(k, {}).report.acquisitions
               j == CHOOSE i \in DOMAIN acquisitions : acquisitions[i].resource = a.resource
    <2>3. acquisitions = <<x, y>>
      BY <2>1 DEF RecheckSide, FreshSide
    <2>4. DOMAIN <<x, y>> = {1, 2} /\ <<x, y>>[1] = x /\ <<x, y>>[2] = y
      OBVIOUS
    <2>5. j \in {1, 2} /\ acquisitions[j].resource = a.resource
      <3>1. \E i \in DOMAIN acquisitions : acquisitions[i].resource = a.resource
        BY <2>2, <2>3, <2>4
      <3> HIDE DEF acquisitions
      <3> QED BY <2>3, <2>4, <3>1
    <2>6. acquisitions[j] = z
      <3> HIDE DEF acquisitions, j
      <3> QED BY <2>1, <2>2, <2>3, <2>4, <2>5
    <2>7. FreshEntry(a, RecheckSide(k, {})).valid = FreshContextValid(a, acquisitions[j])
      BY DEF FreshEntry, Entry
    <2> HIDE DEF acquisitions, j
    <2> QED BY <2>2, <2>6, <2>7
  <1>2. RecheckInv => RulesAgreeWithComparison
    <2>1. ASSUME NEW k PROVE RecheckSide(k, {}).basis = "fresh_recheck"
                              /\ RecheckSide(k, {}).report = reports[k]
      BY DEF RecheckSide, FreshSide
    <2> QED BY <1>1, <2>1 DEF RulesAgreeWithComparison, Entries
  <1> QED BY <1>2, RecheckInvariant, PTL

-----------------------------------------------------------------------------
(* The comparison.                                                         *)

\* Two supported conclusions are "resolved" when the later one is the negative one.
LEMMA SupportedResolved ==
  ASSUME NEW b, NEW c, SupportedState(b, c).state = "resolved"
  PROVE  IsLater(b, c) /\ b.outcome # c.outcome /\ c.outcome = "supported_negative"
  <1>1. \A state, reason : State(state, reason).state = state
    BY DEF State
  <1> QED BY <1>1 DEF SupportedState

\* "resolved" is said of two compatible and supported entries only.
LEMMA StateResolved ==
  ASSUME NEW b, NEW c, NEW a, StateOf(b, c, a).state = "resolved"
  PROVE  /\ b # NoEntry /\ c # NoEntry /\ Compatible(b, c) /\ IsLater(b, c)
         /\ b.outcome \notin {"inconclusive", "supported_negative"}
         /\ c.outcome = "supported_negative"
  <1>1. \A state, reason : State(state, reason).state = state
    BY DEF State
  <1>2. b # NoEntry /\ c # NoEntry /\ BothState(b, c).state = "resolved"
    BY <1>1 DEF StateOf
  <1>3. Compatible(b, c) /\ b.outcome # "inconclusive" /\ SupportedState(b, c).state = "resolved"
    BY <1>1, <1>2 DEF BothState
  <1> QED BY <1>2, <1>3, SupportedResolved

\* Of either side it takes an entry with the key of the result.
LEMMA ResolvedEntries ==
  ASSUME NEW before, NEW after, NEW r \in Compare(before, after), r.is.state = "resolved"
  PROVE  \E b \in before, c \in after :
           /\ r.baseline = b /\ r.current = c /\ KeyOf(b) = r.key /\ KeyOf(c) = r.key
           /\ Compatible(b, c) /\ IsLater(b, c)
           /\ b.outcome \notin {"inconclusive", "supported_negative"}
           /\ c.outcome = "supported_negative"
  <1>1. PICK key : r = [key |-> key, baseline |-> EntryAt(before, key),
                        current |-> EntryAt(after, key),
                        is |-> StateOf(EntryAt(before, key), EntryAt(after, key), key.address)]
    BY DEF Compare
  <1> DEFINE b == EntryAt(before, key)
             c == EntryAt(after, key)
  <1>2. r.key = key /\ r.baseline = b /\ r.current = c /\ r.is = StateOf(b, c, key.address)
    BY <1>1
  <1>3. /\ b # NoEntry /\ c # NoEntry /\ Compatible(b, c) /\ IsLater(b, c)
        /\ b.outcome \notin {"inconclusive", "supported_negative"}
        /\ c.outcome = "supported_negative"
    <2> HIDE DEF b, c
    <2> QED BY <1>2, StateResolved
  <1>4. b \in before /\ KeyOf(b) = key
    BY <1>3 DEF EntryAt
  <1>5. c \in after /\ KeyOf(c) = key
    BY <1>3 DEF EntryAt
  <1> HIDE DEF b, c
  <1> QED BY <1>2, <1>3, <1>4, <1>5

-----------------------------------------------------------------------------
(* The ends of a window.                                                   *)

\* A set of moments has a first one.
LEMMA SmallestIsFirst ==
  ASSUME NEW S, S \subseteq Nat, S # {}
  PROVE  SmallestOf(S) \in S /\ \A y \in S : SmallestOf(S) <= y
  <1>1. PICK x \in S : \A y \in S : <<y, x>> \notin OpToRel(<, Nat)
    BY NatLessThanWellFounded, WFMin
  <1>2. ASSUME NEW y \in S, y < x PROVE FALSE
    <2>1. <<y, x>> \in Nat \X Nat /\ <<y, x>>[1] < <<y, x>>[2]
      BY <1>2
    <2>2. <<y, x>> \in OpToRel(<, Nat)
      BY <2>1 DEF OpToRel
    <2> QED BY <1>1, <2>2
  <1>3. \A y \in S : x <= y
    BY <1>2
  <1> QED BY <1>3 DEF SmallestOf

\* A set of moments that are past has a last one.
LEMMA LargestIsLast ==
  ASSUME NEW n \in Nat, NEW S, S \subseteq 0..n, S # {}
  PROVE  LargestOf(S) \in S /\ \A y \in S : y <= LargestOf(S)
  <1> DEFINE T == {n - x : x \in S}
  <1>1. T \subseteq Nat /\ T # {}
    <2>1. \A x \in S : x \in 0..n /\ n - x \in Nat
      OBVIOUS
    <2> QED BY <2>1
  <1>2. SmallestOf(T) \in T /\ \A y \in T : SmallestOf(T) <= y
    <2> HIDE DEF T
    <2> QED BY <1>1, SmallestIsFirst
  <1>3. PICK x \in S : SmallestOf(T) = n - x
    BY <1>2
  <1>4. \A y \in S : y <= x
    <2>1. ASSUME NEW y \in S PROVE y <= x
      <3>1. n - y \in T
        OBVIOUS
      <3>2. n - x <= n - y
        BY <1>2, <1>3, <3>1
      <3>3. x \in 0..n /\ y \in 0..n
        OBVIOUS
      <3> QED BY <3>2, <3>3
    <2> QED BY <2>1
  <1> QED BY <1>4 DEF LargestOf

-----------------------------------------------------------------------------
(* The runs and what they are founded on.                                  *)

\* Address a answered like this to a request for a resource, from one moment to another.
Showed(e, a, resource, from, to) ==
  e.address = a /\ e.resource = resource /\ from <= e.at /\ e.at <= to

\* The scan under way was answered by its address after its row was created.
ScanUnderWay ==
  scanning # Nothing =>
    /\ DOMAIN scanning = {"scanner", "address", "created", "pages"}
    /\ scanning.address \in Addresses /\ scanning.created \in 0..now
    /\ scanning.pages # Nothing =>
         \A resource \in Resources : \E e \in served :
           /\ Showed(e, scanning.address, resource, scanning.created, now)
           /\ e.wire = scanning.pages[resource]

\* What a scan of address a reports, the address showed it while the scan ran.
MatchFounded(m, r, a) ==
  /\ RuleOf(m.template) # HSTS_RULE
  /\ \E e \in served : /\ Showed(e, a, m.resource, r.created, r.finished)
                       /\ Shows(RuleOf(m.template), e.wire)
RecordFounded(record, r, a) ==
  record.probed =>
    \E e \in served : /\ Showed(e, a, "/", r.created, r.finished)
                      /\ e.wire.status = record.status /\ e.wire.hsts = record.hsts
ScanFounded(r) ==
  \E a : /\ r.addresses = {a}
         /\ \A m \in r.matches : MatchFounded(m, r, a)
         /\ \A record \in r.records : RecordFounded(record, r, a)

\* Runs ended in the past.
RunDated(r) == r.created \in 0..r.finished /\ r.finished \in 0..now

\* The digest of an output stands for what the output says.
DigestFits(r, n) ==
  \/ \E k \in 0..n : /\ r.digest = [output |-> k]
                     /\ k = 0 => r.matches = {} /\ r.records = {}
  \/ \E f : /\ r.digest = [foreign |-> f]
            /\ r.matches = f.matches /\ r.records = f.records
Alike(r, o) == r.digest = o.digest => r.matches = o.matches /\ r.records = o.records

RunsFounded ==
  \A r \in runs : RunDated(r) /\ (r.kind = "scan" => ScanFounded(r))
RunsAlike ==
  /\ IsFiniteSet(runs)
  /\ \A r \in runs : DigestFits(r, Cardinality(runs))
  /\ \A r, o \in runs : Alike(r, o)

HistoryInv == ScanUnderWay /\ RunsFounded /\ RunsAlike

\* The clock does not go back and answers are not forgotten.
LEMMA TimePasses ==
  ASSUME RecheckInv, [Next]_vars
  PROVE  now \in Nat /\ now' \in Nat /\ now <= now' /\ served \subseteq served'
  <1>1. now \in Nat
    BY DEF RecheckInv, Timely
  <1>2. CASE Elsewhere /\ served \subseteq served'
    <2>1. now' = now \/ now' = now + 1
      BY <1>2 DEF Elsewhere, BeginRecheck
    <2> QED BY <1>1, <1>2, <2>1
  <1>3. CASE RecheckStep \/ RecheckFault
    <2>1. now' = now /\ served \subseteq served'
      BY <1>3 DEF RecheckStep, RecheckFault, Pause, Wake, Ask, Connect, TimesOut, Receive, Close,
                  Record, Report, TransportError, EndOfStream, CancelRecheck, EndFetch, Unchanging
    <2> QED BY <1>1, <2>1
  <1> QED BY <1>2, <1>3, StepCases DEF RecheckInv

\* What is founded stays founded.
LEMMA ScanFoundedStays ==
  ASSUME NEW r, ScanFounded(r), served \subseteq served'
  PROVE  ScanFounded(r)'
  BY DEF ScanFounded, MatchFounded, RecordFounded

\* The scan under way stays answered.
LEMMA ScanUnderWayStays ==
  ASSUME ScanUnderWay, scanning' = scanning, {now, now'} \subseteq Nat, now <= now',
         served \subseteq served', \A e \in served : e.at \in Nat
  PROVE  ScanUnderWay'
  <1>1. CASE scanning = Nothing
    BY <1>1 DEF ScanUnderWay
  <1>2. CASE scanning # Nothing
    <2>1. scanning.created \in 0..now'
      BY <1>2 DEF ScanUnderWay
    <2>2. ASSUME scanning.pages # Nothing, NEW resource \in Resources
          PROVE  \E e \in served' :
                   /\ Showed(e, scanning.address, resource, scanning.created, now')
                   /\ e.wire = scanning.pages[resource]
      <3>1. PICK e \in served : /\ Showed(e, scanning.address, resource, scanning.created, now)
                                /\ e.wire = scanning.pages[resource]
        BY <1>2, <2>2 DEF ScanUnderWay
      <3>2. e.at <= now'
        BY <3>1 DEF Showed
      <3> QED BY <3>1, <3>2 DEF Showed
    <2> QED BY <1>2, <2>1, <2>2 DEF ScanUnderWay
  <1> QED BY <1>1, <1>2

\* Runs stay founded, and alike, when none is added.
LEMMA RunsStay ==
  ASSUME RunsFounded, RunsAlike, runs' = runs, {now, now'} \subseteq Nat, now <= now',
         served \subseteq served'
  PROVE  RunsFounded' /\ RunsAlike'
  <1>1. \A r \in runs : RunDated(r) => RunDated(r)'
    BY DEF RunDated
  <1>2. \A r \in runs : ScanFounded(r) => ScanFounded(r)'
    BY ScanFoundedStays
  <1> QED BY <1>1, <1>2 DEF RunsFounded, RunsAlike

\* A run that ends now, and whose digest fits the others, may be added.
LEMMA RunAdded ==
  ASSUME RunsFounded, RunsAlike, now' = now, served' = served,
         NEW r, runs' = runs \cup {r}, RunDated(r), r.kind = "scan" => ScanFounded(r),
         DigestFits(r, Cardinality(runs) + 1), \A o \in runs : Alike(r, o)
  PROVE  RunsFounded' /\ RunsAlike'
  <1>1. RunsFounded'
    <2>1. \A o \in runs' : RunDated(o) /\ (o.kind = "scan" => ScanFounded(o))
      BY DEF RunsFounded
    <2>2. \A o : RunDated(o) => RunDated(o)'
      BY DEF RunDated
    <2>3. \A o : ScanFounded(o) => ScanFounded(o)'
      BY ScanFoundedStays
    <2> QED BY <2>1, <2>2, <2>3 DEF RunsFounded
  <1>2. IsFiniteSet(runs) /\ Cardinality(runs) \in Nat
    BY FS_CardinalityType DEF RunsAlike
  <1>3. /\ IsFiniteSet(runs')
        /\ Cardinality(runs') = IF r \in runs THEN Cardinality(runs) ELSE Cardinality(runs) + 1
    BY <1>2, FS_AddElement
  <1>4. ASSUME NEW o \in runs' PROVE DigestFits(o, Cardinality(runs'))
    <2> DEFINE n == Cardinality(runs)
               m == Cardinality(runs')
    <2>1. n \in Nat /\ m \in {n, n + 1}
      BY <1>2, <1>3
    <2>2. DigestFits(o, n) \/ (m = n + 1 /\ DigestFits(o, n + 1))
      BY <1>3 DEF RunsAlike
    <2> HIDE DEF n, m
    <2>3. DigestFits(o, m)
      <3>1. \A k \in 0..n : k \in 0..m
        BY <2>1
      <3>2. DigestFits(o, n) => DigestFits(o, m)
        BY <3>1 DEF DigestFits
      <3> QED BY <2>2, <3>2
    <2> QED BY <2>3 DEF m
  <1>5. ASSUME NEW o \in runs', NEW q \in runs' PROVE Alike(o, q)
    BY DEF RunsAlike, Alike
  <1> QED BY <1>1, <1>3, <1>4, <1>5 DEF RunsAlike, Alike, DigestFits

-----------------------------------------------------------------------------
(* The steps.                                                              *)

\* Answers were given in the past by approved addresses.
ServedBefore == \A e \in served : e.at \in 0..now /\ e.address \in Addresses

\* A managed scan begins.
LEMMA BeginScanHistory ==
  ASSUME RecheckInv, HistoryInv, BeginScan
  PROVE  HistoryInv'
  <1>1. PICK a \in scene.targets, scanner \in scene.scanners :
          scanning' = [scanner |-> scanner, address |-> a, created |-> now, pages |-> Nothing]
    BY DEF BeginScan
  <1>2. a \in Addresses /\ now \in Nat /\ UNCHANGED <<now, served, runs>>
    BY SceneAssumption DEF RecheckInv, SitesAnswer, Timely, BeginScan
  <1>3. /\ DOMAIN scanning' = {"scanner", "address", "created", "pages"}
        /\ scanning'.address = a /\ scanning'.created = now /\ scanning'.pages = Nothing
    BY <1>1
  <1>4. ScanUnderWay'
    BY <1>2, <1>3 DEF ScanUnderWay
  <1> QED BY <1>2, <1>4, RunsStay DEF HistoryInv

\* The scanner makes its requests.
LEMMA ProbeHistory ==
  ASSUME RecheckInv, HistoryInv, Probe
  PROVE  HistoryInv'
  <1> DEFINE pages == site[scanning.address]
             answer(resource) == [at |-> now, address |-> scanning.address,
                                  resource |-> resource, wire |-> pages[resource]]
  <1>1. /\ scanning # Nothing /\ scanning' = [scanning EXCEPT !.pages = pages]
        /\ served' = served \cup {answer(resource) : resource \in Resources}
        /\ UNCHANGED <<now, runs>>
    BY DEF Probe
  <1>2. /\ DOMAIN scanning = {"scanner", "address", "created", "pages"} /\ now \in Nat
        /\ scanning.address \in Addresses /\ scanning.created \in 0..now
    BY <1>1 DEF HistoryInv, ScanUnderWay, RecheckInv, Timely
  <1>3. /\ DOMAIN scanning' = {"scanner", "address", "created", "pages"}
        /\ scanning'.address = scanning.address /\ scanning'.created = scanning.created
        /\ scanning'.pages = pages
    BY <1>1, <1>2
  <1>4. ASSUME NEW resource \in Resources
        PROVE  \E e \in served' :
                 /\ Showed(e, scanning.address, resource, scanning.created, now)
                 /\ e.wire = pages[resource]
    <2>1. answer(resource) \in served'
      BY <1>1
    <2>2. /\ answer(resource).at = now /\ answer(resource).address = scanning.address
          /\ answer(resource).resource = resource /\ answer(resource).wire = pages[resource]
      OBVIOUS
    <2> HIDE DEF answer
    <2> QED BY <1>2, <2>1, <2>2 DEF Showed
  <1>5. ScanUnderWay'
    <2> HIDE DEF pages
    <2> QED BY <1>1, <1>2, <1>3, <1>4 DEF ScanUnderWay, Showed
  <1>6. served \subseteq served'
    BY <1>1
  <1> QED BY <1>1, <1>2, <1>5, <1>6, RunsStay DEF HistoryInv

\* The scan succeeds and reports what it was shown.
LEMMA EndScanHistory ==
  ASSUME RecheckInv, HistoryInv, ServedBefore, EndScan
  PROVE  HistoryInv'
  <1> DEFINE pages == scanning.pages
             a == scanning.address
             n == Cardinality(runs)
             output(matches, records) ==
               [output |-> IF matches \cup records = {} THEN 0 ELSE n + 1]
             run(matches, records) ==
               NewRun("scan", scanning.scanner, {a}, scanning.created,
                      output(matches, records), matches, records)
  <1>1. PICK matches \in IF scanning.scanner = "nuclei" THEN MatchesOfSite(pages) ELSE {{}} :
          \E records \in IF scanning.scanner = "httpx" THEN RecordsOfSite(pages, a) ELSE {{}} :
            runs' = runs \cup {run(matches, records)}
    BY DEF EndScan
  <1>2. PICK records \in IF scanning.scanner = "httpx" THEN RecordsOfSite(pages, a) ELSE {{}} :
          runs' = runs \cup {run(matches, records)}
    BY <1>1
  <1>3. /\ scanning # Nothing /\ pages # Nothing /\ scanning' = Nothing
        /\ UNCHANGED <<now, served>>
    BY DEF EndScan
  <1>4. /\ now \in Nat /\ scanning.created \in 0..now
        /\ \A resource \in Resources : \E e \in served :
             Showed(e, a, resource, scanning.created, now) /\ e.wire = pages[resource]
    BY <1>3 DEF HistoryInv, ScanUnderWay, RecheckInv, Timely
  <1> DEFINE r == run(matches, records)
             d == output(matches, records)
  <1>5. /\ r.kind = "scan" /\ r.addresses = {a} /\ r.created = scanning.created
        /\ r.finished = now /\ r.digest = d /\ r.matches = matches /\ r.records = records
    BY DEF NewRun
  <1> HIDE DEF r, pages, a
  <1>6. ASSUME NEW m \in matches
        PROVE  \E rule \in Rules \ {HSTS_RULE} :
                 /\ m.template = TemplateOf(rule) /\ m.resource = ResourceOf(rule)
                 /\ Shows(rule, pages[ResourceOf(rule)])
    <2>1. matches \in MatchesOfSite(pages)
      BY <1>1, <1>6
    <2> QED BY <1>6, <2>1 DEF MatchesOfSite
  <1>7. ASSUME NEW m \in matches PROVE MatchFounded(m, r, a)
    <2>1. PICK rule \in Rules \ {HSTS_RULE} :
                 /\ m.template = TemplateOf(rule) /\ m.resource = ResourceOf(rule)
                 /\ Shows(rule, pages[ResourceOf(rule)])
      BY <1>6
    <2>2. RuleOf(TemplateOf(rule)) = rule /\ ResourceOf(rule) \in Resources
      BY DEF RuleOf, TemplateOf, Rules, HSTS_RULE, DIRECTORY_RULE, GIT_CONFIG_RULE, ResourceOf,
             Resources
    <2>3. PICK e \in served : /\ Showed(e, a, m.resource, scanning.created, now)
                              /\ e.wire = pages[ResourceOf(rule)]
      BY <1>4, <2>1, <2>2
    <2> QED BY <1>5, <2>1, <2>2, <2>3 DEF MatchFounded
  <1>8. ASSUME NEW record \in records
        PROVE  record.probed => /\ record.status = pages["/"].status
                                /\ record.hsts = pages["/"].hsts
    <2>1. records \in RecordsOfSite(pages, a)
      BY <1>2, <1>8
    <2> DEFINE wire == pages["/"]
               probe == [peer |-> a, target |-> a, probed |-> TRUE, status |-> wire.status,
                         hsts |-> wire.hsts, blocked |-> FALSE, challenged |-> FALSE,
                         redirects |-> wire.status \in 300..399]
               failure == [probe EXCEPT !.peer = Nothing, !.probed = FALSE, !.status = 0,
                                        !.hsts = FALSE, !.redirects = FALSE]
               given(blocked, challenged) ==
                 [probe EXCEPT !.blocked = blocked, !.challenged = challenged]
    <2>2. record = failure \/ \E blocked, challenged : record = given(blocked, challenged)
      <3>1. \/ records \in {{failure}}
            \/ \E blocked \in {FALSE, "notice" \in MarksOf(wire.parts)},
                  challenged \in {FALSE, wire.challenge} :
                 records = {given(blocked, challenged)}
        <4> HIDE DEF wire
        <4> QED BY <2>1 DEF RecordsOfSite, wire
      <3> HIDE DEF given, failure
      <3> QED BY <1>8, <3>1
    <2>3. ~failure.probed
      OBVIOUS
    <2>4. probe.status = wire.status /\ probe.hsts = wire.hsts
      OBVIOUS
    <2>5. \A blocked, challenged : /\ given(blocked, challenged).status = probe.status
                                   /\ given(blocked, challenged).hsts = probe.hsts
      OBVIOUS
    <2> HIDE DEF given, probe, failure
    <2> QED BY <2>2, <2>3, <2>4, <2>5
  <1>9. ASSUME NEW record \in records PROVE RecordFounded(record, r, a)
    <2>1. PICK e \in served : /\ Showed(e, a, "/", scanning.created, now)
                              /\ e.wire = pages["/"]
      BY <1>4 DEF Resources
    <2> QED BY <1>5, <1>8, <2>1 DEF RecordFounded
  <1>10. ScanFounded(r)
    BY <1>5, <1>7, <1>9 DEF ScanFounded
  <1>11. RunDated(r)
    BY <1>4, <1>5 DEF RunDated
  <1>12. n \in Nat /\ RunsFounded /\ RunsAlike /\ \A o \in runs : DigestFits(o, n)
    BY FS_CardinalityType DEF HistoryInv, RunsAlike
  <1> HIDE DEF n
  <1>13. DigestFits(r, n + 1)
    <2>1. CASE matches \cup records = {}
      BY <1>5, <1>12, <2>1 DEF DigestFits
    <2>2. CASE matches \cup records # {}
      <3>1. r.digest = [output |-> n + 1]
        BY <1>5, <2>2
      <3>2. n + 1 \in 0..n + 1 /\ n + 1 # 0
        BY <1>12
      <3> QED BY <3>1, <3>2 DEF DigestFits
    <2> QED BY <2>1, <2>2
  <1>14. ASSUME NEW o \in runs, r.digest = o.digest
         PROVE  r.matches = o.matches /\ r.records = o.records
    <2>1. PICK k \in 0..n : /\ o.digest = [output |-> k]
                            /\ k = 0 => o.matches = {} /\ o.records = {}
      <3>1. \A f : r.digest # [foreign |-> f]
        <4>1. \A f : DOMAIN [foreign |-> f] = {"foreign"}
          OBVIOUS
        <4>2. DOMAIN r.digest = {"output"}
          BY <1>5
        <4> QED BY <4>1, <4>2
      <3> QED BY <1>12, <1>14, <3>1 DEF DigestFits
    <2>2. r.digest.output = k
      BY <1>14, <2>1
    <2>3. matches \cup records = {} /\ k = 0
      BY <1>5, <1>12, <2>2
    <2> QED BY <1>5, <2>1, <2>3
  <1>15. runs' = runs \cup {r}
    BY <1>2 DEF r
  <1>16. RunsFounded' /\ RunsAlike'
    BY <1>3, <1>10, <1>11, <1>12, <1>13, <1>14, <1>15, RunAdded DEF Alike, n
  <1>17. ScanUnderWay'
    BY <1>3 DEF ScanUnderWay
  <1> QED BY <1>16, <1>17 DEF HistoryInv

\* A report is imported: it says what its output says wherever it came from.
LEMMA ImportHistory ==
  ASSUME RecheckInv, HistoryInv, ServedBefore, Import
  PROVE  HistoryInv'
  <1> DEFINE n == Cardinality(runs)
  <1>1. UNCHANGED <<now, served, scanning>> /\ now \in Nat
    BY DEF Import, RecheckInv, Timely
  <1>2. n \in Nat /\ RunsFounded /\ RunsAlike /\ \A o \in runs : DigestFits(o, n)
    BY FS_CardinalityType DEF HistoryInv, RunsAlike
  <1>3. ScanUnderWay'
    BY <1>1, ScanUnderWayStays DEF HistoryInv, ServedBefore
  <1>4. ASSUME NEW r, runs' = runs \cup {r},
               r.kind = "import" /\ r.created = now /\ r.finished = now,
               \/ \E o \in runs : /\ r.digest = o.digest
                                  /\ r.matches = o.matches /\ r.records = o.records
               \/ \E f : /\ r.digest = [foreign |-> f]
                         /\ r.matches = f.matches /\ r.records = f.records
        PROVE  RunsFounded' /\ RunsAlike'
    <2> HIDE DEF n
    <2>1. r.kind = "import" /\ r.created = now /\ r.finished = now
      BY <1>4
    <2>2. runs' = runs \cup {r}
      BY <1>4
    <2>3. RunDated(r)
      BY <1>1, <2>1 DEF RunDated
    <2>4. CASE \E o \in runs : /\ r.digest = o.digest
                               /\ r.matches = o.matches /\ r.records = o.records
      <3>1. PICK o \in runs : r.digest = o.digest /\ r.matches = o.matches /\ r.records = o.records
        BY <2>4
      <3>2. DigestFits(o, n)
        BY <1>2
      <3>3. DigestFits(r, n + 1)
        <4>1. \A k \in 0..n : k \in 0..n + 1
          BY <1>2
        <4> QED BY <3>1, <3>2, <4>1 DEF DigestFits
      <3>4. \A q \in runs : Alike(r, q)
        BY <1>2, <3>1 DEF RunsAlike, Alike
      <3> QED BY <1>1, <1>2, <2>1, <2>2, <2>3, <3>3, <3>4, RunAdded DEF n
    <2>5. CASE \E f : /\ r.digest = [foreign |-> f]
                      /\ r.matches = f.matches /\ r.records = f.records
      <3>1. PICK f : /\ r.digest = [foreign |-> f]
                     /\ r.matches = f.matches /\ r.records = f.records
        BY <2>5
      <3>2. DigestFits(r, n + 1)
        BY <3>1 DEF DigestFits
      <3>3. ASSUME NEW q \in runs, r.digest = q.digest
            PROVE  r.matches = q.matches /\ r.records = q.records
        <4>1. \A k : r.digest # [output |-> k]
          <5>1. \A k : DOMAIN [output |-> k] = {"output"}
            OBVIOUS
          <5>2. DOMAIN r.digest = {"foreign"}
            BY <3>1
          <5> QED BY <5>1, <5>2
        <4>2. PICK g : /\ q.digest = [foreign |-> g]
                       /\ q.matches = g.matches /\ q.records = g.records
          BY <1>2, <3>3, <4>1 DEF DigestFits
        <4>3. r.digest.foreign = f /\ q.digest.foreign = g
          BY <3>1, <4>2
        <4> QED BY <3>1, <3>3, <4>2, <4>3
      <3> QED BY <1>1, <1>2, <2>1, <2>2, <2>3, <3>2, <3>3, RunAdded DEF Alike, n
    <2> QED BY <1>4, <2>4, <2>5
  <1>5. ASSUME \E o \in runs : \E addresses \in {o.addresses, Addresses} :
                 runs' = runs \cup {NewRun("import", o.scanner, addresses, now, o.digest,
                                           o.matches, o.records)}
        PROVE  RunsFounded' /\ RunsAlike'
    <2>1. PICK o \in runs, addresses \in {Addresses} \cup {q.addresses : q \in runs} :
            runs' = runs \cup {NewRun("import", o.scanner, addresses, now, o.digest,
                                      o.matches, o.records)}
      BY <1>5
    <2> DEFINE r == NewRun("import", o.scanner, addresses, now, o.digest, o.matches, o.records)
    <2>2. /\ r.kind = "import" /\ r.created = now /\ r.finished = now
          /\ r.digest = o.digest /\ r.matches = o.matches /\ r.records = o.records
      BY DEF NewRun
    <2>3. runs' = runs \cup {r}
      BY <2>1
    <2> HIDE DEF r
    <2> QED BY <1>4, <2>2, <2>3
  <1>6. ASSUME \E f \in scene.foreign :
                 runs' = runs \cup {NewRun("import", f.scanner, Addresses, now, [foreign |-> f],
                                           f.matches, f.records)}
        PROVE  RunsFounded' /\ RunsAlike'
    <2>1. PICK f \in scene.foreign :
            runs' = runs \cup {NewRun("import", f.scanner, Addresses, now, [foreign |-> f],
                                      f.matches, f.records)}
      BY <1>6
    <2> DEFINE r == NewRun("import", f.scanner, Addresses, now, [foreign |-> f],
                           f.matches, f.records)
    <2>2. /\ r.kind = "import" /\ r.created = now /\ r.finished = now
          /\ r.digest = [foreign |-> f] /\ r.matches = f.matches /\ r.records = f.records
      BY DEF NewRun
    <2>3. runs' = runs \cup {r}
      BY <2>1
    <2> HIDE DEF r
    <2> QED BY <1>4, <2>2, <2>3
  <1>7. RunsFounded' /\ RunsAlike'
    <2>1. \/ \E r \in runs : \E addresses \in {r.addresses, Addresses} :
               runs' = runs \cup {NewRun("import", r.scanner, addresses, now, r.digest,
                                         r.matches, r.records)}
          \/ \E f \in scene.foreign :
               runs' = runs \cup {NewRun("import", f.scanner, Addresses, now, [foreign |-> f],
                                         f.matches, f.records)}
      BY DEF Import
    <2> QED BY <1>5, <1>6, <2>1
  <1> QED BY <1>3, <1>7 DEF HistoryInv

\* Only a request of a recheck or of a scan is answered, and only the steps of scans and
\* imports concern the runs.
LEMMA WhoAsks ==
  ASSUME [Next]_vars
  PROVE  /\ served' = served \/ (Recheck /\ Connect) \/ Probe
         /\ UNCHANGED <<runs, scanning>> \/ BeginScan \/ Probe \/ EndScan \/ Import
  <1>1. CASE Recheck
    <2>1. UNCHANGED <<runs, scanning>> /\ RecheckStep
      BY <1>1 DEF Recheck, evidence
    <2>2. Connect \/ served' = served
      BY <2>1 DEF RecheckStep, Pause, Wake, Ask, TimesOut, Receive, Close, Record, Report,
                  EndFetch, Unchanging
    <2> QED BY <1>1, <2>1, <2>2
  <1>2. CASE Fail
    BY <1>2 DEF Fail, RecheckFault, TransportError, EndOfStream, CancelRecheck, EndFetch,
                Unchanging, evidence
  <1>3. CASE Pass \/ StartRecheck \/ Wait \/ ChangeSite
    BY <1>3 DEF Pass, Tick, StartRecheck, BeginRecheck, Wait, ChangeSite, evidence
  <1>4. CASE BeginScan \/ Probe \/ EndScan \/ Import \/ DamageFile \/ UNCHANGED vars
    BY <1>4 DEF BeginScan, EndScan, Import, DamageFile, vars, evidence
  <1> QED BY <1>1, <1>2, <1>3, <1>4 DEF Next

\* Answers stay in the past, and come from approved addresses.
LEMMA ServedStep ==
  ASSUME RecheckInv, HistoryInv, ServedBefore, [Next]_vars
  PROVE  ServedBefore'
  <1>1. now \in Nat /\ now' \in Nat /\ now <= now'
    BY TimePasses
  <1>2. \A e \in served : e.at \in 0..now' /\ e.address \in Addresses
    BY <1>1 DEF ServedBefore
  <1>3. CASE served' = served
    BY <1>2, <1>3 DEF ServedBefore
  <1>4. CASE Connect
    <2>1. PICK e : /\ served' = served \cup {e} /\ e.at = now /\ e.address = address
      <3>1. \A a, r, w : LET e == [at |-> now, address |-> a, resource |-> r, wire |-> w] IN
                         e.at = now /\ e.address = a
        OBVIOUS
      <3> QED BY <1>4, <3>1 DEF Connect
    <2>2. address \in Addresses /\ now' = now
      BY <1>4 DEF Connect, RecheckInv, Fetched
    <2> QED BY <1>1, <1>2, <2>1, <2>2 DEF ServedBefore
  <1>5. CASE Probe
    <2>1. scanning.address \in Addresses /\ now' = now
      BY <1>5 DEF Probe, HistoryInv, ScanUnderWay
    <2>2. ASSUME NEW e \in served', e \notin served PROVE e.at = now /\ e.address = scanning.address
      <3>1. PICK resource \in Resources :
              e = [at |-> now, address |-> scanning.address, resource |-> resource,
                   wire |-> site[scanning.address][resource]]
        BY <1>5, <2>2 DEF Probe
      <3> QED BY <3>1
    <2> QED BY <1>1, <1>2, <2>1, <2>2 DEF ServedBefore
  <1> QED BY <1>3, <1>4, <1>5, WhoAsks

\* Every step keeps the history right.
LEMMA HistoryStep ==
  ASSUME RecheckInv, HistoryInv, ServedBefore, [Next]_vars
  PROVE  HistoryInv'
  <1>1. CASE UNCHANGED <<runs, scanning>>
    <2>1. {now, now'} \subseteq Nat /\ now <= now' /\ served \subseteq served'
      BY TimePasses
    <2>2. \A e \in served : e.at \in Nat
      BY DEF ServedBefore
    <2> QED BY <1>1, <2>1, <2>2, ScanUnderWayStays, RunsStay DEF HistoryInv
  <1> QED BY <1>1, WhoAsks, BeginScanHistory, ProbeHistory, EndScanHistory, ImportHistory

\* The history of answers and runs is right throughout.
LEMMA HistoryHolds == Spec => [](RecheckInv /\ HistoryInv /\ ServedBefore)
  <1>1. Init => HistoryInv /\ ServedBefore
    <2> SUFFICES ASSUME Init PROVE HistoryInv /\ ServedBefore
      OBVIOUS
    <2>1. served = {} /\ runs = {} /\ scanning = Nothing
      BY DEF Init, RecheckInit
    <2> QED BY <2>1, FS_EmptySet DEF HistoryInv, ServedBefore, ScanUnderWay, RunsFounded, RunsAlike
  <1>2. RecheckInv /\ HistoryInv /\ ServedBefore /\ [Next]_vars => (HistoryInv /\ ServedBefore)'
    BY HistoryStep, ServedStep
  <1> QED BY <1>1, <1>2, RecheckInvariant, PTL DEF Spec

-----------------------------------------------------------------------------
(* What an entry stands for.                                               *)

\* A supported entry of a recheck stands for an answer of its address in its window.
LEMMA FreshStands ==
  ASSUME RecheckInv, NEW k \in DOMAIN reports, NEW known,
         NEW en \in Entries(origin, RecheckSide(k, known)),
         en.outcome # "inconclusive", en.window # Nothing
  PROVE  /\ {en.window.from, en.window.to} \subseteq Nat /\ en.outcome \in Outcomes
         /\ \E e \in served :
              /\ Showed(e, en.address, en.resource, en.window.from, en.window.to)
              /\ Speaks(en.rule, e.wire)
              /\ en.outcome = "supported_positive" <=> Shows(en.rule, e.wire)
  <1>1. RecheckSide(k, known).basis = "fresh_recheck" /\ RecheckSide(k, known).report = reports[k]
    BY DEF RecheckSide, FreshSide
  <1>2. PICK a \in reports[k].assessments : en = FreshEntry(a, RecheckSide(k, known))
    BY <1>1 DEF Entries
  <1> DEFINE acquisitions == reports[k].acquisitions
             j == CHOOSE i \in DOMAIN acquisitions : acquisitions[i].resource = a.resource
             z == acquisitions[j]
  <1>3. /\ en.rule = a.rule /\ en.resource = a.resource /\ en.outcome = a.outcome
        /\ en.address = z.address
        /\ en.window = IF z.finished = Nothing THEN Nothing
                       ELSE [from |-> z.started, to |-> z.finished]
    BY <1>1, <1>2 DEF FreshEntry, Entry
  <1>4. PICK x, y :
           /\ acquisitions = <<x, y>> /\ Dated(x) /\ Dated(y)
           /\ x.resource = "/" /\ y.resource = "/.git/config"
           /\ \E w \in {x, y} :
                /\ a.resource = w.resource /\ a.outcome \in Outcomes
                /\ a.outcome # "inconclusive" =>
                     \E e \in served :
                       /\ e.resource = a.resource /\ w.address = e.address
                       /\ w.started <= e.at /\ e.at <= w.finished
                       /\ Speaks(a.rule, e.wire)
                       /\ a.outcome = "supported_positive" <=> Shows(a.rule, e.wire)
    BY ReportConcludes DEF RecheckInv
  <1>5. PICK w \in {x, y} :
                /\ a.resource = w.resource /\ a.outcome \in Outcomes
                /\ a.outcome # "inconclusive" =>
                     \E e \in served :
                       /\ e.resource = a.resource /\ w.address = e.address
                       /\ w.started <= e.at /\ e.at <= w.finished
                       /\ Speaks(a.rule, e.wire)
                       /\ a.outcome = "supported_positive" <=> Shows(a.rule, e.wire)
    BY <1>4
  <1>6. z = w
    <2>1. DOMAIN <<x, y>> = {1, 2} /\ <<x, y>>[1] = x /\ <<x, y>>[2] = y
      OBVIOUS
    <2>2. \E i \in DOMAIN acquisitions : acquisitions[i].resource = a.resource
      BY <1>4, <1>5, <2>1
    <2> HIDE DEF acquisitions
    <2>3. j \in DOMAIN acquisitions /\ acquisitions[j].resource = a.resource
      BY <2>2
    <2> HIDE DEF j
    <2> QED BY <1>4, <1>5, <2>1, <2>3
  <1> HIDE DEF z
  <1>7. /\ en.window.from = z.started /\ en.window.to = z.finished
        /\ {z.started, z.finished} \subseteq Nat
    BY <1>3, <1>4, <1>5, <1>6 DEF Dated
  <1> QED BY <1>3, <1>5, <1>6, <1>7 DEF Showed

\* Captured evidence of a scan is of the address the scan was pinned to.
LEMMA ScanAddress ==
  ASSUME NEW o, NEW a, o.addresses = {a}, NEW use, CaptureAddress(o, use) # Nothing
  PROVE  CaptureAddress(o, use) = a
  BY DEF CaptureAddress

\* A use whose address and window are known stands for a scan that said the same, while its
\* window was open.
LEMMA UseStands ==
  ASSUME HistoryInv, now \in Nat, NEW S, S \subseteq runs, NEW use, use.run \in S,
         AddressOf(S, use) # Nothing, NEW w, w = WindowOf(S, use), w # Nothing
  PROVE  /\ w.from \in Nat /\ w.to \in 0..now
         /\ \E o \in S : /\ o.kind = "scan" /\ AddressOf(S, use) = CaptureAddress(o, use)
                         /\ o.matches = use.run.matches /\ o.records = use.run.records
                         /\ w.from <= o.created /\ o.finished <= w.to
  <1>1. \A r \in S : r.created \in Nat /\ r.finished \in 0..now
    BY DEF HistoryInv, RunsFounded, RunDated
  <1>2. CASE use.run.kind = "scan"
    <2>1. w = [from |-> use.run.created, to |-> use.run.finished]
      BY <1>2 DEF WindowOf
    <2>2. w.from = use.run.created /\ w.to = use.run.finished
      BY <2>1
    <2>3. ~Inherits(S, use)
      BY <1>2 DEF Inherits
    <2>4. AddressOf(S, use) = CaptureAddress(use.run, use)
      BY <2>3 DEF AddressOf
    <2>5. use.run.created <= use.run.created /\ use.run.finished <= use.run.finished
      BY <1>1
    <2> QED BY <1>1, <1>2, <2>2, <2>4, <2>5
  <1>3. CASE use.run.kind # "scan"
    <2> DEFINE O == Originals(S, use.run)
               C == {o.created : o \in O}
               F == {o.finished : o \in O}
    <2>1. Inherits(S, use) /\ w = [from |-> SmallestOf(C), to |-> LargestOf(F)]
      BY <1>3 DEF WindowOf
    <2>2. PICK a \in OriginalAddresses(S, use) : OriginalAddresses(S, use) = {a}
      BY <2>1 DEF Inherits
    <2>3. AddressOf(S, use) = a
      BY <2>1, <2>2 DEF AddressOf
    <2>4. PICK o \in O : a = CaptureAddress(o, use)
      BY <2>2 DEF OriginalAddresses
    <2>5. /\ o \in S /\ o.kind = "scan" /\ o.digest = use.run.digest /\ O \subseteq S
      BY <2>4 DEF Originals
    <2>6. o.matches = use.run.matches /\ o.records = use.run.records
      BY <2>5 DEF HistoryInv, RunsAlike, Alike
    <2> HIDE DEF O
    <2>7. C \subseteq Nat /\ F \subseteq 0..now /\ o.created \in C /\ o.finished \in F
      BY <1>1, <2>4, <2>5
    <2> HIDE DEF C, F
    <2>8. SmallestOf(C) \in C /\ SmallestOf(C) <= o.created
      BY <2>7, SmallestIsFirst
    <2>9. LargestOf(F) \in F /\ o.finished <= LargestOf(F)
      BY <2>7, LargestIsLast
    <2>10. w.from = SmallestOf(C) /\ w.to = LargestOf(F)
      BY <2>1
    <2> QED BY <2>3, <2>4, <2>5, <2>6, <2>7, <2>8, <2>9, <2>10
  <1> QED BY <1>2, <1>3

\* The runs an assessment uses were selected.
LEMMA UsesSelected ==
  ASSUME NEW S, NEW a \in AssessCorrelation(origin, S), NEW use \in a.uses
  PROVE  use.run \in S
  <1>0. \A rule, resource, outcome, reason, uses :
          Capture(rule, resource, outcome, reason, uses).uses = uses
    BY DEF Capture
  <1>u. \A r, record, revised : Use(r, record, revised).run = r
    BY DEF Use
  <1>1. ASSUME NEW f, a = AssessFinding(S, f) PROVE use.run \in S
    <2>1. a.uses = {Use(r, Nothing, Revised(r, f)) : r \in {q \in S : MatchesOf(q, f) # {}}}
      BY <1>0, <1>1 DEF AssessFinding
    <2> QED BY <1>u, <2>1
  <1>2. CASE a \in AssessMissing(S)
    <2> DEFINE nuclei == {q \in S : q.scanner = "nuclei"}
               missing == {Use(r, Nothing, TRUE) : r \in nuclei}
    <2>1. \E rule, resource, outcome, reason : a = Capture(rule, resource, outcome, reason, missing)
      <3> HIDE DEF missing
      <3> QED BY <1>2 DEF AssessMissing, missing
    <2>2. use \in missing
      <3> HIDE DEF missing
      <3> QED BY <1>0, <2>1
    <2>3. PICK r \in S : use = Use(r, Nothing, TRUE)
      BY <2>2
    <2> QED BY <2>3 DEF Use
  <1>3. CASE a \in AssessStoredHsts(origin, S)
    <2> DEFINE stored == UNION {{Use(r, record, TRUE) : record \in r.records} : r \in S}
    <2>1. \E rule, resource, outcome, reason : a = Capture(rule, resource, outcome, reason, stored)
      <3> HIDE DEF stored
      <3> QED BY <1>3 DEF AssessStoredHsts, stored
    <2>2. use \in stored
      <3> HIDE DEF stored
      <3> QED BY <1>0, <2>1
    <2>3. PICK r \in S : \E record \in r.records : use = Use(r, record, TRUE)
      BY <2>2
    <2> QED BY <2>3 DEF Use
  <1> QED BY <1>1, <1>2, <1>3 DEF AssessCorrelation

\* Each use of an entry whose window is known stands for a scan within this window.
LEMMA EntryUses ==
  ASSUME HistoryInv, now \in Nat, NEW S, S \subseteq runs,
         NEW a \in AssessCorrelation(origin, S), NEW ip, ip # Nothing,
         NEW known, NEW en, en = CaptureEntry(a, ip, StoredSide(S, known)), en.window # Nothing,
         NEW use \in a.uses, AddressOf(S, use) = ip
  PROVE  /\ {en.window.from, en.window.to} \subseteq Nat
         /\ \E o \in S : /\ o.kind = "scan" /\ ip = CaptureAddress(o, use)
                         /\ o.matches = use.run.matches /\ o.records = use.run.records
                         /\ en.window.from <= o.created /\ o.finished <= en.window.to
  <1> DEFINE uses == {u \in a.uses : AddressOf(S, u) = ip}
             windows == {WindowOf(S, u) : u \in uses}
             froms == {w.from : w \in windows}
             tos == {w.to : w \in windows}
  <1>1. StoredSide(S, known).runs = S
    BY DEF StoredSide, CaptureSide
  <1>2. en.window = IF Nothing \in windows THEN Nothing
                    ELSE [from |-> SmallestOf(froms), to |-> LargestOf(tos)]
    BY <1>1 DEF CaptureEntry, Entry
  <1>3. /\ Nothing \notin windows
        /\ en.window.from = SmallestOf(froms) /\ en.window.to = LargestOf(tos)
    <2> HIDE DEF windows, froms, tos
    <2> QED BY <1>2
  <1>4. ASSUME NEW u \in uses
        PROVE  /\ WindowOf(S, u).from \in Nat /\ WindowOf(S, u).to \in 0..now
               /\ \E o \in S : /\ o.kind = "scan" /\ ip = CaptureAddress(o, u)
                               /\ o.matches = u.run.matches /\ o.records = u.run.records
                               /\ WindowOf(S, u).from <= o.created
                               /\ o.finished <= WindowOf(S, u).to
    <2>1. u.run \in S /\ AddressOf(S, u) = ip
      BY UsesSelected
    <2>2. PICK w : w = WindowOf(S, u)
      OBVIOUS
    <2>3. w # Nothing
      BY <1>3, <2>2
    <2>4. /\ w.from \in Nat /\ w.to \in 0..now
          /\ \E o \in S : /\ o.kind = "scan" /\ AddressOf(S, u) = CaptureAddress(o, u)
                          /\ o.matches = u.run.matches /\ o.records = u.run.records
                          /\ w.from <= o.created /\ o.finished <= w.to
      <3> HIDE DEF uses
      <3> QED BY <2>1, <2>2, <2>3, UseStands
    <2> QED BY <2>1, <2>2, <2>4
  <1>5. use \in uses /\ WindowOf(S, use) \in windows
    OBVIOUS
  <1>6. froms \subseteq Nat /\ tos \subseteq 0..now
    <2>1. \A w \in windows : w.from \in Nat /\ w.to \in 0..now
      <3> HIDE DEF uses
      <3> QED BY <1>4
    <2> HIDE DEF windows
    <2> QED BY <2>1
  <1>7. WindowOf(S, use).from \in froms /\ WindowOf(S, use).to \in tos
    BY <1>5
  <1>8. PICK o \in S : /\ o.kind = "scan" /\ ip = CaptureAddress(o, use)
                       /\ o.matches = use.run.matches /\ o.records = use.run.records
                       /\ WindowOf(S, use).from <= o.created
                       /\ o.finished <= WindowOf(S, use).to
    BY <1>4, <1>5
  <1> HIDE DEF uses, windows, froms, tos
  <1>9. SmallestOf(froms) \in Nat /\ SmallestOf(froms) <= WindowOf(S, use).from
    BY <1>6, <1>7, SmallestIsFirst
  <1>10. LargestOf(tos) \in Nat /\ WindowOf(S, use).to <= LargestOf(tos)
    <2>1. LargestOf(tos) \in tos /\ \A y \in tos : y <= LargestOf(tos)
      BY <1>6, <1>7, LargestIsLast
    <2>2. \A x \in tos : x \in Nat
      BY <1>6
    <2> QED BY <1>7, <2>1, <2>2
  <1>11. o.created \in Nat /\ o.finished \in Nat
    BY DEF HistoryInv, RunsFounded, RunDated
  <1>12. WindowOf(S, use).from \in Nat /\ WindowOf(S, use).to \in Nat
    BY <1>4, <1>5
  <1>13. en.window.from <= o.created /\ o.finished <= en.window.to
    <2>1. \A i, j, k \in Nat : i <= j /\ j <= k => i <= k
      OBVIOUS
    <2> QED BY <1>3, <1>8, <1>9, <1>10, <1>11, <1>12, <2>1
  <1> QED BY <1>3, <1>8, <1>9, <1>10, <1>13

\* A supported entry of stored reports stands for an answer of its address in its window: an
\* exposure that was shown, or a header that was sent.
LEMMA CaptureStands ==
  ASSUME HistoryInv, ServedBefore, now \in Nat, NEW S, S \subseteq runs, NEW known,
         NEW en \in Entries(origin, StoredSide(S, known)), en.outcome # "inconclusive",
         en.address # Nothing, en.window # Nothing
  PROVE  /\ {en.window.from, en.window.to} \subseteq Nat
         /\ \E e \in served :
              /\ Showed(e, en.address, en.resource, en.window.from, en.window.to)
              /\ \/ /\ en.outcome = "supported_positive" /\ en.rule # HSTS_RULE
                    /\ Shows(en.rule, e.wire)
                 \/ /\ en.outcome = "supported_negative" /\ en.rule = HSTS_RULE
                    /\ ~Shows(en.rule, e.wire)
  <1>1. StoredSide(S, known).basis # "fresh_recheck" /\ StoredSide(S, known).runs = S
    BY DEF StoredSide, CaptureSide
  <1>2. PICK a \in AssessCorrelation(origin, S) :
          \E use \in a.uses : en = CaptureEntry(a, AddressOf(S, use), StoredSide(S, known))
    BY <1>1 DEF Entries
  <1>0. PICK use0 \in a.uses : en = CaptureEntry(a, AddressOf(S, use0), StoredSide(S, known))
    BY <1>2
  <1>3. /\ en.rule = a.rule /\ en.resource = a.resource /\ en.outcome = a.outcome
        /\ en.address = AddressOf(S, use0)
    BY <1>0 DEF CaptureEntry, Entry
  <1>4. /\ {en.window.from, en.window.to} \subseteq Nat
        /\ \E o \in S : /\ o.kind = "scan" /\ en.address = CaptureAddress(o, use0)
                        /\ o.matches = use0.run.matches /\ o.records = use0.run.records
                        /\ en.window.from <= o.created /\ o.finished <= en.window.to
    BY <1>0, <1>3, EntryUses
  <1>5. PICK o \in S : /\ o.kind = "scan" /\ en.address = CaptureAddress(o, use0)
                       /\ o.matches = use0.run.matches /\ o.records = use0.run.records
                       /\ en.window.from <= o.created /\ o.finished <= en.window.to
    BY <1>4
  <1>6. PICK ip : /\ o.addresses = {ip}
                  /\ \A m \in o.matches : MatchFounded(m, o, ip)
                  /\ \A record \in o.records : RecordFounded(record, o, ip)
    BY <1>5 DEF HistoryInv, RunsFounded, ScanFounded
  <1>7. en.address = ip
    BY <1>5, <1>6, ScanAddress
  <1>8. {o.created, o.finished} \subseteq Nat
    BY DEF HistoryInv, RunsFounded, RunDated
  <1>9. ASSUME NEW e \in served, NEW resource, Showed(e, ip, resource, o.created, o.finished)
        PROVE  Showed(e, ip, resource, en.window.from, en.window.to)
    BY <1>4, <1>5, <1>8, <1>9 DEF Showed, ServedBefore
  <1> DEFINE Stands == \E e \in served :
              /\ Showed(e, en.address, en.resource, en.window.from, en.window.to)
              /\ \/ /\ en.outcome = "supported_positive" /\ en.rule # HSTS_RULE
                    /\ Shows(en.rule, e.wire)
                 \/ /\ en.outcome = "supported_negative" /\ en.rule = HSTS_RULE
                    /\ ~Shows(en.rule, e.wire)
  <1>10. ASSUME NEW f, a = AssessFinding(S, f) PROVE Stands
    <2>1. /\ a.rule = RuleOf(f.template) /\ a.resource = f.resource
          /\ a.outcome = IF Reviewed(S, f) THEN "supported_positive" ELSE "inconclusive"
          /\ a.uses = {Use(r, Nothing, Revised(r, f)) : r \in {q \in S : MatchesOf(q, f) # {}}}
      BY <1>10 DEF AssessFinding, Capture
    <2>2. en.outcome = "supported_positive"
      BY <1>3, <2>1
    <2>3. PICK m \in use0.run.matches : m.template = f.template /\ m.resource = f.resource
      <3>1. PICK r \in S : MatchesOf(r, f) # {} /\ use0 = Use(r, Nothing, Revised(r, f))
        BY <1>2, <2>1
      <3>2. use0.run = r
        BY <3>1 DEF Use
      <3> QED BY <3>1, <3>2 DEF MatchesOf
    <2>4. MatchFounded(m, o, ip)
      BY <1>5, <1>6, <2>3
    <2>5. PICK e \in served : /\ Showed(e, ip, m.resource, o.created, o.finished)
                              /\ Shows(RuleOf(m.template), e.wire)
      BY <2>4 DEF MatchFounded
    <2>6. en.rule = RuleOf(m.template) /\ en.resource = m.resource
      BY <1>3, <2>1, <2>3
    <2>7. en.rule # HSTS_RULE
      BY <2>4, <2>6 DEF MatchFounded
    <2> QED BY <1>7, <1>9, <2>2, <2>5, <2>6, <2>7
  <1>11. a \notin AssessMissing(S)
    <2>1. a \in AssessMissing(S) =>
            \E rule, resource, reason, uses :
              a = Capture(rule, resource, "inconclusive", reason, uses)
      BY DEF AssessMissing
    <2>2. a \in AssessMissing(S) => a.outcome = "inconclusive"
      BY <2>1 DEF Capture
    <2> QED BY <1>3, <2>2
  <1>12. ASSUME a \in AssessStoredHsts(origin, S) PROVE Stands
    <2> DEFINE stored == UNION {{Use(r, record, TRUE) : record \in r.records} : r \in S}
    <2>1. \E outcome, reason :
            /\ a = Capture(HSTS_RULE, "/", outcome, reason, stored)
            /\ \/ outcome = "inconclusive"
               \/ outcome = "supported_negative" /\ \A use \in stored : Qualifies(use.record)
      <3> HIDE DEF stored
      <3> QED BY <1>12 DEF AssessStoredHsts, stored
    <2>2. /\ a.rule = HSTS_RULE /\ a.resource = "/" /\ a.uses = stored
          /\ \/ a.outcome = "inconclusive"
             \/ a.outcome = "supported_negative" /\ \A use \in stored : Qualifies(use.record)
      <3> HIDE DEF stored
      <3> QED BY <2>1 DEF Capture
    <2>3. use0 \in stored /\ Qualifies(use0.record) /\ a.outcome = "supported_negative"
      <3> HIDE DEF stored
      <3> QED BY <1>2, <1>3, <2>2
    <2>4. use0.record \in use0.run.records
      <3>1. PICK r \in S : \E record \in r.records : use0 = Use(r, record, TRUE)
        BY <2>3
      <3> QED BY <3>1 DEF Use
    <2>5. RecordFounded(use0.record, o, ip) /\ use0.record.probed /\ use0.record.hsts
      BY <1>5, <1>6, <2>3, <2>4 DEF Qualifies
    <2>6. PICK e \in served : /\ Showed(e, ip, "/", o.created, o.finished)
                              /\ e.wire.hsts = use0.record.hsts
      BY <2>5 DEF RecordFounded
    <2>7. ~Shows(HSTS_RULE, e.wire)
      BY <2>5, <2>6 DEF Shows
    <2>8. /\ en.outcome = "supported_negative" /\ en.rule = HSTS_RULE /\ en.resource = "/"
          /\ Showed(e, en.address, en.resource, en.window.from, en.window.to)
      BY <1>3, <1>7, <1>9, <2>2, <2>3, <2>6
    <2> QED BY <2>7, <2>8
  <1>13. Stands
    BY <1>10, <1>11, <1>12 DEF AssessCorrelation
  <1> QED BY <1>4, <1>13

\* What every supported entry of any selection stands for.
LEMMA SideStands ==
  ASSUME RecheckInv, HistoryInv, ServedBefore, NEW s \in Sides, NEW en \in Entries(origin, s),
         en.outcome # "inconclusive", en.address # Nothing, en.window # Nothing
  PROVE  /\ {en.window.from, en.window.to} \subseteq Nat /\ en.outcome \in Outcomes
         /\ \E e \in served :
              /\ Showed(e, en.address, en.resource, en.window.from, en.window.to)
              /\ en.outcome = "supported_positive" <=> Shows(en.rule, e.wire)
              /\ s.basis = "fresh_recheck" => Speaks(en.rule, e.wire)
         /\ s.basis # "fresh_recheck" => (en.outcome = "supported_positive" <=> en.rule # HSTS_RULE)
  <1>1. CASE \E known : \E k \in DOMAIN reports : s = RecheckSide(k, known)
    <2>1. PICK known : \E k \in DOMAIN reports : s = RecheckSide(k, known)
      BY <1>1
    <2>2. PICK k \in DOMAIN reports : s = RecheckSide(k, known)
      BY <2>1
    <2>3. s.basis = "fresh_recheck"
      BY <2>2 DEF RecheckSide, FreshSide
    <2> QED BY <2>2, <2>3, FreshStands
  <1>2. CASE \E known : \E S \in Selections : s = StoredSide(S, known)
    <2>0. PICK known : \E S \in Selections : s = StoredSide(S, known)
      BY <1>2
    <2>1. PICK S : S \subseteq runs /\ s = StoredSide(S, known)
      BY <2>0 DEF Selections
    <2>2. now \in Nat
      BY DEF RecheckInv, Timely
    <2>3. s.basis = "existing_capture"
      BY <2>1 DEF StoredSide, CaptureSide
    <2> QED BY <2>1, <2>2, <2>3, CaptureStands DEF Outcomes
  <1> QED BY <1>1, <1>2 DEF Sides

\* "resolved" is said of an address only when that address really showed the condition while
\* the baseline was acquired and, after that, really answered without it while the current
\* evidence was (compare.py, _supported_result); and stored scanner reports alone never say it.
THEOREM ResolvedMeansResolved == Spec => []ResolvedIsReal
  <1>1. ASSUME RecheckInv, HistoryInv, ServedBefore PROVE ResolvedIsReal
    <2> DEFINE view(s) == [basis |-> s.basis, entries |-> Entries(origin, s)]
               Real(b, c, r) ==
                 /\ "fresh_recheck" \in {b.basis, c.basis}
                 /\ \E e, f \in {s \in served : s.address = r.key.address
                                                /\ s.resource = r.key.resource} :
                      /\ e.at < f.at
                      /\ r.baseline.window.from <= e.at /\ e.at <= r.baseline.window.to
                      /\ r.current.window.from <= f.at /\ f.at <= r.current.window.to
                      /\ Shows(r.key.rule, e.wire)
                      /\ ~Shows(r.key.rule, f.wire)
                      /\ c.basis = "fresh_recheck" => Speaks(r.key.rule, f.wire)
    <2>1. ASSUME NEW s \in Sides, NEW t \in Sides,
                 NEW r \in Compare(Entries(origin, s), Entries(origin, t)),
                 r.is.state = "resolved"
          PROVE  Real(s, t, r)
      <3>1. PICK x \in Entries(origin, s), y \in Entries(origin, t) :
              /\ r.baseline = x /\ r.current = y /\ KeyOf(x) = r.key /\ KeyOf(y) = r.key
              /\ Compatible(x, y) /\ IsLater(x, y)
              /\ x.outcome \notin {"inconclusive", "supported_negative"}
              /\ y.outcome = "supported_negative"
        BY <2>1, ResolvedEntries
      <3>2. /\ x.rule = r.key.rule /\ x.resource = r.key.resource /\ x.address = r.key.address
            /\ y.rule = r.key.rule /\ y.resource = r.key.resource /\ y.address = r.key.address
        BY <3>1 DEF KeyOf
      <3>3. /\ x.address # Nothing /\ y.address # Nothing /\ x.window # Nothing
            /\ y.window # Nothing /\ y.window.from > x.window.to
        BY <3>1 DEF Compatible, IsLater
      <3>4. x.outcome \in Outcomes /\ {x.window.from, x.window.to} \subseteq Nat
            /\ (s.basis # "fresh_recheck" =>
                  (x.outcome = "supported_positive" <=> x.rule # HSTS_RULE))
        BY <3>1, <3>3, SideStands, <1>1
      <3>5. x.outcome = "supported_positive"
        BY <3>1, <3>4 DEF Outcomes
      <3>6. PICK e \in served : /\ Showed(e, x.address, x.resource, x.window.from, x.window.to)
                                /\ Shows(x.rule, e.wire)
        BY <3>1, <3>3, <3>5, SideStands, <1>1
      <3>7. y.outcome # "inconclusive" /\ y.outcome # "supported_positive"
        BY <3>1
      <3>8. {y.window.from, y.window.to} \subseteq Nat
            /\ (t.basis # "fresh_recheck" =>
                  (y.outcome = "supported_positive" <=> y.rule # HSTS_RULE))
        BY <3>3, <3>7, SideStands, <1>1
      <3>9. PICK f \in served : /\ Showed(f, y.address, y.resource, y.window.from, y.window.to)
                                /\ ~Shows(y.rule, f.wire)
                                /\ t.basis = "fresh_recheck" => Speaks(y.rule, f.wire)
        BY <3>3, <3>7, SideStands, <1>1
      <3>10. e.at < f.at
        <4>1. {e.at, f.at} \subseteq Nat
          BY <1>1 DEF ServedBefore
        <4>2. e.at <= x.window.to /\ y.window.from <= f.at
          BY <3>6, <3>9 DEF Showed
        <4> QED BY <3>3, <3>4, <3>8, <4>1, <4>2
      <3>11. "fresh_recheck" \in {s.basis, t.basis}
        BY <3>2, <3>4, <3>5, <3>7, <3>8
      <3> QED BY <3>1, <3>2, <3>6, <3>9, <3>10, <3>11 DEF Showed
    <2> HIDE DEF Real
    <2>2. ASSUME NEW b \in {view(s) : s \in Sides}, NEW c \in {view(s) : s \in Sides},
                 NEW r \in Compare(b.entries, c.entries), r.is.state = "resolved"
          PROVE  Real(b, c, r)
      <3>1. PICK s \in Sides, t \in Sides : b = view(s) /\ c = view(t)
        OBVIOUS
      <3>2. /\ b.basis = s.basis /\ b.entries = Entries(origin, s)
            /\ c.basis = t.basis /\ c.entries = Entries(origin, t)
        BY <3>1
      <3>3. Real(s, t, r)
        BY <2>1, <2>2, <3>2
      <3> QED BY <3>2, <3>3 DEF Real
    <2> QED BY <2>2 DEF ResolvedIsReal, Real
  <1> QED BY <1>1, HistoryHolds, PTL

-----------------------------------------------------------------------------
(* Damage.                                                                 *)

\* Templates are not named like rules.
Named(S) == \A r \in S : \A m \in r.matches : m.template \notin Rules

\* Runs keep to that, whatever is scanned or imported.
LEMMA NamedStep ==
  ASSUME RecheckInv, Named(runs), [Next]_vars
  PROVE  Named(runs)'
  <1>1. ASSUME NEW mm, \A m \in mm : m.template \notin Rules,
               NEW kind, NEW scanner, NEW addresses, NEW created, NEW digest, NEW records,
               runs' = runs \cup
                 {NewRun(kind, scanner, addresses, created, digest, mm, records)}
        PROVE  Named(runs)'
    <2>1. NewRun(kind, scanner, addresses, created, digest, mm, records).matches = mm
      BY DEF NewRun
    <2> QED BY <1>1, <2>1 DEF Named
  <1>2. CASE UNCHANGED runs
    BY <1>2 DEF Named
  <1>3. CASE EndScan
    <2>1. PICK mm \in IF scanning.scanner = "nuclei" THEN MatchesOfSite(scanning.pages) ELSE {{}} :
            \E records, digest :
              runs' = runs \cup {NewRun("scan", scanning.scanner, {scanning.address},
                                        scanning.created, digest, mm, records)}
      BY <1>3 DEF EndScan
    <2>2. ASSUME NEW m \in mm PROVE m.template \notin Rules
      <3>1. \E rule : m.template = TemplateOf(rule)
        BY <2>1 DEF MatchesOfSite
      <3> QED BY <3>1 DEF TemplateOf, Rules, DIRECTORY_RULE, GIT_CONFIG_RULE, HSTS_RULE
    <2> QED BY <1>1, <2>1, <2>2
  <1>4. CASE Import
    <2>1. ASSUME NEW r \in runs, NEW addresses,
                 runs' = runs \cup {NewRun("import", r.scanner, addresses, now, r.digest,
                                           r.matches, r.records)}
          PROVE  Named(runs)'
      <3>1. \A m \in r.matches : m.template \notin Rules
        BY DEF Named
      <3> QED BY <1>1, <2>1, <3>1
    <2>2. ASSUME NEW f \in scene.foreign,
                 runs' = runs \cup {NewRun("import", f.scanner, Addresses, now, [foreign |-> f],
                                           f.matches, f.records)}
          PROVE  Named(runs)'
      <3>1. \A m \in f.matches : m.template \notin Rules
        BY SceneAssumption DEF RecheckInv, SitesAnswer
      <3> QED BY <1>1, <2>2, <3>1
    <2> QED BY <1>4, <2>1, <2>2 DEF Import
  <1>5. BeginScan \/ Probe => UNCHANGED runs
    BY DEF BeginScan, Probe
  <1> QED BY <1>2, <1>3, <1>4, <1>5, WhoAsks

\* Different templates have different rules.
LEMMA RulesApart ==
  ASSUME NEW t, NEW u, t \notin Rules, u \notin Rules
  PROVE  RuleOf(t) # HSTS_RULE /\ (RuleOf(t) = RuleOf(u) => t = u)
  BY DEF RuleOf, Rules, DIRECTORY_RULE, GIT_CONFIG_RULE, HSTS_RULE

\* A selection has one assessment of a claim: the code refuses a second one.
LEMMA OneAssessment ==
  ASSUME NEW S, Named(S), NEW a \in AssessCorrelation(origin, S),
         NEW b \in AssessCorrelation(origin, S), a.rule = b.rule, a.resource = b.resource
  PROVE  a = b
  <1>c. \A rule, resource, outcome, reason, uses :
          /\ Capture(rule, resource, outcome, reason, uses).rule = rule
          /\ Capture(rule, resource, outcome, reason, uses).resource = resource
    BY DEF Capture
  <1> DEFINE assessed == {RuleOf(f.template) :
                f \in {g \in Findings(S) : g.resource = ResourceOf(RuleOf(g.template))}}
             nuclei == {r \in S : r.scanner = "nuclei"}
             missing(rule) == Capture(rule, ResourceOf(rule), "inconclusive",
                                      "no_supported_negative_evidence",
                                      {Use(r, Nothing, TRUE) : r \in nuclei})
  <1>1. ASSUME NEW f \in Findings(S)
        PROVE  /\ f = [template |-> f.template, resource |-> f.resource]
               /\ f.template \notin Rules
               /\ AssessFinding(S, f).rule = RuleOf(f.template)
               /\ AssessFinding(S, f).resource = f.resource
    <2>1. PICK r \in S : \E m \in r.matches :
            f = [template |-> m.template, resource |-> m.resource]
      BY DEF Findings
    <2>2. PICK m \in r.matches : f = [template |-> m.template, resource |-> m.resource]
      BY <2>1
    <2> QED BY <1>c, <2>2 DEF Named, AssessFinding
  <1>2. ASSUME NEW x \in AssessMissing(S)
        PROVE  /\ x = missing(x.rule) /\ x.resource = ResourceOf(x.rule)
               /\ x.rule # HSTS_RULE /\ x.rule \notin assessed
    <2>1. PICK rule \in {DIRECTORY_RULE, GIT_CONFIG_RULE} \ assessed : x = missing(rule)
      BY DEF AssessMissing
    <2>2. x.rule = rule /\ x.resource = ResourceOf(rule)
      <3> HIDE DEF nuclei
      <3> QED BY <1>c, <2>1
    <2> HIDE DEF missing, assessed
    <2> QED BY <2>1, <2>2 DEF DIRECTORY_RULE, GIT_CONFIG_RULE, HSTS_RULE
  <1> HIDE DEF missing
  <1>3. ASSUME NEW x \in AssessStoredHsts(origin, S)
        PROVE  x.rule = HSTS_RULE /\ \A y \in AssessStoredHsts(origin, S) : x = y
    <2>1. \E outcome, reason, uses :
            AssessStoredHsts(origin, S) \subseteq {Capture(HSTS_RULE, "/", outcome, reason, uses)}
      BY DEF AssessStoredHsts
    <2> QED BY <1>c, <2>1
  <1>4. ASSUME NEW x \in AssessCorrelation(origin, S)
        PROVE  \/ \E f \in Findings(S) : x = AssessFinding(S, f)
               \/ x \in AssessMissing(S) \/ x \in AssessStoredHsts(origin, S)
    BY DEF AssessCorrelation
  <1>5. ASSUME NEW f \in Findings(S), NEW x, x.rule = RuleOf(f.template), x.resource = f.resource
        PROVE  x \notin AssessMissing(S) /\ x \notin AssessStoredHsts(origin, S)
    <2>1. x.resource = ResourceOf(x.rule) => x.rule \in assessed
      BY <1>5
    <2>2. x.rule # HSTS_RULE
      BY <1>1, <1>5, RulesApart
    <2> HIDE DEF assessed
    <2> QED BY <1>2, <1>3, <2>1, <2>2
  <1> HIDE DEF assessed
  <1>6. ASSUME NEW f \in Findings(S), NEW g \in Findings(S),
               RuleOf(f.template) = RuleOf(g.template), f.resource = g.resource
        PROVE  f = g
    <2>1. f.template = g.template
      BY <1>1, <1>6, RulesApart
    <2> QED BY <1>1, <1>6, <2>1
  <1>7. ASSUME NEW f \in Findings(S), a = AssessFinding(S, f) PROVE a = b
    <2>1. a.rule = RuleOf(f.template) /\ a.resource = f.resource
      BY <1>1, <1>7
    <2>2. PICK g \in Findings(S) : b = AssessFinding(S, g)
      BY <1>4, <1>5, <2>1
    <2>3. b.rule = RuleOf(g.template) /\ b.resource = g.resource
      BY <1>1, <2>2
    <2>4. f = g
      BY <1>6, <2>1, <2>3
    <2> QED BY <1>7, <2>2, <2>4
  <1>8. ASSUME NEW f \in Findings(S), b = AssessFinding(S, f), a \in AssessMissing(S) \/
                 a \in AssessStoredHsts(origin, S)
        PROVE  FALSE
    <2>1. a.rule = RuleOf(f.template) /\ a.resource = f.resource
      BY <1>1, <1>8
    <2> QED BY <1>5, <1>8, <2>1
  <1>9. CASE a \in AssessMissing(S)
    BY <1>2, <1>3, <1>4, <1>8, <1>9
  <1>10. CASE a \in AssessStoredHsts(origin, S)
    BY <1>2, <1>3, <1>4, <1>8, <1>10
  <1> QED BY <1>4, <1>7, <1>9, <1>10

\* Two entries with the key of one claim: if the first one's evidence is readable, it is also
\* what is said without any damage.
Matched(e, w) == KeyOf(w) = KeyOf(e) /\ (e.healthy => w = e)

\* What a view must be for damage to withdraw conclusions only: one entry for each key, each
\* with its whole counterpart, and none healthy whose digests are lost.
Sound(v) ==
  /\ NoEntry \notin v.entries \cup v.whole
  /\ \A e, f \in v.entries : KeyOf(e) = KeyOf(f) => e = f
  /\ \A e \in v.entries : \E w \in v.whole : Matched(e, w)
  /\ \A w \in v.whole : \E e \in v.entries : Matched(e, w)
  /\ \A e \in v.entries : e.healthy => e.digests \cap v.lost = {}

\* An entry is not the absence of one.
LEMMA EntryIsEntry ==
  ASSUME NEW a, NEW ip, NEW digests, NEW healthy, NEW valid, NEW revised, NEW window
  PROVE  Entry(a, ip, digests, healthy, valid, revised, window) # NoEntry
  <1> DEFINE e == Entry(a, ip, digests, healthy, valid, revised, window)
  <1>1. "rule" \in DOMAIN e
    BY DEF Entry
  <1>2. "rule" \notin DOMAIN NoEntry
    BY DEF NoEntry
  <1>3. ASSUME e = NoEntry PROVE FALSE
    <2> HIDE DEF e
    <2> QED BY <1>1, <1>2, <1>3
  <1> QED BY <1>3

\* Entries that differ in nothing but their health.
LEMMA EntriesMatch ==
  ASSUME NEW a, NEW ip, NEW digests, NEW valid, NEW revised, NEW window,
         NEW P \in BOOLEAN, NEW Q \in BOOLEAN, Q
  PROVE  Matched(Entry(a, ip, digests, P, valid, revised, window),
                 Entry(a, ip, digests, Q, valid, revised, window))
  <1>1. Entry(a, ip, digests, P, valid, revised, window).healthy = P
    BY DEF Entry
  <1>2. KeyOf(Entry(a, ip, digests, P, valid, revised, window))
          = KeyOf(Entry(a, ip, digests, Q, valid, revised, window))
    BY DEF Entry, KeyOf
  <1>3. P => P = Q
    OBVIOUS
  <1> QED BY <1>1, <1>2, <1>3 DEF Matched

\* The views of rechecks are sound.
LEMMA FreshSound ==
  ASSUME RecheckInv, NEW k \in DOMAIN reports, NEW known
  PROVE  Sound(View(RecheckSide(k, known), RecheckSide(k, {})))
  <1> DEFINE side == RecheckSide(k, known)
             whole == RecheckSide(k, {})
             v == View(side, whole)
             acquisitions == reports[k].acquisitions
             position(a) == CHOOSE i \in DOMAIN acquisitions : acquisitions[i].resource = a.resource
             evidenceOf(a) == acquisitions[position(a)].evidence
             addressOf(a) == acquisitions[position(a)].address
             digests(a) == IF evidenceOf(a) = Nothing THEN {} ELSE {evidenceOf(a)}
             valid(a) == FreshContextValid(a, acquisitions[position(a)])
             window(a) == IF acquisitions[position(a)].finished = Nothing THEN Nothing
                          ELSE [from |-> acquisitions[position(a)].started,
                                to |-> acquisitions[position(a)].finished]
             entry(a, P) == Entry(a, addressOf(a), digests(a), P, valid(a), TRUE, window(a))
             healthy(a, s) == evidenceOf(a) = Nothing \/ s.health[position(a)] = "ready"
  <1>1. /\ side.basis = "fresh_recheck" /\ side.report = reports[k]
        /\ whole.basis = "fresh_recheck" /\ whole.report = reports[k]
        /\ \A i \in DOMAIN acquisitions : whole.health[i] = "ready"
    BY DEF RecheckSide, FreshSide, HealthOf
  <1>2. \A a : /\ FreshEntry(a, side) = entry(a, healthy(a, side))
               /\ FreshEntry(a, whole) = entry(a, healthy(a, whole))
    BY <1>1 DEF FreshEntry
  <1>3. /\ Entries(origin, side) = {FreshEntry(a, side) : a \in reports[k].assessments}
        /\ Entries(origin, whole) = {FreshEntry(a, whole) : a \in reports[k].assessments}
    BY <1>1 DEF Entries
  <1>4. /\ v.entries = Entries(origin, side) /\ v.whole = Entries(origin, whole)
        /\ v.lost = Lost(side)
    BY DEF View
  <1>5. ASSUME NEW a \in reports[k].assessments PROVE position(a) \in DOMAIN acquisitions
    <2>1. PICK x, y : /\ acquisitions = <<x, y>>
                      /\ \E z \in {x, y} : a.resource = z.resource
      BY ReportConcludes DEF RecheckInv
    <2>2. DOMAIN <<x, y>> = {1, 2} /\ <<x, y>>[1] = x /\ <<x, y>>[2] = y
      OBVIOUS
    <2>3. \E i \in DOMAIN acquisitions : acquisitions[i].resource = a.resource
      BY <2>1, <2>2
    <2> HIDE DEF acquisitions
    <2> QED BY <2>3
  <1>6. \A a \in reports[k].assessments : healthy(a, whole)
    <2> HIDE DEF acquisitions, position
    <2> QED BY <1>1, <1>5
  <1>7. ASSUME NEW a \in reports[k].assessments, NEW b \in reports[k].assessments,
               a.rule = b.rule
        PROVE  a = b
    <2>1. PICK x, y : reports[k].assessments =
                        {AssessExposure(DIRECTORY_RULE, x), AssessExposure(GIT_CONFIG_RULE, y),
                         AssessHsts(origin, x)}
      BY DEF RecheckInv, Reported, Founded
    <2>2. \A rule, z : AssessExposure(rule, z).rule = rule
      BY DEF AssessExposure, Result, Inconclusive
    <2>3. \A o, z : AssessHsts(o, z).rule = HSTS_RULE
      BY DEF AssessHsts, Result, Inconclusive
    <2> QED BY <1>7, <2>1, <2>2, <2>3 DEF DIRECTORY_RULE, GIT_CONFIG_RULE, HSTS_RULE
  <1>8. \A a, P : entry(a, P) # NoEntry /\ entry(a, P).rule = a.rule
    <2>1. \A a, P : entry(a, P).rule = a.rule
      BY DEF Entry
    <2>2. ASSUME NEW a, NEW P PROVE entry(a, P) # NoEntry
      <3>1. "rule" \in DOMAIN entry(a, P)
        BY DEF Entry
      <3>2. "rule" \notin DOMAIN NoEntry
        BY DEF NoEntry
      <3>3. ASSUME entry(a, P) = NoEntry PROVE FALSE
        <4> HIDE DEF entry
        <4> QED BY <3>1, <3>2, <3>3
      <3> QED BY <3>3
    <2> HIDE DEF entry
    <2> QED BY <2>1, <2>2
  <1>9. \A a, P : entry(a, P).digests = digests(a) /\ entry(a, P).healthy = P
    BY DEF Entry
  <1>10. ASSUME NEW a \in reports[k].assessments
         PROVE  Matched(FreshEntry(a, side), FreshEntry(a, whole))
    <2>1. healthy(a, side) \in BOOLEAN /\ healthy(a, whole) \in BOOLEAN
      OBVIOUS
    <2>2. healthy(a, whole)
      BY <1>6
    <2> HIDE DEF healthy, addressOf, digests, valid, window, side, whole
    <2>3. Matched(entry(a, healthy(a, side)), entry(a, healthy(a, whole)))
      BY <2>1, <2>2, EntriesMatch
    <2> HIDE DEF entry
    <2> QED BY <1>2, <2>3
  <1>11. ASSUME NEW a \in reports[k].assessments, healthy(a, side), evidenceOf(a) # Nothing
         PROVE  evidenceOf(a) \notin Lost(side)
    <2> DEFINE copy == [digest |-> evidenceOf(a), health |-> side.health[position(a)]]
    <2>1. copy \in Copies(side)
      <3> HIDE DEF side, position
      <3> QED BY <1>1, <1>5 DEF Copies
    <2>2. copy.digest = evidenceOf(a) /\ copy.health = "ready"
      BY <1>11
    <2> HIDE DEF copy, side, evidenceOf
    <2> QED BY <2>1, <2>2 DEF Lost
  <1> HIDE DEF side, whole, v, entry, healthy, evidenceOf, addressOf, valid, window
  <1>12. NoEntry \notin v.entries \cup v.whole
    BY <1>2, <1>3, <1>4, <1>8
  <1>13. \A e, f \in v.entries : KeyOf(e) = KeyOf(f) => e = f
    <2>1. \A e, f : KeyOf(e) = KeyOf(f) => e.rule = f.rule
      BY DEF KeyOf
    <2>2. \A a : FreshEntry(a, side).rule = a.rule
      BY <1>2, <1>8
    <2> QED BY <1>3, <1>4, <1>7, <2>1, <2>2
  <1>14. /\ \A e \in v.entries : \E w \in v.whole : Matched(e, w)
         /\ \A w \in v.whole : \E e \in v.entries : Matched(e, w)
    BY <1>3, <1>4, <1>10
  <1>15. ASSUME NEW e \in v.entries, e.healthy PROVE e.digests \cap v.lost = {}
    <2>1. PICK a \in reports[k].assessments : e = entry(a, healthy(a, side))
      BY <1>2, <1>3, <1>4
    <2>2. healthy(a, side) /\ e.digests = digests(a)
      <3> HIDE DEF digests
      <3> QED BY <1>9, <1>15, <2>1
    <2>3. digests(a) \cap Lost(side) = {}
      BY <1>11, <2>2
    <2> QED BY <1>4, <2>2, <2>3
  <1> QED BY <1>12, <1>13, <1>14, <1>15 DEF Sound, v, side, whole

\* The views of stored runs are sound.
LEMMA CaptureSound ==
  ASSUME NEW S, Named(S), NEW known
  PROVE  Sound(View(StoredSide(S, known), StoredSide(S, {})))
  <1> DEFINE side == StoredSide(S, known)
             whole == StoredSide(S, {})
             v == View(side, whole)
             claims == AssessCorrelation(origin, S)
             usesAt(a, ip) == {use \in a.uses : AddressOf(S, use) = ip}
             windowsAt(a, ip) == {WindowOf(S, use) : use \in usesAt(a, ip)}
             entry(a, ip, P) ==
               Entry(a, ip, {use.run.digest : use \in usesAt(a, ip)}, P, KnownRule(a),
                     \A use \in usesAt(a, ip) : use.revised,
                     IF Nothing \in windowsAt(a, ip) THEN Nothing
                     ELSE [from |-> SmallestOf({w.from : w \in windowsAt(a, ip)}),
                           to |-> LargestOf({w.to : w \in windowsAt(a, ip)})])
             healthy(a, ip, s) == Healthy(usesAt(a, ip), s.health)
             addresses(a) == {AddressOf(S, use) : use \in a.uses}
  <1>1. /\ side.basis # "fresh_recheck" /\ side.runs = S
        /\ whole.basis # "fresh_recheck" /\ whole.runs = S
        /\ \A r \in S : whole.health[r.id] = "ready"
    BY DEF StoredSide, CaptureSide, HealthOf
  <1>2. \A a, ip : /\ CaptureEntry(a, ip, side) = entry(a, ip, healthy(a, ip, side))
                   /\ CaptureEntry(a, ip, whole) = entry(a, ip, healthy(a, ip, whole))
    BY DEF CaptureEntry, StoredSide, CaptureSide
  <1>3. /\ Entries(origin, side) =
             UNION {{CaptureEntry(a, ip, side) : ip \in addresses(a)} : a \in claims}
        /\ Entries(origin, whole) =
             UNION {{CaptureEntry(a, ip, whole) : ip \in addresses(a)} : a \in claims}
    BY <1>1 DEF Entries
  <1>4. /\ v.entries = Entries(origin, side) /\ v.whole = Entries(origin, whole)
        /\ v.lost = Lost(side)
    BY DEF View
  <1>5. /\ \A e \in v.entries : \E a \in claims : \E ip \in addresses(a) :
             e = entry(a, ip, healthy(a, ip, side))
        /\ \A w \in v.whole : \E a \in claims : \E ip \in addresses(a) :
             w = entry(a, ip, healthy(a, ip, whole))
        /\ \A a \in claims : \A ip \in addresses(a) :
             /\ entry(a, ip, healthy(a, ip, side)) \in v.entries
             /\ entry(a, ip, healthy(a, ip, whole)) \in v.whole
    <2> HIDE DEF side, whole, v, entry, healthy, claims, addresses
    <2> QED BY <1>2, <1>3, <1>4
  <1>6. \A a \in claims : \A use \in a.uses : use.run \in S
    BY UsesSelected
  <1>7. ASSUME NEW a \in claims, NEW ip PROVE healthy(a, ip, whole)
    <2>1. \A use \in usesAt(a, ip) : whole.health[use.run.id] = "ready"
      <3> HIDE DEF whole
      <3> QED BY <1>1, <1>6
    <2> HIDE DEF usesAt, whole
    <2> QED BY <2>1 DEF Healthy
  <1>8. ASSUME NEW a \in claims, NEW ip, healthy(a, ip, side), NEW use \in usesAt(a, ip)
        PROVE  use.run.digest \notin Lost(side)
    <2>1. PICK other \in usesAt(a, ip) : /\ other.run.digest = use.run.digest
                                         /\ side.health[other.run.id] = "ready"
      <3> HIDE DEF usesAt, side
      <3> QED BY <1>8 DEF Healthy
    <2> DEFINE copy == [digest |-> other.run.digest, health |-> side.health[other.run.id]]
    <2>2. copy \in Copies(side)
      <3>1. other.run \in S
        BY <1>6
      <3> HIDE DEF side, usesAt
      <3> QED BY <1>1, <3>1 DEF Copies
    <2>3. copy.digest = use.run.digest /\ copy.health = "ready"
      BY <2>1
    <2> HIDE DEF copy, side
    <2> QED BY <2>2, <2>3 DEF Lost
  <1>9. \A a, ip, P : /\ entry(a, ip, P).rule = a.rule /\ entry(a, ip, P).resource = a.resource
                      /\ entry(a, ip, P).address = ip /\ entry(a, ip, P).healthy = P
                      /\ entry(a, ip, P).digests = {use.run.digest : use \in usesAt(a, ip)}
    BY DEF Entry
  <1>10. \A a, ip, P : entry(a, ip, P) # NoEntry
    BY EntryIsEntry
  <1>11. ASSUME NEW a \in claims, NEW ip
         PROVE  Matched(entry(a, ip, healthy(a, ip, side)), entry(a, ip, healthy(a, ip, whole)))
    <2>1. healthy(a, ip, side) \in BOOLEAN /\ healthy(a, ip, whole) \in BOOLEAN
      BY DEF Healthy
    <2> HIDE DEF healthy, usesAt, windowsAt, side, whole
    <2> QED BY <1>7, <2>1, EntriesMatch
  <1> HIDE DEF side, whole, v, entry, healthy, claims, addresses
  <1>12. NoEntry \notin v.entries \cup v.whole
    BY <1>5, <1>10
  <1>13. \A e, f \in v.entries : KeyOf(e) = KeyOf(f) => e = f
    <2> SUFFICES ASSUME NEW e \in v.entries, NEW f \in v.entries, KeyOf(e) = KeyOf(f)
                 PROVE  e = f
      OBVIOUS
    <2>1. e.rule = f.rule /\ e.resource = f.resource /\ e.address = f.address
      BY DEF KeyOf
    <2>2. PICK a \in claims : \E ip \in addresses(a) : e = entry(a, ip, healthy(a, ip, side))
      BY <1>5
    <2>3. PICK b \in claims : \E ip \in addresses(b) : f = entry(b, ip, healthy(b, ip, side))
      BY <1>5
    <2>4. a = b
      <3>1. a.rule = b.rule /\ a.resource = b.resource
        BY <1>9, <2>1, <2>2, <2>3
      <3> QED BY <3>1, OneAssessment DEF claims
    <2> QED BY <1>9, <2>1, <2>2, <2>3, <2>4
  <1>14. /\ \A e \in v.entries : \E w \in v.whole : Matched(e, w)
         /\ \A w \in v.whole : \E e \in v.entries : Matched(e, w)
    BY <1>5, <1>11
  <1>15. ASSUME NEW e \in v.entries, e.healthy PROVE e.digests \cap v.lost = {}
    <2>1. PICK a \in claims : \E ip : e = entry(a, ip, healthy(a, ip, side))
      BY <1>5
    <2>2. PICK ip : e = entry(a, ip, healthy(a, ip, side))
      BY <2>1
    <2>3. healthy(a, ip, side) /\ e.digests = {use.run.digest : use \in usesAt(a, ip)}
      BY <1>9, <1>15, <2>2
    <2> QED BY <1>4, <1>8, <2>3
  <1> QED BY <1>12, <1>13, <1>14, <1>15 DEF Sound, v, side, whole

\* What a sound view says at a key: nothing with and without damage, or an entry and its
\* whole counterpart.
LEMMA SoundAt ==
  ASSUME NEW v, Sound(v), NEW key
  PROVE  LET e == EntryAt(v.entries, key)
             w == EntryAt(v.whole, key)
         IN \/ e = NoEntry /\ w = NoEntry
            \/ /\ e \in v.entries /\ e # NoEntry
               /\ e.healthy => w = e /\ e.digests \cap v.lost = {}
  <1> DEFINE e == EntryAt(v.entries, key)
             w == EntryAt(v.whole, key)
  <1>1. CASE \E f \in v.entries : KeyOf(f) = key
    <2>1. e \in v.entries /\ KeyOf(e) = key
      BY <1>1 DEF EntryAt
    <2>2. \E u \in v.whole : KeyOf(u) = key
      BY <2>1 DEF Sound, Matched
    <2>3. w \in v.whole /\ KeyOf(w) = key
      BY <2>2 DEF EntryAt
    <2> HIDE DEF e, w
    <2>4. PICK f \in v.entries : Matched(f, w)
      BY <2>3 DEF Sound
    <2>5. f = e
      BY <2>1, <2>3, <2>4 DEF Sound, Matched
    <2>6. e # NoEntry /\ (e.healthy => w = e /\ e.digests \cap v.lost = {})
      BY <2>1, <2>4, <2>5 DEF Sound, Matched
    <2> QED BY <2>1, <2>6 DEF e, w
  <1>2. CASE ~\E f \in v.entries : KeyOf(f) = key
    <2>1. ~\E u \in v.whole : KeyOf(u) = key
      BY <1>2 DEF Sound, Matched
    <2> QED BY <1>2, <2>1 DEF EntryAt
  <1> QED BY <1>1, <1>2

\* Every view is sound.
LEMMA ViewsSound ==
  ASSUME RecheckInv, Named(runs), NEW v \in Views
  PROVE  Sound(v)
  <1>1. CASE \E known : \E k \in DOMAIN reports :
               v = View(RecheckSide(k, known), RecheckSide(k, {}))
    BY <1>1, FreshSound
  <1>2. CASE \E known : \E S \in Selections : v = View(StoredSide(S, known), StoredSide(S, {}))
    <2>1. PICK known : \E S \in Selections : v = View(StoredSide(S, known), StoredSide(S, {}))
      BY <1>2
    <2>2. PICK S \in Selections : v = View(StoredSide(S, known), StoredSide(S, {}))
      BY <2>1
    <2>3. Named(S)
      BY DEF Named, Selections
    <2> QED BY <2>2, <2>3, CaptureSound
  <1> QED BY <1>1, <1>2 DEF Views

\* Damage withdraws conclusions and makes none: whatever is said but "unknown" rests on bytes
\* that were readable when their side was loaded (compare.py, _evidence_health and _result;
\* service.py, _load_side), and is what the same selections would say if nothing was damaged,
\* for all sites, scans, imports, selections and any number of damaged files.
THEOREM DamageOnlyWithdraws == Spec => []DamageWithdraws
  <1>1. Init => Named(runs)
    BY DEF Init, Named
  <1>2. RecheckInv /\ Named(runs) /\ [Next]_vars => Named(runs)'
    BY NamedStep
  <1>3. ASSUME NEW b, NEW c, NEW ip, StateOf(b, c, ip).state # "unknown"
        PROVE  (b # NoEntry => b.healthy) /\ (c # NoEntry => c.healthy)
    <2>1. \A state, reason : State(state, reason).state = state
      BY DEF State
    <2> QED BY <1>3, <2>1 DEF StateOf
  <1>4. ASSUME NEW b, NEW c, Sound(b), Sound(c), NEW r \in Compare(b.entries, c.entries),
               r.is.state # "unknown"
        PROVE  /\ r.baseline # NoEntry => r.baseline.digests \cap b.lost = {}
               /\ r.current # NoEntry => r.current.digests \cap c.lost = {}
               /\ r.is = StateOf(EntryAt(b.whole, r.key), EntryAt(c.whole, r.key), r.key.address)
    <2>1. PICK key : r = [key |-> key, baseline |-> EntryAt(b.entries, key),
                          current |-> EntryAt(c.entries, key),
                          is |-> StateOf(EntryAt(b.entries, key), EntryAt(c.entries, key),
                                         key.address)]
      BY DEF Compare
    <2>2. /\ r.key = key /\ r.is = StateOf(r.baseline, r.current, key.address)
          /\ r.baseline = EntryAt(b.entries, key) /\ r.current = EntryAt(c.entries, key)
      BY <2>1
    <2>3. /\ r.baseline # NoEntry => r.baseline.healthy
          /\ r.current # NoEntry => r.current.healthy
      BY <1>3, <1>4, <2>2
    <2>4. /\ r.baseline # NoEntry => r.baseline.digests \cap b.lost = {}
          /\ r.baseline = EntryAt(b.whole, key)
      BY <1>4, <2>2, <2>3, SoundAt
    <2>5. /\ r.current # NoEntry => r.current.digests \cap c.lost = {}
          /\ r.current = EntryAt(c.whole, key)
      BY <1>4, <2>2, <2>3, SoundAt
    <2> QED BY <2>2, <2>4, <2>5
  <1>5. RecheckInv /\ Named(runs) => DamageWithdraws
    <2> SUFFICES ASSUME RecheckInv, Named(runs) PROVE DamageWithdraws
      OBVIOUS
    <2>1. \A v \in Views : Sound(v)
      BY ViewsSound
    <2> QED BY <1>4, <2>1 DEF DamageWithdraws
  <1> QED BY <1>1, <1>2, <1>5, RecheckInvariant, PTL DEF Spec

-----------------------------------------------------------------------------
(* Typing.                                                                 *)

\* What the other invariants leave open: no fetch exceeds the limit of a response, only what
\* exists is damaged, and operations are not overspent.
Ranged ==
  /\ index \in 1..3 /\ fetch.got <= ResponseLimit
  /\ pc \in {"idle", "abort"} => exchanges = <<>>
  /\ left \in [Operations -> Nat]
  /\ damaged \subseteq Files

\* One read keeps what fits into the limit.
LEMMA ReadsFit ==
  ASSUME RecheckInv, fetch.got <= ResponseLimit, RecheckStep \/ RecheckFault
  PROVE  fetch'.got <= ResponseLimit
  <1>1. /\ DOMAIN fetch = {"started", "wire", "got", "status"}
        /\ {fetch.got, ResponseLimit} \subseteq Nat
    BY Numbers DEF RecheckInv, Fetched
  <1>2. NoFetch.got <= ResponseLimit /\ \A t : [NoFetch EXCEPT !.started = t].got <= ResponseLimit
    BY Numbers DEF NoFetch
  <1>3. ASSUME NEW status, NEW got, got <= ResponseLimit, pc \in {"connect", "read"},
               EndFetch(status, got)
        PROVE  fetch'.got <= ResponseLimit
    BY <1>1, <1>3 DEF EndFetch
  <1>4. CASE Receive
    <2>1. pc = "read" /\ fetch.got \in Nat /\ Sent \in Nat
      BY <1>4, ReceiveCases DEF RecheckInv
    <2>2. PICK n \in 1..Min2(MaxRead, Sent - fetch.got) :
            IF n > ResponseLimit - fetch.got THEN EndFetch("truncated", ResponseLimit)
            ELSE \/ \E status : EndFetch(status, fetch.got + n)
                 \/ fetch' = [fetch EXCEPT !.got = @ + n]
      BY <1>4 DEF Receive
    <2>3. n \in Nat
      BY <2>1, <2>2, Numbers DEF Min2
    <2>4. CASE n > ResponseLimit - fetch.got
      BY <1>1, <1>3, <2>1, <2>2, <2>4
    <2>5. CASE ~(n > ResponseLimit - fetch.got)
      <3>1. fetch.got + n <= ResponseLimit
        BY <1>1, <2>3, <2>5
      <3>2. CASE fetch' = [fetch EXCEPT !.got = @ + n]
        BY <1>1, <3>1, <3>2
      <3> QED BY <1>3, <2>1, <2>2, <2>5, <3>1, <3>2
    <2> QED BY <2>4, <2>5
  <1>5. CASE TimesOut \/ TransportError \/ EndOfStream
    BY <1>1, <1>3, <1>5 DEF TimesOut, TransportError, EndOfStream
  <1>6. CASE Ask
    BY <1>2, <1>6 DEF Ask, Skip
  <1>7. CASE Connect
    <2>1. \A w : [fetch EXCEPT !.wire = w].got = fetch.got
      BY <1>1
    <2> QED BY <1>7, <2>1 DEF Connect
  <1>8. CASE Pause \/ Wake \/ Close \/ Record \/ Report \/ CancelRecheck
    BY <1>2, <1>8 DEF Pause, Wake, Close, Record, Report, CancelRecheck, Skip
  <1> QED BY <1>4, <1>5, <1>6, <1>7, <1>8 DEF RecheckStep, RecheckFault

\* A step of the recheck stays within its two requests, and leaves nothing when it ends.
LEMMA RequestsStay ==
  ASSUME RecheckInv, index \in 1..3, pc = "abort" => exchanges = <<>>,
         RecheckStep \/ RecheckFault
  PROVE  index' \in 1..3 /\ (pc' \in {"idle", "abort"} => exchanges' = <<>>)
  <1>0. pc \in Positions \cup {"pause", "sleep"} => index \in {1, 2}
    BY DEF RecheckInv, Collected
  <1>1. ASSUME NEW status, NEW got, pc \in {"connect", "read"}, EndFetch(status, got)
        PROVE  index' = index /\ pc' \notin {"idle", "abort"}
    BY <1>1, EndFetchFrame
  <1>2. CASE Pause \/ Ask
    BY <1>0, <1>2 DEF Pause, Ask, Skip, Positions, Fetching
  <1>3. CASE Wake \/ Connect \/ Close
    BY <1>3 DEF Wake, Connect, Close
  <1>4. CASE Record
    BY <1>0, <1>4 DEF Record, Positions, Fetching
  <1>5. CASE Report \/ CancelRecheck
    BY <1>5 DEF Report, CancelRecheck
  <1>6. CASE TimesOut \/ TransportError \/ EndOfStream
    <2>1. PICK status, got : EndFetch(status, got) /\ pc \in {"connect", "read"}
      BY <1>6 DEF TimesOut, TransportError, EndOfStream
    <2>2. index' = index /\ pc' \notin {"idle", "abort"}
      BY <1>1, <2>1
    <2> QED BY <2>2
  <1>7. CASE Receive
    <2>1. pc = "read" /\ ((\E status, got : EndFetch(status, got)) \/ UNCHANGED <<pc, index>>)
      BY <1>7 DEF Receive
    <2> QED BY <1>1, <2>1
  <1> QED BY <1>2, <1>3, <1>4, <1>5, <1>6, <1>7 DEF RecheckStep, RecheckFault

\* Reports are kept, so that their files stay.
LEMMA ReportsKept ==
  ASSUME RecheckInv, [Next]_vars
  PROVE  \A k \in DOMAIN reports : k \in DOMAIN reports' /\ reports'[k] = reports[k]
  <1>1. CASE Report
    <2>1. PICK S : reports \in Seq(S)
      BY DEF RecheckInv, Reported
    <2>2. PICK r : reports' = Append(reports, r)
      BY <1>1 DEF Report
    <2>3. reports \in Seq(S \cup {r})
      BY <2>1, SeqMonotonic
    <2>4. /\ reports' \in Seq(S \cup {r}) /\ Len(reports') = Len(reports) + 1
          /\ \A i \in 1..Len(reports) : reports'[i] = reports[i]
      BY <2>2, <2>3, AppendProperties
    <2>5. /\ Len(reports) \in Nat
          /\ DOMAIN reports = 1..Len(reports) /\ DOMAIN reports' = 1..Len(reports')
      BY <2>3, <2>4, LenProperties
    <2> QED BY <2>4, <2>5
  <1>2. CASE ~Report
    <2>1. (RecheckStep \/ RecheckFault) /\ ~Report => reports' = reports
      BY DEF RecheckStep, RecheckFault, Pause, Wake, Ask, Connect, TimesOut, Receive, Close,
             Record, TransportError, EndOfStream, CancelRecheck, EndFetch, Unchanging
    <2>2. reports' = reports
      BY <1>2, <2>1, StepCases DEF RecheckInv
    <2> QED BY <2>2
  <1> QED BY <1>1, <1>2

\* Files are not forgotten, damaged or not.
LEMMA FilesStay ==
  ASSUME RecheckInv, [Next]_vars
  PROVE  Files \subseteq Files'
  <1>1. runs \subseteq runs'
    <2>1. EndScan \/ Import => runs \subseteq runs'
      BY DEF EndScan, Import
    <2>2. BeginScan \/ Probe => runs' = runs
      BY DEF BeginScan, Probe
    <2> QED BY <2>1, <2>2, WhoAsks
  <1>2. \A k \in DOMAIN reports : k \in DOMAIN reports' /\ FilesOfReport(k) = FilesOfReport(k)'
    BY ReportsKept DEF FilesOfReport
  <1> QED BY <1>1, <1>2 DEF Files

\* Every step keeps the ranges.
LEMMA RangedStep ==
  ASSUME RecheckInv, Ranged, [Next]_vars
  PROVE  Ranged'
  <1>1. /\ index' \in 1..3 /\ (pc' \in {"idle", "abort"} => exchanges' = <<>>)
        /\ fetch'.got <= ResponseLimit
    <2>1. CASE Elsewhere
      BY <2>1 DEF Elsewhere, Ranged, recheckVars, BeginRecheck
    <2>2. CASE RecheckStep \/ RecheckFault
      BY <2>2, ReadsFit, RequestsStay DEF Ranged
    <2> QED BY <2>1, <2>2, StepCases DEF RecheckInv
  <1>2. left' \in [Operations -> Nat]
    <2>1. ASSUME NEW o \in Operations, Spend(o) PROVE left' \in [Operations -> Nat]
      BY <2>1 DEF Spend, Ranged
    <2>2. left' = left \/ \E o \in Operations : Spend(o)
      BY DEF Next, Recheck, Fail, Pass, StartRecheck, Wait, ChangeSite, BeginScan, Probe, EndScan,
             Import, DamageFile, vars, Operations
    <2> QED BY <2>1, <2>2 DEF Ranged
  <1>3. damaged' \subseteq Files'
    <2>1. damaged' = damaged \/ \E f \in Files : damaged' = damaged \cup {f}
      BY DEF Next, Recheck, Fail, Pass, StartRecheck, Wait, ChangeSite, BeginScan, Probe, EndScan,
             Import, DamageFile, vars, evidence
    <2>2. damaged' \subseteq Files
      BY <2>1 DEF Ranged
    <2> QED BY <2>2, FilesStay
  <1> QED BY <1>1, <1>2, <1>3 DEF Ranged

\* Variables keep their kinds: a fetch stays within the limit of the response, answers, runs
\* and acquisitions are of the past, and only files that exist are damaged.
THEOREM EvidenceTypeCorrect == Spec => []TypeOK
  <1>1. Init => Ranged
    <2> SUFFICES ASSUME Init PROVE Ranged
      OBVIOUS
    <2>1. index = 1 /\ fetch.got = 0 /\ exchanges = <<>> /\ damaged = {}
      BY DEF Init, RecheckInit, NoFetch
    <2>2. left \in [Operations -> Nat]
      BY OperationsAssumption DEF Init
    <2> QED BY <2>1, <2>2, Numbers DEF Ranged
  <1>2. RecheckInv /\ Ranged /\ [Next]_vars => Ranged'
    BY RangedStep
  <1>3. ASSUME RecheckInv, HistoryInv, ServedBefore, Ranged PROVE TypeOK
    <2>1. now \in Nat /\ pc \in RecheckPcs /\ index \in 1..3 /\ scene \in Scenes
      BY <1>3 DEF RecheckInv, Timely, Fetched, Ranged, SitesAnswer
    <2>2. fetch.got \in 0..ResponseLimit /\ fetch.status \in Statuses
      BY <1>3, Numbers DEF RecheckInv, Fetched, Ranged
    <2>3. \A i \in DOMAIN exchanges : exchanges[i].resource = ResourceAt[i]
      <3>1. CASE exchanges = <<>>
        BY <3>1
      <3>2. ASSUME NEW x, exchanges = <<x>>, Acquired(x, 1)
            PROVE  \A i \in DOMAIN exchanges : exchanges[i].resource = ResourceAt[i]
        BY <3>2 DEF Acquired
      <3>3. ASSUME NEW x, NEW y, exchanges = <<x, y>>, Acquired(x, 1), Acquired(y, 2)
            PROVE  \A i \in DOMAIN exchanges : exchanges[i].resource = ResourceAt[i]
        <4>1. DOMAIN exchanges = {1, 2} /\ exchanges[1] = x /\ exchanges[2] = y
          BY <3>3
        <4> QED BY <3>3, <4>1 DEF Acquired
      <3>4. CASE pc \in {"idle", "abort"}
        BY <1>3, <3>1, <3>4 DEF Ranged
      <3>5. CASE pc = "report"
        BY <1>3, <3>3, <3>5 DEF RecheckInv, Collected
      <3>6. CASE pc \in Positions \cup {"pause", "sleep"}
        BY <1>3, <3>1, <3>2, <3>6 DEF RecheckInv, Collected, Positions, Fetching
      <3> QED BY <2>1, <3>4, <3>5, <3>6 DEF RecheckPcs, Positions, Fetching
    <2>4. \A r \in runs : r.created <= r.finished /\ r.finished <= now
      BY <1>3 DEF HistoryInv, RunsFounded, RunDated
    <2> QED BY <1>3, <2>1, <2>2, <2>3, <2>4 DEF TypeOK, ServedBefore, Ranged
  <1> QED BY <1>1, <1>2, <1>3, HistoryHolds, PTL DEF Spec
==============================================================================
