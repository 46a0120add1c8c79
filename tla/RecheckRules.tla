----------------------------- MODULE RecheckRules -----------------------------
(***************************************************************************)
(* How the bytes of one response become an assessment: the parser of       *)
(* assessment/recheck.py and the rules of assessment/rules.py.             *)
(*                                                                         *)
(* A response is measured in parts.  Its header block takes the first      *)
(* "head" of them, the parts of its body follow; a part of the body is the *)
(* set of the marks the rules look for that are whole with this part.  Two *)
(* marks belong to the chunked framing: "end", the last chunk, and         *)
(* "broken", bytes that are no chunk.                                      *)
(***************************************************************************)
EXTENDS Integers, Sequences

CONSTANTS
  HeaderLimit,    \* _HEADER_LIMIT, in parts
  ResponseLimit,  \* max_artifact_bytes, in parts
  Nothing         \* no response, no file, no time, no address

ASSUME ResponseLimitAssumption == {HeaderLimit, ResponseLimit} \subseteq Nat \ {0}

DIRECTORY_RULE == "directory-listing"
GIT_CONFIG_RULE == "git-config-exposure"
HSTS_RULE == "hsts-header-missing"
Rules == {DIRECTORY_RULE, GIT_CONFIG_RULE, HSTS_RULE}

Resources == {"/", "/.git/config"}
ResourceOf(rule) == IF rule = GIT_CONFIG_RULE THEN "/.git/config" ELSE "/"

Marks == {"title", "href", "core", "version", "notice", "end", "broken"}
MarksOf(parts) == UNION {parts[i] : i \in DOMAIN parts}

\* Responses on the wire: the size of the header block and whether it is well formed, what
\* the headers say, the parts of the body as sent and how many of them were promised.
Responses ==
  [head : Nat \ {0}, sound : BOOLEAN, status : Nat,
   framing : {"length", "chunked", "none", "refused"}, promised : Nat, parts : Seq(SUBSET Marks),
   hsts : BOOLEAN, challenge : BOOLEAN, identity : BOOLEAN]

ASSUME NothingAssumption == Nothing \notin [of : Responses, size : Nat]

-----------------------------------------------------------------------------
(* The parser.                                                             *)

BodyOf(wire, got) == SubSeq(wire.parts, 1, got - wire.head)

\* _parse_headers: a block that is too long is malformed even before it is whole.
HeaderState(wire, got) ==
  CASE got < wire.head /\ got < HeaderLimit -> "incomplete"
    [] got < wire.head /\ got >= HeaderLimit -> "malformed"
    [] got >= wire.head ->
         IF wire.head > HeaderLimit \/ ~wire.sound THEN "malformed" ELSE "parsed"

\* _decode_chunked, with the test that nothing follows the last chunk.
ChunkedState(body) ==
  IF "broken" \in MarksOf(body) \/ \E i \in 1..Len(body) - 1 : "end" \in body[i]
    THEN "malformed"
  ELSE IF "end" \in MarksOf(body) THEN "complete" ELSE "incomplete"

LengthState(wire, body) ==
  CASE Len(body) > wire.promised -> "malformed"
    [] Len(body) = wire.promised -> "complete"
    [] Len(body) < wire.promised -> "incomplete"

\* Mutant of UndeclaredState: the end of the connection is the end of the body.
UndeclaredUntilClosed(wire, body, eof) == IF eof THEN "complete" ELSE "incomplete"

\* Framing nobody declared: only a status without a body is ever complete.
UndeclaredState(wire, body, eof) ==
  IF wire.status \in {204, 304} \cup 100..199 THEN IF body = <<>> THEN "complete" ELSE "malformed"
  ELSE IF eof THEN "malformed" ELSE "incomplete"

\* _parse_response.  "refused" framing is a Content-Range, both framings at once, a repeated
\* length or an unknown coding.
Parse(wire, got, eof) ==
  LET body == BodyOf(wire, got) IN
  IF HeaderState(wire, got) # "parsed" THEN HeaderState(wire, got)
  ELSE CASE wire.framing = "refused" -> "malformed"
         [] wire.framing = "chunked" -> ChunkedState(body)
         [] wire.framing = "length" -> LengthState(wire, body)
         [] wire.framing = "none" -> UndeclaredState(wire, body, eof)

\* What CapturedResponse keeps of the headers, and the marks of the decoded body.
Captured(wire, got, whole) ==
  [status |-> wire.status, body_complete |-> whole, body |-> MarksOf(BodyOf(wire, got)),
   hsts |-> wire.hsts, challenge |-> wire.challenge, identity |-> wire.identity]

\* _incomplete_response: what the headers of a truncated response still say.
IncompleteResponse(wire, got) ==
  IF \/ HeaderState(wire, got) # "parsed" \/ Parse(wire, got, FALSE) = "malformed"
     \/ wire.framing \notin {"chunked", "length"}
    THEN Nothing
    ELSE Captured(wire, got, FALSE)

ResponseOf(wire, got, how) ==
  CASE how = "complete" -> Captured(wire, got, TRUE)
    [] how = "truncated" -> IncompleteResponse(wire, got)
    [] how \notin {"complete", "truncated"} -> Nothing

-----------------------------------------------------------------------------
(* The rules.  An exchange is an acquisition with the body of its response; *)
(* a fact is a key of a result's facts.                                    *)

FailureReason(status) ==
  CASE status = "timeout" -> "recheck_timed_out"
    [] status = "transport_error" -> "transport_failed"
    [] status = "malformed" -> "response_malformed"
    [] status = "truncated" -> "response_truncated"
    [] status = "not_run" -> "check_not_run"
    [] status = "complete" -> "response_unusable"

\* access_page: a title, a password field or a notice that speaks of access or blocking.
AccessPage(response) == "notice" \in response.body

Result(rule, outcome, reason, met, facts) ==
  [rule |-> rule, resource |-> ResourceOf(rule), outcome |-> outcome, reason |-> reason,
   met |-> met, facts |-> facts]

NoFacts == [key \in {} |-> FALSE]
Inconclusive(rule, reason, met) == Result(rule, "inconclusive", reason, met, NoFacts)

ExposureBlocked(response) ==
  \/ response.challenge \/ AccessPage(response)
  \/ response.status \in {401, 403, 407, 429} \/ response.status >= 500

MarkersOf(rule) ==
  IF rule = DIRECTORY_RULE THEN {"title", "href"} ELSE {"core", "version"}

\* The marks of a listing are one of two titles and a link; of a configuration, its section
\* and its version.
MarkersPresent(rule, response) ==
  response.status = 200 /\ MarkersOf(rule) \subseteq response.body

\* assess_exposure_recheck, for the acquisition of the resource of its rule.
AssessExposure(rule, acquisition) ==
  LET response == acquisition.response
      always == {"authorized_target", "intended_resource"}
      whole == always \cup {"complete_response"}
      matched == MarkersPresent(rule, response)
  IN
  IF acquisition.status # "complete" \/ response = Nothing
    THEN Inconclusive(rule, FailureReason(acquisition.status), always)
  ELSE IF response.status \in 300..399
    THEN Inconclusive(rule, "redirect_prevented_evaluation", whole)
  ELSE IF ExposureBlocked(response)
    THEN Inconclusive(rule, "response_blocked_or_ambiguous", whole)
  ELSE IF response.status \notin {200, 404, 410}
    THEN Inconclusive(rule, "response_status_ambiguous", whole)
  ELSE IF ~response.identity
    THEN Inconclusive(rule, "unsupported_content_encoding", whole)
  ELSE Result(rule, IF matched THEN "supported_positive" ELSE "supported_negative",
              IF matched THEN "reviewed_markers_present" ELSE "reviewed_condition_absent",
              whole, [status |-> response.status, markers |-> matched])

HstsUsable(acquisition) ==
  LET response == acquisition.response IN
  /\ acquisition.status \in {"complete", "truncated"} /\ response # Nothing
  /\ response.status = 200 /\ response.identity
  /\ ~response.challenge /\ ~AccessPage(response)

\* Why the response of the root cannot be used.
HstsFailure(acquisition) ==
  LET response == acquisition.response IN
  IF response # Nothing /\ response.status \in 300..399
    THEN "redirect_prevented_evaluation"
  ELSE IF response # Nothing
            /\ (response.challenge \/ AccessPage(response) \/ response.status >= 400)
    THEN "response_blocked_or_ambiguous"
  ELSE FailureReason(acquisition.status)

\* assess_hsts_recheck, for the acquisition of the root.  Only an HTTPS origin with a host
\* name can be assessed.
AssessHsts(origin, acquisition) ==
  LET response == acquisition.response
      met == {"intended_resource"}
               \cup (IF origin.https THEN {"https_origin"} ELSE {})
               \cup (IF origin.hostname THEN {"hostname_origin"} ELSE {})
               \cup (IF response # Nothing THEN {"complete_headers"} ELSE {})
               \cup (IF HstsUsable(acquisition) THEN {"usable_response"} ELSE {})
  IN
  IF ~origin.https \/ ~origin.hostname
    THEN Inconclusive(HSTS_RULE, "hsts_not_applicable", met)
  ELSE IF ~HstsUsable(acquisition)
    THEN Inconclusive(HSTS_RULE, HstsFailure(acquisition), met)
  ELSE Result(HSTS_RULE, IF response.hsts THEN "supported_negative" ELSE "supported_positive",
              IF response.hsts THEN "hsts_header_present" ELSE "hsts_header_absent",
              met, [status |-> response.status, present |-> response.hsts])
=============================================================================
