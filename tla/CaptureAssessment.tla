-------------------------- MODULE CaptureAssessment --------------------------
(***************************************************************************)
(* What stored scanner reports say of the claims about one origin:         *)
(* selecting and correlating runs (storage/correlation.py and              *)
(* analysis/correlation.py) and assessing what they observed               *)
(* (assessment/capture.py).                                                *)
(*                                                                         *)
(* A run is a record: its kind, its scanner, the approved addresses of its *)
(* web target, when its row was created and finished, the digest of its    *)
(* stdout, the matches of a nuclei report and the response records of an   *)
(* httpx report.                                                           *)
(***************************************************************************)
EXTENDS RecheckRules

\* The matches of one template at one resource, over all selected runs.
Findings(runs) == UNION {{[template |-> m.template, resource |-> m.resource] : m \in r.matches}
                         : r \in runs}

MatchesOf(r, f) == {m \in r.matches : m.template = f.template /\ m.resource = f.resource}

\* A template nobody reviewed has a rule of its own, named after it.
RuleOf(template) ==
  CASE template = "listing" -> DIRECTORY_RULE
    [] template = "git-config" -> GIT_CONFIG_RULE
    [] template \notin {"listing", "git-config"} -> template

\* A use names a run, one of its response records or none, and whether the matches it
\* stands for came from the reviewed revision of their template.
Use(r, record, revised) == [run |-> r, record |-> record, revised |-> revised]

Capture(rule, resource, outcome, reason, uses) ==
  [rule |-> rule, resource |-> resource, outcome |-> outcome, reason |-> reason, uses |-> uses]

\* A match counts for its rule when every occurrence came from the reviewed revision.
Revised(r, f) == \A m \in MatchesOf(r, f) : m.reviewed
Reviewed(runs, f) ==
  /\ RuleOf(f.template) \in Rules /\ f.resource = ResourceOf(RuleOf(f.template))
  /\ \A r \in runs : Revised(r, f)

AssessFinding(runs, f) ==
  LET matched == {r \in runs : MatchesOf(r, f) # {}} IN
  Capture(RuleOf(f.template), f.resource,
          IF Reviewed(runs, f) THEN "supported_positive" ELSE "inconclusive",
          IF Reviewed(runs, f) THEN "reviewed_scanner_match" ELSE "unreviewed_match_context",
          {Use(r, Nothing, Revised(r, f)) : r \in matched})

\* No match is no negative: the nuclei runs of the selection are its evidence all the same.
AssessMissing(runs) ==
  LET nuclei == {r \in runs : r.scanner = "nuclei"}
      assessed == {RuleOf(f.template) :
                     f \in {g \in Findings(runs) : g.resource = ResourceOf(RuleOf(g.template))}}
  IN
  IF nuclei = {} THEN {}
  ELSE {Capture(rule, ResourceOf(rule), "inconclusive", "no_supported_negative_evidence",
                {Use(r, Nothing, TRUE) : r \in nuclei})
        : rule \in {DIRECTORY_RULE, GIT_CONFIG_RULE} \ assessed}

\* A stored response that can vouch for its headers.
Qualifies(record) ==
  /\ record.probed /\ record.status = 200 /\ record.hsts
  /\ ~record.blocked /\ ~record.challenged /\ ~record.redirects

\* Headers that were seen support a negative; their absence from the output supports nothing.
AssessStoredHsts(origin, runs) ==
  LET uses == UNION {{Use(r, record, TRUE) : record \in r.records} : r \in runs} IN
  IF uses = {} THEN {}
  ELSE LET outcome == IF ~origin.https \/ ~origin.hostname THEN "hsts_not_applicable"
                      ELSE IF \A use \in uses : Qualifies(use.record)
                        THEN "hsts_header_observed" ELSE "header_capture_incomplete"
       IN
       {Capture(HSTS_RULE, "/", IF outcome = "hsts_header_observed" THEN "supported_negative"
                                ELSE "inconclusive", outcome, uses)}

AssessCorrelation(origin, runs) ==
  {AssessFinding(runs, f) : f \in Findings(runs)} \cup AssessMissing(runs)
    \cup AssessStoredHsts(origin, runs)

-----------------------------------------------------------------------------
(* Where a piece of captured evidence came from, as far as anybody knows.  *)

\* A peer belongs to one response; a failed probe to the address it was sent to; a match to
\* the address of a managed scan.
CaptureAddress(r, use) ==
  IF use.record # Nothing
    THEN IF use.record.peer # Nothing
           THEN IF use.record.peer \in r.addresses THEN use.record.peer ELSE Nothing
         ELSE IF ~use.record.probed /\ use.record.target \in r.addresses
           THEN use.record.target ELSE Nothing
  ELSE IF r.kind = "scan" /\ \E a \in r.addresses : r.addresses = {a}
    THEN CHOOSE a \in r.addresses : TRUE ELSE Nothing

\* The selected scans whose stdout an import repeats byte by byte.
Originals(runs, r) ==
  {o \in runs : /\ o.kind = "scan" /\ o.addresses = r.addresses
                /\ o.scanner = r.scanner /\ o.digest = r.digest}

OriginalAddresses(runs, use) == {CaptureAddress(o, use) : o \in Originals(runs, use.run)}

\* An import inherits the address and the window of its originals when they agree.
Inherits(runs, use) ==
  /\ use.run.kind = "import"
  /\ \E a \in OriginalAddresses(runs, use) \ {Nothing} : OriginalAddresses(runs, use) = {a}

AddressOf(runs, use) ==
  IF Inherits(runs, use) THEN CHOOSE a \in OriginalAddresses(runs, use) : TRUE
  ELSE CaptureAddress(use.run, use)

SmallestOf(S) == CHOOSE x \in S : \A y \in S : x <= y
LargestOf(S) == CHOOSE x \in S : \A y \in S : y <= x

\* Mutant of WindowOf: an import is dated by its own row.
WindowOfRow(runs, use) == [from |-> use.run.created, to |-> use.run.finished]

\* When the evidence was acquired; an import's own row only says when it was stored.
WindowOf(runs, use) ==
  IF use.run.kind = "scan" THEN [from |-> use.run.created, to |-> use.run.finished]
  ELSE IF Inherits(runs, use)
    THEN [from |-> SmallestOf({o.created : o \in Originals(runs, use.run)}),
          to |-> LargestOf({o.finished : o \in Originals(runs, use.run)})]
  ELSE Nothing
=============================================================================
