------------------------------ MODULE Comparison ------------------------------
(***************************************************************************)
(* compare_assessments (comparison/compare.py): what became of each claim  *)
(* at each address between a baseline and a current selection.  A side of  *)
(* it is a report of a recheck or a selection of stored runs, together     *)
(* with the health its files were found in.                                *)
(***************************************************************************)
EXTENDS CaptureAssessment

FreshSide(report, health) ==
  [basis |-> "fresh_recheck", report |-> report, runs |-> {}, health |-> health]
CaptureSide(runs, health) ==
  [basis |-> "existing_capture", report |-> Nothing, runs |-> runs, health |-> health]

-----------------------------------------------------------------------------
(* Fresh evidence.                                                         *)

RequiredOf(rule) ==
  IF rule = HSTS_RULE
    THEN {"https_origin", "hostname_origin", "intended_resource", "complete_headers",
          "usable_response"}
    ELSE {"authorized_target", "intended_resource", "complete_response"}

HstsEvidenceValid(assessment, acquisition) ==
  LET present == assessment.outcome = "supported_negative" IN
  /\ acquisition.status \in {"complete", "truncated"} /\ acquisition.response.status = 200
  /\ acquisition.response.hsts = present /\ assessment.facts.present = present

ExposureEvidenceValid(assessment, acquisition) ==
  LET positive == assessment.outcome = "supported_positive" IN
  /\ acquisition.status = "complete" /\ acquisition.response.body_complete
  /\ acquisition.response.status \in IF positive THEN {200} ELSE {200, 404, 410}
  /\ assessment.facts.markers = positive

\* _fresh_context_valid: whether a result may be what its rule made of this acquisition.
FreshContextValid(assessment, acquisition) ==
  /\ assessment.resource = acquisition.resource
  /\ IF assessment.outcome = "inconclusive"
       THEN /\ assessment.reason # "no_supported_negative_evidence"
            /\ assessment.reason = "check_not_run" => acquisition.status = "not_run"
       ELSE /\ acquisition.evidence # Nothing /\ acquisition.response # Nothing
            /\ ~acquisition.response.challenge /\ acquisition.response.identity
            /\ assessment.met = RequiredOf(assessment.rule)
            /\ assessment.facts.status = acquisition.response.status
            /\ IF assessment.rule = HSTS_RULE THEN HstsEvidenceValid(assessment, acquisition)
                                              ELSE ExposureEvidenceValid(assessment, acquisition)

\* What a side knows of a claim at an address.
Entry(a, address, digests, healthy, valid, revised, window) ==
  [rule |-> a.rule, resource |-> a.resource, address |-> address, outcome |-> a.outcome,
   reason |-> a.reason, digests |-> digests, healthy |-> healthy, valid |-> valid,
   revised |-> revised, window |-> window]

FreshEntry(assessment, side) ==
  LET i == CHOOSE i \in DOMAIN side.report.acquisitions :
             side.report.acquisitions[i].resource = assessment.resource
      acquisition == side.report.acquisitions[i]
      evidence == acquisition.evidence
  IN Entry(assessment, acquisition.address, IF evidence = Nothing THEN {} ELSE {evidence},
           evidence = Nothing \/ side.health[i] = "ready",
           FreshContextValid(assessment, acquisition), TRUE,
           IF acquisition.finished = Nothing THEN Nothing
           ELSE [from |-> acquisition.started, to |-> acquisition.finished])

-----------------------------------------------------------------------------
(* Captured evidence: the uses of an assessment are grouped by address.    *)

KnownRule(a) == a.rule \in Rules /\ a.resource = ResourceOf(a.rule)

\* Mutant of Healthy: one readable file suffices, whatever its digest.
HealthyAny(uses, health) == \E use \in uses : health[use.run.id] = "ready"

\* Of each digest one readable copy suffices.
Healthy(uses, health) ==
  \A use \in uses : \E copy \in uses :
    copy.run.digest = use.run.digest /\ health[copy.run.id] = "ready"

CaptureEntry(a, address, side) ==
  LET uses == {use \in a.uses : AddressOf(side.runs, use) = address}
      windows == {WindowOf(side.runs, use) : use \in uses}
  IN Entry(a, address, {use.run.digest : use \in uses}, Healthy(uses, side.health),
           KnownRule(a), \A use \in uses : use.revised,
           IF Nothing \in windows THEN Nothing
           ELSE [from |-> SmallestOf({w.from : w \in windows}),
                 to |-> LargestOf({w.to : w \in windows})])

\* _build_side.
Entries(origin, side) ==
  IF side.basis = "fresh_recheck"
    THEN {FreshEntry(a, side) : a \in side.report.assessments}
    ELSE UNION {{CaptureEntry(a, address, side)
                 : address \in {AddressOf(side.runs, use) : use \in a.uses}}
                : a \in AssessCorrelation(origin, side.runs)}

-----------------------------------------------------------------------------
(* The comparison of one key.                                              *)

KeyOf(e) == [rule |-> e.rule, resource |-> e.resource, address |-> e.address]

Compatible(b, c) ==
  /\ b.valid /\ c.valid
  /\ b.address # Nothing /\ b.address = c.address
  /\ b.revised /\ c.revised

IsLater(b, c) ==
  /\ b.window # Nothing /\ c.window # Nothing
  /\ c.window.from > b.window.to
  /\ b.digests \cap c.digests = {}

State(state, reason) == [state |-> state, reason |-> reason]
NotObserved == {"check_not_run", "no_supported_negative_evidence"}

\* Two compatible, supported conclusions.
SupportedState(b, c) ==
  IF b.digests # {} /\ b.digests = c.digests /\ b.outcome = c.outcome
    THEN State("unchanged", "same_capture_no_new_acquisition")
  ELSE IF ~IsLater(b, c) THEN State("unknown", "current_evidence_not_later")
  ELSE IF b.outcome = c.outcome THEN State("unchanged", "supported_conclusion_unchanged")
  ELSE IF c.outcome = "supported_negative"
    THEN State("resolved", "comparable_negative_evidence")
  ELSE State("new", "condition_now_supported")

\* Both sides assessed the key, on evidence that is healthy and, on the current side, valid.
BothState(b, c) ==
  LET positive == c.outcome = "supported_positive" IN
  IF positive /\ b.outcome # "supported_positive" /\ ~Compatible(b, c)
    THEN State("new", "no_comparable_baseline_support")
  ELSE IF c.outcome = "inconclusive"
    THEN IF c.reason \in NotObserved THEN State("not_observed", "current_check_not_completed")
                                     ELSE State("unknown", "current_check_unusable")
  ELSE IF ~Compatible(b, c) THEN State("unknown", "incompatible_check_semantics")
  ELSE IF b.outcome = "inconclusive"
    THEN IF positive THEN State("new", "baseline_support_absent")
                     ELSE State("unknown", "baseline_check_unusable")
  ELSE SupportedState(b, c)

\* A side that does not assess the key.
NoEntry == [assessed |-> FALSE]

\* _result.
StateOf(b, c, address) ==
  IF b # NoEntry /\ ~b.healthy THEN State("unknown", "required_evidence_unavailable")
  ELSE IF c = NoEntry
    THEN IF address = Nothing THEN State("unknown", "backend_context_unavailable")
                              ELSE State("not_observed", "current_check_not_selected")
  ELSE IF ~c.healthy THEN State("unknown", "required_evidence_unavailable")
  ELSE IF ~c.valid THEN State("unknown", "incompatible_check_semantics")
  ELSE IF b = NoEntry
    THEN IF c.outcome = "supported_positive"
           THEN State("new", "no_comparable_baseline_support")
           ELSE State("unknown", "baseline_not_assessed")
  ELSE BothState(b, c)

EntryAt(entries, key) ==
  IF \E e \in entries : KeyOf(e) = key THEN CHOOSE e \in entries : KeyOf(e) = key ELSE NoEntry

\* compare_assessments: a result for every key of either side.
Compare(before, after) ==
  {LET b == EntryAt(before, key)
       c == EntryAt(after, key)
   IN [key |-> key, baseline |-> b, current |-> c, is |-> StateOf(b, c, key.address)]
   : key \in {KeyOf(e) : e \in before \cup after}}
=============================================================================
