----------------------------- MODULE RunRecord -----------------------------
(***************************************************************************)
(* What scan history promises about a run identifier: it names one attempt *)
(* that begins once and ends once, and only a successful one has evidence, *)
(* which is never replaced.                                                *)
(***************************************************************************)
CONSTANTS
  Runs,       \* run identifiers
  Payloads,   \* what a report may consist of
  Absent      \* no evidence

VARIABLES status, value

vars == <<status, value>>

Init ==
  /\ status = [r \in Runs |-> "none"]
  /\ value = [r \in Runs |-> Absent]

Begin(r) ==
  /\ status[r] = "none"
  /\ status' = [status EXCEPT ![r] = "running"]
  /\ UNCHANGED value

Succeed(r, p) ==
  /\ status[r] = "running"
  /\ status' = [status EXCEPT ![r] = "succeeded"]
  /\ value' = [value EXCEPT ![r] = p]

End(r) ==
  /\ status[r] = "running"
  /\ \E outcome \in {"failed", "interrupted"} : status' = [status EXCEPT ![r] = outcome]
  /\ UNCHANGED value

Next == \E r \in Runs : Begin(r) \/ End(r) \/ \E p \in Payloads : Succeed(r, p)

Spec == Init /\ [][Next]_vars
=============================================================================
