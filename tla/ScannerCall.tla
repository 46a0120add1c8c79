----------------------------- MODULE ScannerCall -----------------------------
(***************************************************************************)
(* scan_nmap, scan_httpx and scan_nuclei (execution): a version check for  *)
(* the latter two, the scan, and the checks its report must pass before it *)
(* is returned.  Each runs its scanner by a ScannerProcess of its own, in  *)
(* a private directory.                                                    *)
(***************************************************************************)
EXTENDS ScannerProcess

VARIABLES
  phase,        \* which call of run_process
  directories,  \* the private directories that exist, by phase
  answer        \* what the scan returned or raised

vars == <<processVars, phase, directories, answer>>

Answers == {"none", "report", "error", "cancelled"}

LimitOf(p) == IF p = "version" THEN VersionLimit ELSE OutputLimit

\* nmap begins with the scan, httpx and nuclei with the version check.
Init ==
  /\ phase \in {"version", "scan"}
  /\ limit = LimitOf(phase)
  /\ ProcessInit
  /\ directories = {phase}
  /\ answer = "none"

Run == answer = "none" /\ ProcessNext /\ UNCHANGED <<phase, directories, answer>>

Answer(what) ==
  /\ pc = "ended" /\ answer = "none"
  /\ answer' = what
  /\ UNCHANGED <<processVars, phase>>

\* run_process raised; its directory stays.
CallFails ==
  /\ result # "ok"
  /\ Answer(IF result = "cancelled" THEN "cancelled" ELSE "error")
  /\ UNCHANGED directories

\* The output names another version, or what the scanner left behind cannot be removed.
VersionRefused ==
  /\ phase = "version" /\ result = "ok" /\ Answer("error") /\ UNCHANGED directories

\* The template files of a nuclei scan are not the reviewed ones.
TemplateChanged ==
  /\ phase = "version" /\ result = "ok"
  /\ Answer("error") /\ directories' = directories \ {"version"}

\* The files and the directory of the check are removed, and the scan begins.  A process
\* of the check that left its group and closed its streams is no longer followed.
VersionAccepted ==
  /\ pc = "ended" /\ answer = "none" /\ phase = "version" /\ result = "ok"
  /\ phase' = "scan" /\ directories' = (directories \ {"version"}) \cup {"scan"}
  /\ limit' = LimitOf("scan") /\ ProcessRestarts
  /\ UNCHANGED answer

\* The report does not parse, leaves the scope or, of nmap and httpx, does not cover what
\* was asked for.
ReportRefused ==
  /\ phase = "scan" /\ result = "ok" /\ Answer("error") /\ UNCHANGED directories

ReportAccepted ==
  /\ phase = "scan" /\ result = "ok" /\ Answer("report") /\ UNCHANGED directories

Finish == CallFails \/ VersionRefused \/ TemplateChanged \/ VersionAccepted
            \/ ReportRefused \/ ReportAccepted

Next == Run \/ Finish

\* The call, its timers and its caller go on, and the system starts a process or refuses.
\* Nothing is asked of the scanner, not even that it dies when killed, nor of the readers.
Progress ==
  \/ Finish
  \/ /\ answer = "none" /\ (Body \/ Stop \/ Timers)
     /\ UNCHANGED <<phase, directories, answer>>

Fairness == WF_vars(Progress)

Spec == Init /\ [][Next]_vars /\ Fairness

-----------------------------------------------------------------------------
\* The variables keep their kinds, and what a stream produced is saved, unread or discarded.
TypeOK ==
  /\ ProcessTypeOK
  /\ phase \in {"version", "scan"}
  /\ directories \in SUBSET {"version", "scan"} /\ answer \in Answers

\* A report is returned only of a scanner that exited with zero and whose streams were
\* saved to their last byte, whatever its descendants did and whichever timer or
\* cancellation raced its end; the directory of the version check is gone by then.
ReportIsWhole ==
  answer = "report" =>
    /\ returncode = "zero" /\ directories = {"scan"}
    /\ \A s \in Streams : saved[s] = produced[s] /\ AtEof(s)

\* The artifact files of a call together stay within its output limit, and stderr.txt
\* within its own, although two readers save at the same time and one goes on for a
\* while after the other failed.  A write that came out short is not counted, so what the
\* other reader saves before it is cancelled may add to it: that case is excluded.
WithinLimits ==
  (\A s \in Streams : reader[s] # "could_not_write") =>
  /\ saved["stdout"] + saved["stderr"] <= limit
  /\ saved["stderr"] <= ErrorLimit

\* When a call ends without the complaint that its cleanup did not complete, no process of
\* the scanner's group runs, and nobody who left the group holds its streams: nothing is
\* left that could still produce output.
NothingLeftBehind ==
  (pc = "ended" /\ result # "unclean" /\ spawn = "started") =>
    /\ live \cap group = {}
    /\ \A s \in Streams : Holders(s) = {}

\* A cancellation is never lost: a scan that was cancelled before its process call ended
\* raises the cancellation, whatever it was doing and however often it was cancelled,
\* unless its cleanup did not complete.
CancellationHeard ==
  (answer # "none" /\ cancels > 0 /\ result # "unclean") => answer = "cancelled"

\* A scan ends, although its scanner may ignore signals, keep its streams open, hang in the
\* system after SIGKILL or leave descendants that do.
ScanEnds == <>(answer # "none")
=============================================================================
