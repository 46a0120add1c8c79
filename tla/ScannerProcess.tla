--------------------------- MODULE ScannerProcess ---------------------------
(***************************************************************************)
(* One call of run_process (execution/process.py): a scanner started in a  *)
(* process group of its own, two readers that save its output up to a      *)
(* shared limit, and a cleanup that runs however the call ends.            *)
(*                                                                         *)
(* Times are not measured: a timer may fire at any moment while its block  *)
(* runs.  The scanner is the environment: a leader and a descendant that   *)
(* write, fork, close their streams, leave the group or exit as they like  *)
(* until SIGKILL leaves them nothing but to exit, which may take long.     *)
(***************************************************************************)
EXTENDS Naturals, FiniteSets

CONSTANTS
  Leader, Child,  \* the processes of the scanner
  OutputLimit,    \* output_limit of a scan
  VersionLimit,   \* output_limit of a version check
  ErrorLimit,     \* 64 KiB, the limit of stderr
  PipeSize,       \* what a pipe holds before its writer blocks
  MaxOutput,      \* bound: what is written to one stream
  MaxCancels      \* bound: cancellations of one call

ASSUME ProcessAssumption == Leader # Child
ASSUME LimitAssumption ==
  {OutputLimit, VersionLimit, ErrorLimit, PipeSize, MaxOutput, MaxCancels} \subseteq Nat

VARIABLES
  limit,      \* output_limit of the call
  live,       \* processes that run
  group,      \* processes that have not left the group of the leader
  killed,     \* those SIGKILL was sent to
  open,       \* streams a process holds
  returncode, \* of the leader
  produced,   \* what was written to a stream
  pipe,       \* the part of it nobody has read
  saved,      \* the part of it in the artifact file
  used, stderr_used, \* the counters of drain
  pc, spawn,  \* where the call is; its spawn task
  reader,     \* the reader of a stream
  outcome,    \* how the body of the try statement ended
  clean,      \* whether cleanup did complete
  cancelled,  \* a cancellation arrived during the cleanup
  cancels,    \* cancellations so far
  result      \* what the call returned or raised

scanner == <<live, group, killed, open, returncode, produced>>
output  == <<saved, used, stderr_used>>
control == <<pc, spawn, outcome, clean, cancelled, cancels, result>>
processVars == <<limit, scanner, pipe, output, control, reader>>

Members == {Leader, Child}
Streams == {"stdout", "stderr"}
Pcs == {"spawning", "gathering", "unwinding", "term", "grace", "wait", "poll", "drain",
        "closing", "ended"}
Cleaning == {"term", "grace", "wait", "poll", "drain"}
Failures == {"timed_out", "could_not_write", "exceeded", "exit_failed", "cancelled"}
ReaderStates == {"none", "reading", "eof", "exceeded", "could_not_write", "stopped"}

ProcessTypeOK ==
  /\ limit \in {OutputLimit, VersionLimit}
  /\ live \in SUBSET Members /\ group \in SUBSET Members /\ killed \in SUBSET Members
  /\ open \in [Members -> SUBSET Streams]
  /\ returncode \in {"running", "zero", "nonzero"}
  /\ produced \in [Streams -> 0..MaxOutput] /\ pipe \in [Streams -> 0..PipeSize]
  /\ saved \in [Streams -> 0..limit]
  /\ used \in Nat /\ stderr_used \in Nat
  /\ pc \in Pcs /\ spawn \in {"pending", "failed", "started"}
  /\ reader \in [Streams -> ReaderStates]
  /\ outcome \in Failures \cup {"none", "ok"} /\ clean \in BOOLEAN /\ cancelled \in BOOLEAN
  /\ cancels \in 0..MaxCancels
  /\ result \in Failures \cup {"none", "ok", "unclean"}

\* A call of run_process, with whatever limit, after its files were created.
ProcessInit ==
  /\ live = {} /\ group = {} /\ killed = {} /\ returncode = "running"
  /\ open = [m \in Members |-> {}]
  /\ produced = [s \in Streams |-> 0] /\ pipe = [s \in Streams |-> 0]
  /\ saved = [s \in Streams |-> 0] /\ used = 0 /\ stderr_used = 0
  /\ pc = "spawning" /\ spawn = "pending" /\ reader = [s \in Streams |-> "none"]
  /\ outcome = "none" /\ clean = TRUE /\ cancelled = FALSE /\ cancels = 0
  /\ result = "none"

\* The next call begins as the first one did.
ProcessRestarts ==
  /\ live' = {} /\ group' = {} /\ killed' = {} /\ returncode' = "running"
  /\ open' = [m \in Members |-> {}]
  /\ produced' = [s \in Streams |-> 0] /\ pipe' = [s \in Streams |-> 0]
  /\ saved' = [s \in Streams |-> 0] /\ used' = 0 /\ stderr_used' = 0
  /\ pc' = "spawning" /\ spawn' = "pending" /\ reader' = [s \in Streams |-> "none"]
  /\ outcome' = "none" /\ clean' = TRUE /\ cancelled' = FALSE /\ cancels' = 0
  /\ result' = "none"

-----------------------------------------------------------------------------
(* The scanner.                                                            *)

Free == live \ killed
Holders(s) == {m \in live : s \in open[m]}
AtEof(s) == spawn = "started" /\ pipe[s] = 0 /\ Holders(s) = {}

Write(m, s) ==
  /\ m \in Free /\ s \in open[m] /\ pipe[s] < PipeSize /\ produced[s] < MaxOutput
  /\ pipe' = [pipe EXCEPT ![s] = @ + 1]
  /\ produced' = [produced EXCEPT ![s] = @ + 1]
  /\ UNCHANGED <<limit, live, group, killed, open, returncode, output, control, reader>>

Fork ==
  /\ Leader \in Free /\ Child \notin live
  /\ live' = live \cup {Child} /\ group' = group \cup {Child}
  /\ open' = [open EXCEPT ![Child] = open[Leader]]
  /\ UNCHANGED <<limit, killed, returncode, produced, pipe, output, control, reader>>

\* A descendant that makes itself the leader of a session is out of killpg's reach.
LeaveGroup ==
  /\ Child \in Free /\ Child \in group
  /\ group' = group \ {Child}
  /\ UNCHANGED <<limit, live, killed, open, returncode, produced, pipe, output, control, reader>>

CloseStreams(m) ==
  /\ m \in Free /\ open[m] # {}
  /\ open' = [open EXCEPT ![m] = {}]
  /\ UNCHANGED <<limit, live, group, killed, returncode, produced, pipe, output, control, reader>>

Exit(m) ==
  /\ m \in live
  /\ live' = live \ {m} /\ killed' = killed \ {m} /\ open' = [open EXCEPT ![m] = {}]
  /\ IF m # Leader THEN UNCHANGED returncode
     ELSE returncode' \in IF m \in killed THEN {"nonzero"} ELSE {"zero", "nonzero"}
  /\ UNCHANGED <<limit, group, produced, pipe, output, control, reader>>

Scanner == \/ \E m \in Members : CloseStreams(m) \/ Exit(m) \/ \E s \in Streams : Write(m, s)
           \/ Fork \/ LeaveGroup

-----------------------------------------------------------------------------
(* The readers.                                                            *)

Least(a, b) == IF a <= b THEN a ELSE b

\* Mutant of Available: the reader of stderr minds only its own limit.
AvailableAlone(s) == IF s = "stderr" THEN ErrorLimit - stderr_used ELSE limit - used

Available(s) ==
  IF s = "stderr" THEN Least(limit - used, ErrorLimit - stderr_used) ELSE limit - used

\* Mutant of ReadChunk: the chunk is saved before it is measured.
ReadChunkWhole(s) ==
  /\ pc \in {"gathering", "unwinding"} /\ reader[s] = "reading"
  /\ \E chunk \in 1..pipe[s] :
       /\ pipe' = [pipe EXCEPT ![s] = @ - chunk]
       /\ saved' = [saved EXCEPT ![s] = @ + chunk]
       /\ used' = used + chunk
       /\ stderr_used' = IF s = "stderr" THEN stderr_used + chunk ELSE stderr_used
       /\ reader' = IF chunk <= Available(s) THEN reader ELSE [reader EXCEPT ![s] = "exceeded"]
  /\ UNCHANGED <<limit, scanner, control>>

\* drain saves what fits of a chunk and gives up when that is not all of it.  A reader
\* whose sibling failed goes on until the cleanup cancels it.
ReadChunk(s) ==
  /\ pc \in {"gathering", "unwinding"} /\ reader[s] = "reading"
  /\ \E chunk \in 1..pipe[s] :
       LET kept == Least(chunk, Available(s)) IN
       /\ pipe' = [pipe EXCEPT ![s] = @ - chunk]
       /\ saved' = [saved EXCEPT ![s] = @ + kept]
       /\ used' = used + kept
       /\ stderr_used' = IF s = "stderr" THEN stderr_used + kept ELSE stderr_used
       /\ reader' = IF kept = chunk THEN reader ELSE [reader EXCEPT ![s] = "exceeded"]
  /\ UNCHANGED <<limit, scanner, control>>

\* The write of the artifact file fails or comes out short: the counters stay.
WriteFails(s) ==
  /\ pc \in {"gathering", "unwinding"} /\ reader[s] = "reading"
  /\ \E chunk \in 1..pipe[s] :
       \E short \in 0..Least(chunk, Available(s)) :
         /\ short < Least(chunk, Available(s))
         /\ pipe' = [pipe EXCEPT ![s] = @ - chunk]
         /\ saved' = [saved EXCEPT ![s] = @ + short]
  /\ reader' = [reader EXCEPT ![s] = "could_not_write"]
  /\ UNCHANGED <<limit, scanner, used, stderr_used, control>>

ReadEof(s) ==
  /\ pc \in {"gathering", "unwinding"} /\ reader[s] = "reading" /\ AtEof(s)
  /\ reader' = [reader EXCEPT ![s] = "eof"]
  /\ UNCHANGED <<limit, scanner, pipe, output, control>>

Stopped == [s \in Streams |-> IF reader[s] = "reading" THEN "stopped" ELSE reader[s]]

-----------------------------------------------------------------------------
(* The body of the try statement.                                          *)

\* The spawn task goes on although the call that awaits it was cancelled or timed out.
SpawnStarts ==
  /\ spawn = "pending" /\ pc \in {"spawning", "unwinding"}
  /\ spawn' = "started"
  /\ live' = {Leader} /\ group' = {Leader} /\ open' = [open EXCEPT ![Leader] = Streams]
  /\ IF pc = "spawning"
       THEN pc' = "gathering" /\ reader' = [s \in Streams |-> "reading"]
       ELSE UNCHANGED <<pc, reader>>
  /\ UNCHANGED <<limit, killed, returncode, produced, pipe, output, outcome, clean,
                 cancelled, cancels, result>>

\* The body ends; gather cancels the readers with it unless one of them is the reason.
Unwind(how) ==
  /\ outcome' = how /\ pc' = "unwinding"
  /\ UNCHANGED <<limit, scanner, pipe, output, clean, cancelled, result>>

SpawnFails ==
  /\ spawn = "pending" /\ pc \in {"spawning", "unwinding"}
  /\ spawn' = "failed"
  /\ IF pc = "spawning" THEN outcome' = "could_not_write" /\ pc' = "unwinding"
                        ELSE UNCHANGED <<outcome, pc>>
  /\ UNCHANGED <<limit, scanner, pipe, output, clean, cancelled, cancels, result, reader>>

Timeout ==
  /\ pc \in {"spawning", "gathering"}
  /\ Unwind("timed_out") /\ reader' = Stopped
  /\ UNCHANGED <<spawn, cancels>>

ReaderFails(s) ==
  /\ pc = "gathering" /\ reader[s] \in {"exceeded", "could_not_write"}
  /\ Unwind(reader[s])
  /\ UNCHANGED <<spawn, cancels, reader>>

\* Mutant of Gathered: the call awaits the exit of the scanner and not its readers.
GatheredEarly ==
  /\ pc = "gathering" /\ returncode # "running"
  /\ Unwind(IF returncode = "zero" THEN "ok" ELSE "exit_failed")
  /\ UNCHANGED <<spawn, cancels, reader>>

\* gather returns: both streams are at their end and the leader has exited.
Gathered ==
  /\ pc = "gathering" /\ returncode # "running" /\ \A s \in Streams : reader[s] = "eof"
  /\ Unwind(IF returncode = "zero" THEN "ok" ELSE "exit_failed")
  /\ UNCHANGED <<spawn, cancels, reader>>

\* The task is cancelled: the body ends, but the cleanup only remembers it.
Cancel ==
  /\ pc # "ended" /\ cancels < MaxCancels
  /\ cancels' = cancels + 1
  /\ IF pc \in {"spawning", "gathering"}
       THEN Unwind("cancelled") /\ reader' = Stopped /\ UNCHANGED spawn
       ELSE /\ cancelled' = TRUE
            /\ UNCHANGED <<limit, scanner, pipe, output, pc, spawn, outcome, clean, result, reader>>

-----------------------------------------------------------------------------
(* The cleanup, with _stop inside its timeout of three seconds.            *)

Running == live \cap group

Goto(from, to) ==
  /\ pc = from /\ pc' = to
  /\ UNCHANGED <<limit, live, group, open, returncode, produced, output, spawn, outcome,
                 clean, cancelled, cancels, result>>

BeginCleanup ==
  /\ spawn # "pending"
  /\ Goto("unwinding", IF spawn = "failed" THEN "closing" ELSE "term")
  /\ reader' = Stopped
  /\ UNCHANGED <<killed, pipe>>

\* SIGTERM obliges nobody, and is not sent when the group is gone.
Terminate ==
  /\ Goto("term", IF Running = {} THEN "wait" ELSE "grace")
  /\ UNCHANGED <<killed, pipe, reader>>

Kill ==
  /\ Goto("grace", "wait")
  /\ killed' = killed \cup Running
  /\ UNCHANGED <<pipe, reader>>

WaitForLeader ==
  /\ returncode # "running" /\ Goto("wait", "poll")
  /\ UNCHANGED <<killed, pipe, reader>>

\* Mutant of PollGroup: whoever was killed is taken for dead.
PollGroupOnce ==
  /\ Goto("poll", "drain")
  /\ UNCHANGED <<killed, pipe, reader>>

PollGroup ==
  /\ Running = {} /\ Goto("poll", "drain")
  /\ UNCHANGED <<killed, pipe, reader>>

\* The discarding readers empty the pipes all the while.
Discard(s) ==
  /\ pc \in Cleaning /\ pipe[s] > 0
  /\ pipe' = [pipe EXCEPT ![s] = 0]
  /\ UNCHANGED <<limit, scanner, output, control, reader>>

Drained ==
  /\ \A s \in Streams : AtEof(s)
  /\ Goto("drain", "closing")
  /\ UNCHANGED <<killed, pipe, reader>>

\* Mutant of CleanupTimeout: only _stop is inside the timeout, not the drains.
CleanupPatient ==
  /\ pc \in Cleaning \ {"drain"}
  /\ clean' = FALSE /\ pc' = "closing"
  /\ UNCHANGED <<limit, scanner, pipe, output, spawn, outcome, cancelled, cancels, result, reader>>

CleanupTimeout ==
  /\ pc \in Cleaning
  /\ clean' = FALSE /\ pc' = "closing"
  /\ UNCHANGED <<limit, scanner, pipe, output, spawn, outcome, cancelled, cancels, result, reader>>

\* Mutant of Result: a cancellation during the cleanup is swallowed by the shield.
ResultUncancelled == IF ~clean THEN "unclean" ELSE outcome

\* A failed cleanup is raised before anything else, then a cancellation.
Result == IF ~clean THEN "unclean" ELSE IF cancelled THEN "cancelled" ELSE outcome

End ==
  /\ pc = "closing" /\ pc' = "ended" /\ result' = Result
  /\ UNCHANGED <<limit, scanner, pipe, output, spawn, outcome, clean, cancelled, cancels, reader>>

Body == SpawnStarts \/ SpawnFails \/ Gathered \/ \E s \in Streams : ReaderFails(s)
Read(s) == ReadChunk(s) \/ WriteFails(s) \/ ReadEof(s)
Stop == BeginCleanup \/ Terminate \/ Kill \/ WaitForLeader \/ PollGroup \/ Drained \/ End
Timers == Timeout \/ CleanupTimeout

ProcessNext == \/ Scanner \/ Body \/ Stop \/ Timers \/ Cancel
               \/ \E s \in Streams : Read(s) \/ Discard(s)
=============================================================================
