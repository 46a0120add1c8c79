------------------------- MODULE ScannerCallProofs -------------------------
(***************************************************************************)
(* Theorems about ScannerCall, for every limit, every size of a pipe, any  *)
(* amount of output and any number of cancellations.                       *)
(***************************************************************************)
EXTENDS ScannerCall, TLAPS

-----------------------------------------------------------------------------
(* The inductive invariant.                                                *)

\* A reader that never failed to write has saved what was counted for it.
Counted ==
  /\ stderr_used <= used /\ used <= limit /\ stderr_used <= ErrorLimit
  /\ reader["stdout"] # "could_not_write" => saved["stdout"] + stderr_used = used
  /\ reader["stderr"] # "could_not_write" => saved["stderr"] = stderr_used

\* Before the scanner starts there is nothing of it.
Untouched ==
  spawn = "pending" =>
    /\ pc \in {"spawning", "unwinding"} /\ live = {} /\ returncode = "running"
    /\ \A s \in Streams : /\ reader[s] = "none"
                          /\ produced[s] = 0 /\ pipe[s] = 0 /\ saved[s] = 0

\* The leader is in its group, and has no exit status while it runs.
LeaderLeads ==
  /\ Leader \in live => returncode = "running"
  /\ spawn = "started" => Leader \in group

\* The body of the call has one end, and cancellations after it are remembered.
OneEnd ==
  /\ pc = "spawning" => spawn = "pending"
  /\ pc \in {"spawning", "gathering"} => ~cancelled /\ cancels = 0
  /\ cancels > 0 => cancelled \/ outcome = "cancelled"
  /\ pc = "ended" => result = Result

\* What a reader has seen of its stream.
ReadersSaw ==
  /\ \A s \in Streams : reader[s] = "reading" =>
       pc \in {"gathering", "unwinding"} /\ saved[s] + pipe[s] = produced[s]
  /\ \A s \in Streams : reader[s] = "eof" => saved[s] = produced[s] /\ AtEof(s)
  /\ outcome = "ok" => returncode = "zero" /\ \A s \in Streams : reader[s] = "eof"

\* A cleanup that was not given up has emptied the group, then the streams.
CleanedUp ==
  clean /\ spawn = "started" =>
    /\ pc \in {"drain", "closing", "ended"} => Running = {}
    /\ pc \in {"closing", "ended"} => \A s \in Streams : Holders(s) = {}

\* The answer is what the call that ended last allows.
AnswerFits ==
  /\ phase = "scan" => directories = {"scan"}
  /\ answer # "none" => pc = "ended" /\ (result = "cancelled" => answer = "cancelled")
  /\ answer = "report" => phase = "scan" /\ result = "ok"

CallInv ==
  TypeOK /\ Counted /\ Untouched /\ LeaderLeads /\ OneEnd /\ ReadersSaw /\ CleanedUp /\ AnswerFits

-----------------------------------------------------------------------------
(* Types and counters.                                                     *)

\* A step of the scanner keeps the variables well typed.
LEMMA ScannerType ==
  ASSUME ProcessTypeOK, Scanner
  PROVE  ProcessTypeOK'
  <1>1. ASSUME NEW m \in Members, NEW s \in Streams, Write(m, s) PROVE ProcessTypeOK'
    <2>1. pipe' \in [Streams -> 0..PipeSize] /\ produced' \in [Streams -> 0..MaxOutput]
      BY <1>1, LimitAssumption DEF Write, ProcessTypeOK
    <2> QED BY <1>1, <2>1 DEF Write, ProcessTypeOK, output, control
  <1>2. CASE Fork
    BY <1>2 DEF Fork, ProcessTypeOK, Members, output, control
  <1>3. CASE LeaveGroup
    BY <1>3 DEF LeaveGroup, ProcessTypeOK, output, control
  <1>4. ASSUME NEW m \in Members, CloseStreams(m) PROVE ProcessTypeOK'
    BY <1>4 DEF CloseStreams, ProcessTypeOK, output, control
  <1>5. ASSUME NEW m \in Members, Exit(m) PROVE ProcessTypeOK'
    BY <1>5 DEF Exit, ProcessTypeOK, output, control
  <1> QED BY <1>1, <1>2, <1>3, <1>4, <1>5 DEF Scanner

\* What a reader may still save is a number, and fits under both limits.
LEMMA AvailableFits ==
  ASSUME ProcessTypeOK, Counted, NEW s \in Streams, reader[s] = "reading"
  PROVE  /\ Available(s) \in Nat
         /\ used + Available(s) <= limit /\ saved[s] + Available(s) <= limit
         /\ s = "stderr" => stderr_used + Available(s) <= ErrorLimit
  <1>1. /\ {used, stderr_used, limit, ErrorLimit} \subseteq Nat
        /\ saved \in [Streams -> 0..limit]
    BY LimitAssumption DEF ProcessTypeOK
  <1>2. saved["stdout"] \in Nat /\ saved["stderr"] \in Nat
    BY <1>1 DEF Streams
  <1>3. CASE s = "stdout"
    BY <1>1, <1>2, <1>3 DEF Available, Counted
  <1>4. CASE s = "stderr"
    BY <1>1, <1>2, <1>4 DEF Available, Least, Counted
  <1> QED BY <1>3, <1>4 DEF Streams

\* What a reader keeps of a chunk is no more than may be saved.
LEMMA LeastFits ==
  ASSUME NEW a \in Nat, NEW b \in Nat
  PROVE  Least(a, b) \in 0..a /\ Least(a, b) <= b
  BY DEF Least

\* A reader that saves what fits keeps the counts right.
LEMMA ReadChunkCounts ==
  ASSUME ProcessTypeOK, Counted, NEW s \in Streams, ReadChunk(s)
  PROVE  ProcessTypeOK' /\ Counted'
  <1>1. PICK chunk \in 1..pipe[s] :
          /\ pipe' = [pipe EXCEPT ![s] = @ - chunk]
          /\ saved' = [saved EXCEPT ![s] = @ + Least(chunk, Available(s))]
          /\ used' = used + Least(chunk, Available(s))
          /\ stderr_used' = IF s = "stderr" THEN stderr_used + Least(chunk, Available(s))
                                            ELSE stderr_used
          /\ reader' = IF Least(chunk, Available(s)) = chunk THEN reader
                       ELSE [reader EXCEPT ![s] = "exceeded"]
    BY DEF ReadChunk
  <1> DEFINE kept == Least(chunk, Available(s))
  <1>2. pipe[s] \in 0..PipeSize /\ saved[s] \in 0..limit /\ reader[s] = "reading"
    BY DEF ReadChunk, ProcessTypeOK
  <1>3. /\ Available(s) \in Nat /\ used + Available(s) <= limit /\ saved[s] + Available(s) <= limit
        /\ s = "stderr" => stderr_used + Available(s) <= ErrorLimit
    BY <1>2, AvailableFits
  <1>n. {limit, PipeSize, ErrorLimit, used, stderr_used} \subseteq Nat
    BY LimitAssumption DEF ProcessTypeOK
  <1>4. kept \in Nat /\ kept <= chunk /\ kept <= Available(s)
    BY <1>1, <1>2, <1>3, <1>n, LeastFits
  <1> HIDE DEF kept
  <1>5. pipe' \in [Streams -> 0..PipeSize] /\ saved' \in [Streams -> 0..limit]
    BY <1>1, <1>2, <1>3, <1>4, <1>n DEF ProcessTypeOK, kept
  <1>6. reader' \in [Streams -> ReaderStates]
    BY <1>1 DEF ProcessTypeOK, ReaderStates
  <1>7. ProcessTypeOK'
    <2>1. used' \in Nat /\ stderr_used' \in Nat
      BY <1>1, <1>4, <1>n DEF kept
    <2> QED BY <1>5, <1>6, <2>1 DEF ProcessTypeOK, ReadChunk, scanner, control
  <1>8. Counted'
    <2>1. /\ used' = used + kept /\ saved'[s] = saved[s] + kept
          /\ \A t \in Streams : t # s => saved'[t] = saved[t]
          /\ stderr_used' = IF s = "stderr" THEN stderr_used + kept ELSE stderr_used
          /\ \A t \in Streams : reader'[t] = "could_not_write" <=> reader[t] = "could_not_write"
          /\ limit' = limit
      BY <1>1, <1>2 DEF kept, ProcessTypeOK, ReadChunk
    <2>2. \A t \in Streams : saved[t] \in Nat
      BY <1>n DEF ProcessTypeOK
    <2>3. CASE s = "stdout"
      BY <1>2, <1>3, <1>4, <1>n, <2>1, <2>2, <2>3 DEF Counted, Streams
    <2>4. CASE s = "stderr"
      BY <1>2, <1>3, <1>4, <1>n, <2>1, <2>2, <2>4 DEF Counted, Streams
    <2> QED BY <2>3, <2>4 DEF Streams
  <1> QED BY <1>7, <1>8

\* A failed write leaves the counters and puts its stream out of the count.
LEMMA WriteFailsCounts ==
  ASSUME ProcessTypeOK, Counted, NEW s \in Streams, WriteFails(s)
  PROVE  ProcessTypeOK' /\ Counted'
  <1>1. PICK chunk \in 1..pipe[s] : \E short \in 0..Least(chunk, Available(s)) :
          /\ pipe' = [pipe EXCEPT ![s] = @ - chunk]
          /\ saved' = [saved EXCEPT ![s] = @ + short]
    BY DEF WriteFails
  <1>s. PICK short \in 0..Least(chunk, Available(s)) : saved' = [saved EXCEPT ![s] = @ + short]
    BY <1>1
  <1>2. /\ pipe[s] \in 0..PipeSize /\ saved[s] \in 0..limit /\ reader[s] = "reading"
        /\ {limit, PipeSize} \subseteq Nat
    BY LimitAssumption DEF WriteFails, ProcessTypeOK
  <1>3. Available(s) \in Nat /\ saved[s] + Available(s) <= limit
    BY <1>2, AvailableFits
  <1>4. short \in Nat /\ short <= Available(s)
    BY <1>1, <1>s, <1>2, <1>3, LeastFits
  <1>5. pipe' \in [Streams -> 0..PipeSize] /\ saved' \in [Streams -> 0..limit]
    BY <1>1, <1>s, <1>2, <1>3, <1>4 DEF ProcessTypeOK
  <1>6. reader' = [reader EXCEPT ![s] = "could_not_write"] /\ limit' = limit
        /\ used' = used /\ stderr_used' = stderr_used
    BY DEF WriteFails
  <1>7. ProcessTypeOK'
    BY <1>5, <1>6 DEF ProcessTypeOK, WriteFails, scanner, control, ReaderStates
  <1>8. Counted'
    <2>1. \A t \in Streams : t # s => saved'[t] = saved[t] /\ reader'[t] = reader[t]
      BY <1>s, <1>6 DEF ProcessTypeOK
    <2>2. reader'[s] = "could_not_write"
      BY <1>6 DEF ProcessTypeOK
    <2> QED BY <1>6, <2>1, <2>2 DEF Counted, Streams
  <1> QED BY <1>7, <1>8

\* Nobody but the readers touches counts and files, and only a failed write spoils a count.
LEMMA CountedKept ==
  ASSUME Counted, UNCHANGED <<limit, output>>,
         \A s \in Streams : reader'[s] = "could_not_write" <=> reader[s] = "could_not_write"
  PROVE  Counted'
  BY DEF Counted, output, Streams

\* Readers that are stopped have not failed.
LEMMA StoppedReaders ==
  ASSUME ProcessTypeOK
  PROVE  /\ Stopped \in [Streams -> ReaderStates]
         /\ \A s \in Streams : /\ Stopped[s] # "reading"
                               /\ \A r \in ReaderStates \ {"reading", "stopped"} :
                                    Stopped[s] = r <=> reader[s] = r
  BY DEF Stopped, ProcessTypeOK, ReaderStates

\* The body of the call keeps types and counts.
LEMMA BodyType ==
  ASSUME ProcessTypeOK, Counted, Untouched, Body \/ Timeout \/ Cancel
  PROVE  ProcessTypeOK' /\ Counted'
  <1>1. CASE SpawnStarts
    <2>1. \A s \in Streams : reader[s] = "none"
      BY <1>1 DEF SpawnStarts, Untouched
    <2>2. reader' \in [Streams -> ReaderStates] /\ pc' \in Pcs
      BY <1>1 DEF SpawnStarts, ProcessTypeOK, ReaderStates, Pcs
    <2>3. \A s \in Streams : reader'[s] # "could_not_write"
      BY <1>1, <2>1 DEF SpawnStarts
    <2>4. ProcessTypeOK'
      BY <1>1, <2>2 DEF SpawnStarts, ProcessTypeOK, Members, output
    <2> QED BY <1>1, <2>1, <2>3, <2>4, CountedKept DEF SpawnStarts
  <1>2. CASE SpawnFails
    <2>1. ProcessTypeOK'
      BY <1>2 DEF SpawnFails, ProcessTypeOK, Failures, Pcs, scanner, output
    <2> QED BY <1>2, <2>1, CountedKept DEF SpawnFails
  <1>3. ASSUME NEW how \in Failures \cup {"ok"}, Unwind(how), reader' \in {reader, Stopped},
               cancels' \in 0..MaxCancels, spawn' = spawn
        PROVE  ProcessTypeOK' /\ Counted'
    <2>1. reader' \in [Streams -> ReaderStates]
      BY <1>3, StoppedReaders DEF ProcessTypeOK
    <2>2. \A s \in Streams : reader'[s] = "could_not_write" <=> reader[s] = "could_not_write"
      BY <1>3, StoppedReaders DEF ReaderStates
    <2>3. ProcessTypeOK'
      BY <1>3, <2>1 DEF Unwind, ProcessTypeOK, Pcs, scanner, output
    <2> QED BY <1>3, <2>2, <2>3, CountedKept DEF Unwind
  <1>4. CASE Gathered
    BY <1>3, <1>4 DEF Gathered, Failures, ProcessTypeOK
  <1>5. ASSUME NEW s \in Streams, ReaderFails(s) PROVE ProcessTypeOK' /\ Counted'
    BY <1>3, <1>5 DEF ReaderFails, Failures, ProcessTypeOK
  <1>6. CASE Timeout
    BY <1>3, <1>6 DEF Timeout, Failures, ProcessTypeOK
  <1>7. CASE Cancel
    <2>1. cancels' \in 0..MaxCancels
      BY <1>7, LimitAssumption DEF Cancel, ProcessTypeOK
    <2>2. CASE pc \in {"spawning", "gathering"}
      BY <1>3, <1>7, <2>1, <2>2 DEF Cancel, Failures
    <2>3. CASE pc \notin {"spawning", "gathering"}
      <3>1. UNCHANGED <<limit, scanner, pipe, output, pc, spawn, outcome, clean, result, reader>>
            /\ cancelled' = TRUE
        BY <1>7, <2>3 DEF Cancel
      <3>2. ProcessTypeOK'
        BY <2>1, <3>1 DEF ProcessTypeOK, scanner, output
      <3> QED BY <3>1, <3>2, CountedKept
    <2> QED BY <2>2, <2>3
  <1> QED BY <1>1, <1>2, <1>4, <1>5, <1>6, <1>7 DEF Body

\* So does the cleanup.
LEMMA StopType ==
  ASSUME ProcessTypeOK, Counted, Stop \/ CleanupTimeout \/ \E s \in Streams : Discard(s)
  PROVE  ProcessTypeOK' /\ Counted'
  <1>1. ASSUME NEW from, NEW to \in Pcs, Goto(from, to), pipe' = pipe,
               reader' \in {reader, Stopped}, killed' \in SUBSET Members
        PROVE  ProcessTypeOK' /\ Counted'
    <2>1. reader' \in [Streams -> ReaderStates]
      BY <1>1, StoppedReaders DEF ProcessTypeOK
    <2>2. \A s \in Streams : reader'[s] = "could_not_write" <=> reader[s] = "could_not_write"
      BY <1>1, StoppedReaders DEF ReaderStates
    <2>3. ProcessTypeOK'
      BY <1>1, <2>1 DEF Goto, ProcessTypeOK, output
    <2> QED BY <1>1, <2>2, <2>3, CountedKept DEF Goto
  <1>2. {"term", "grace", "wait", "poll", "drain", "closing", "ended"} \subseteq Pcs
        /\ killed \in SUBSET Members /\ Running \in SUBSET Members
    BY DEF Pcs, ProcessTypeOK, Running
  <1>3. CASE BeginCleanup
    BY <1>1, <1>2, <1>3 DEF BeginCleanup
  <1>4. CASE Terminate \/ Kill \/ WaitForLeader \/ PollGroup \/ Drained
    BY <1>1, <1>2, <1>4 DEF Terminate, Kill, WaitForLeader, PollGroup, Drained
  <1>5. CASE End
    <2>1. result' \in Failures \cup {"none", "ok", "unclean"} /\ pc' \in Pcs
      BY <1>5, <1>2 DEF End, Result, ProcessTypeOK, Failures
    <2>2. ProcessTypeOK'
      BY <1>5, <2>1 DEF End, ProcessTypeOK, scanner, output
    <2> QED BY <1>5, <2>2, CountedKept DEF End
  <1>6. CASE CleanupTimeout
    <2>1. ProcessTypeOK'
      BY <1>2, <1>6 DEF CleanupTimeout, ProcessTypeOK, scanner, output
    <2> QED BY <1>6, <2>1, CountedKept DEF CleanupTimeout
  <1>7. ASSUME NEW s \in Streams, Discard(s) PROVE ProcessTypeOK' /\ Counted'
    <2>1. pipe' \in [Streams -> 0..PipeSize]
      BY <1>7, LimitAssumption DEF Discard, ProcessTypeOK
    <2>2. ProcessTypeOK'
      BY <1>7, <2>1 DEF Discard, ProcessTypeOK, scanner, output, control
    <2> QED BY <1>7, <2>2, CountedKept DEF Discard
  <1> QED BY <1>3, <1>4, <1>5, <1>6, <1>7 DEF Stop

\* And the call as a whole.
LEMMA ProcessTypeStep ==
  ASSUME ProcessTypeOK, Counted, Untouched, ProcessNext
  PROVE  ProcessTypeOK' /\ Counted'
  <1>1. CASE Scanner
    <2>1. UNCHANGED <<limit, output, reader>>
      BY <1>1 DEF Scanner, Write, Fork, LeaveGroup, CloseStreams, Exit
    <2> QED BY <1>1, <2>1, ScannerType, CountedKept
  <1>2. ASSUME NEW s \in Streams, ReadEof(s) PROVE ProcessTypeOK' /\ Counted'
    <2>1. ProcessTypeOK'
      BY <1>2 DEF ReadEof, ProcessTypeOK, ReaderStates, scanner, output, control
    <2>2. \A t \in Streams : reader'[t] = "could_not_write" <=> reader[t] = "could_not_write"
      BY <1>2 DEF ReadEof, ProcessTypeOK
    <2> QED BY <1>2, <2>1, <2>2, CountedKept DEF ReadEof
  <1> QED BY <1>1, <1>2, BodyType, StopType, ReadChunkCounts, WriteFailsCounts
          DEF ProcessNext, Read, Timers

-----------------------------------------------------------------------------
(* What each part of the call leaves alone.                                *)

\* The scanner touches neither the call nor what it has saved, and acts only while it lives.
LEMMA ScannerFrame ==
  ASSUME Scanner
  PROVE  UNCHANGED <<limit, output, control, reader>> /\ live # {}
  <1>1. CASE Fork \/ LeaveGroup
    BY <1>1 DEF Fork, LeaveGroup, Free
  <1>2. ASSUME NEW m \in Members, CloseStreams(m) \/ Exit(m)
        PROVE  UNCHANGED <<limit, output, control, reader>> /\ live # {}
    BY <1>2 DEF CloseStreams, Exit, Free
  <1>3. ASSUME NEW m \in Members, NEW s \in Streams, Write(m, s)
        PROVE  UNCHANGED <<limit, output, control, reader>> /\ live # {}
    BY <1>3 DEF Write, Free
  <1> QED BY <1>1, <1>2, <1>3 DEF Scanner

\* A reader acts while the body of the call runs or has just ended.
LEMMA ReadFrame ==
  ASSUME NEW s \in Streams, Read(s)
  PROVE  /\ UNCHANGED <<limit, scanner, control>>
         /\ pc \in {"gathering", "unwinding"} /\ reader[s] = "reading"
  BY DEF Read, ReadChunk, WriteFails, ReadEof

\* The body of the call leaves the output to the readers and starts a scanner at most.
LEMMA BodyFrame ==
  ASSUME Body \/ Timeout \/ Cancel
  PROVE  /\ pc # "ended" /\ UNCHANGED <<produced, pipe, output, returncode, clean, result>>
         /\ SpawnStarts \/ UNCHANGED scanner
         /\ \/ pc \in {"spawning", "gathering", "unwinding"}
            \/ UNCHANGED <<pc, spawn, outcome, reader>>
         /\ pc \in {"spawning", "gathering", "unwinding"} =>
              pc' \in {"gathering", "unwinding"}
  <1>1. CASE SpawnStarts \/ SpawnFails
    BY <1>1 DEF SpawnStarts, SpawnFails, scanner, output
  <1>2. ASSUME NEW how, Unwind(how), pc \in {"spawning", "gathering"}
        PROVE  /\ UNCHANGED <<scanner, produced, pipe, output, returncode, clean, result>>
               /\ pc' = "unwinding"
    BY <1>2 DEF Unwind, scanner
  <1>3. CASE Gathered
    BY <1>2, <1>3 DEF Gathered
  <1>4. ASSUME NEW s \in Streams, ReaderFails(s)
        PROVE  /\ UNCHANGED <<scanner, produced, pipe, output, returncode, clean, result>>
               /\ pc = "gathering" /\ pc' = "unwinding"
    BY <1>2, <1>4 DEF ReaderFails
  <1>5. CASE Timeout
    BY <1>2, <1>5 DEF Timeout
  <1>6. CASE Cancel
    <2>1. CASE pc \in {"spawning", "gathering"}
      BY <1>2, <1>6, <2>1 DEF Cancel
    <2>2. CASE pc \notin {"spawning", "gathering"}
      BY <1>6, <2>2 DEF Cancel, scanner
    <2> QED BY <2>1, <2>2
  <1> QED BY <1>1, <1>3, <1>4, <1>5, <1>6 DEF Body

\* The cleanup begins after the spawn and leaves how the body ended.
LEMMA StopFrame ==
  ASSUME Stop \/ CleanupTimeout
  PROVE  /\ pc \notin {"spawning", "gathering", "ended"}
         /\ pc' \in Cleaning \cup {"closing", "ended"}
         /\ UNCHANGED <<limit, live, group, open, returncode, produced, pipe, output, spawn,
                        outcome, cancelled, cancels>>
         /\ reader' \in {reader, Stopped} /\ (pc = "unwinding" => reader' = Stopped)
         /\ clean' \in {clean, FALSE}
         /\ spawn # "pending" \/ pc # "unwinding"
  <1>1. CASE BeginCleanup
    BY <1>1 DEF BeginCleanup, Goto, Cleaning
  <1>2. CASE Terminate \/ Kill \/ WaitForLeader \/ PollGroup \/ Drained
    BY <1>2 DEF Terminate, Kill, WaitForLeader, PollGroup, Drained, Goto, Cleaning
  <1>3. CASE End
    BY <1>3 DEF End, scanner
  <1>4. CASE CleanupTimeout
    BY <1>4 DEF CleanupTimeout, Cleaning, scanner
  <1> QED BY <1>1, <1>2, <1>3, <1>4 DEF Stop

-----------------------------------------------------------------------------
(* The parts of the invariant.                                             *)

\* A step of the call is one of five kinds.
LEMMA FiveKinds ==
  ASSUME ProcessNext
  PROVE  \/ Scanner \/ Body \/ Timeout \/ Cancel \/ Stop \/ CleanupTimeout
         \/ \E s \in Streams : Read(s) \/ Discard(s)
  BY DEF ProcessNext, Timers

\* Nothing happens to a scanner that has not been started.
LEMMA UntouchedStep ==
  ASSUME ProcessTypeOK, Untouched, ProcessNext
  PROVE  Untouched'
  <1>1. CASE Scanner
    BY <1>1, ScannerFrame DEF Untouched, control
  <1>2. CASE Body \/ Timeout \/ Cancel
    <2>1. CASE SpawnStarts
      BY <2>1 DEF SpawnStarts, Untouched
    <2>2. CASE ~SpawnStarts
      <3>1. UNCHANGED <<scanner, produced, pipe, output>>
        BY <1>2, <2>2, BodyFrame
      <3>2. spawn' = "pending" =>
              /\ spawn = "pending" /\ pc' \in {"spawning", "unwinding"}
              /\ reader' \in {reader, Stopped}
        BY <1>2, <2>2
           DEF Body, SpawnFails, Gathered, ReaderFails, Timeout, Cancel, Unwind, Untouched, output
      <3>3. ASSUME NEW s \in Streams, reader[s] = "none" PROVE Stopped[s] = "none"
        BY <3>3 DEF Stopped
      <3> QED BY <3>1, <3>2, <3>3 DEF Untouched, scanner, output
    <2> QED BY <2>1, <2>2
  <1>3. CASE Stop \/ CleanupTimeout
    BY <1>3, StopFrame DEF Untouched
  <1>4. ASSUME NEW s \in Streams, Read(s) \/ Discard(s) PROVE Untouched'
    <2>1. CASE Read(s)
      BY <2>1, ReadFrame DEF Untouched, control
    <2>2. CASE Discard(s)
      BY <2>2 DEF Discard, Untouched, control, Cleaning
    <2> QED BY <1>4, <2>1, <2>2
  <1> QED BY <1>1, <1>2, <1>3, <1>4, FiveKinds

\* The leader stays in its group, and only its exit gives it a status.
LEMMA LeaderLeadsStep ==
  ASSUME ProcessTypeOK, Untouched, LeaderLeads, ProcessNext
  PROVE  LeaderLeads'
  <1>1. CASE Scanner
    <2>1. ASSUME NEW m \in Members, CloseStreams(m) \/ \E s \in Streams : Write(m, s)
          PROVE  LeaderLeads'
      BY <2>1 DEF CloseStreams, Write, LeaderLeads, control
    <2>2. CASE Fork \/ LeaveGroup
      BY <2>2, ProcessAssumption DEF Fork, LeaveGroup, LeaderLeads, control
    <2>3. ASSUME NEW m \in Members, Exit(m) PROVE LeaderLeads'
      BY <2>3 DEF Exit, LeaderLeads, control
    <2> QED BY <1>1, <2>1, <2>2, <2>3 DEF Scanner
  <1>2. CASE Body \/ Timeout \/ Cancel
    <2>1. CASE SpawnStarts
      BY <2>1 DEF SpawnStarts, Untouched, LeaderLeads
    <2>2. CASE ~SpawnStarts
      <3>1. UNCHANGED scanner
        BY <1>2, <2>2, BodyFrame
      <3>2. spawn' = "started" => spawn = "started"
        BY <1>2, <2>2 DEF Body, SpawnFails, Gathered, ReaderFails, Timeout, Cancel
      <3> QED BY <3>1, <3>2 DEF LeaderLeads, scanner
    <2> QED BY <2>1, <2>2
  <1>3. CASE Stop \/ CleanupTimeout
    BY <1>3, StopFrame DEF LeaderLeads
  <1>4. ASSUME NEW s \in Streams, Read(s) \/ Discard(s) PROVE LeaderLeads'
    <2>1. UNCHANGED <<scanner, control>>
      BY <1>4, ReadFrame DEF Discard
    <2> QED BY <2>1 DEF LeaderLeads, scanner, control
  <1> QED BY <1>1, <1>2, <1>3, <1>4, FiveKinds

\* The first end of the body counts, and what comes after is remembered.
LEMMA OneEndStep ==
  ASSUME ProcessTypeOK, Untouched, OneEnd, ProcessNext
  PROVE  OneEnd'
  <1>1. CASE UNCHANGED control
    BY <1>1 DEF OneEnd, control, Result
  <1>2. CASE Body \/ Timeout \/ Cancel
    <2>1. CASE SpawnStarts \/ SpawnFails
      BY <2>1 DEF SpawnStarts, SpawnFails, OneEnd, Untouched, Result
    <2>2. CASE Gathered \/ Timeout \/ \E s \in Streams : ReaderFails(s)
      <3>1. /\ pc \in {"spawning", "gathering"} /\ pc' = "unwinding"
            /\ UNCHANGED <<cancelled, cancels>>
        BY <2>2 DEF Gathered, Timeout, ReaderFails, Unwind
      <3> QED BY <3>1 DEF OneEnd
    <2>3. CASE Cancel
      <3>1. CASE pc \in {"spawning", "gathering"}
        BY <2>3, <3>1 DEF Cancel, Unwind, OneEnd
      <3>2. CASE pc \notin {"spawning", "gathering"}
        BY <2>3, <3>2 DEF Cancel, OneEnd
      <3> QED BY <3>1, <3>2
    <2> QED BY <1>2, <2>1, <2>2, <2>3 DEF Body
  <1>3. CASE Stop \/ CleanupTimeout
    <2>1. /\ pc' \notin {"spawning", "gathering"} /\ UNCHANGED <<cancelled, cancels, outcome>>
      BY <1>3, StopFrame DEF Cleaning
    <2>2. pc' = "ended" => result' = Result /\ clean' = clean
      BY <1>3 DEF Stop, BeginCleanup, Terminate, Kill, WaitForLeader, PollGroup, Drained, Goto, End,
                  CleanupTimeout
    <2> QED BY <2>1, <2>2 DEF OneEnd, Result
  <1>4. CASE Scanner \/ \E s \in Streams : Read(s) \/ Discard(s)
    BY <1>1, <1>4, ScannerFrame, ReadFrame DEF Discard
  <1> QED BY <1>2, <1>3, <1>4, FiveKinds

\* At the end of a stream nobody holds it any more, and nobody can come to hold it.
LEMMA EofStays ==
  ASSUME ProcessTypeOK, LeaderLeads, ProcessNext, NEW s \in Streams, AtEof(s)
  PROVE  AtEof(s)' /\ produced'[s] = produced[s] /\ pipe'[s] = pipe[s]
  <1>1. \A m \in live : s \notin open[m]
    BY DEF AtEof, Holders
  <1>p. spawn = "started" /\ pipe[s] = 0 /\ pipe \in [Streams -> 0..PipeSize]
        /\ produced \in [Streams -> 0..MaxOutput] /\ open \in [Members -> SUBSET Streams]
        /\ live \subseteq Members
    BY DEF AtEof, ProcessTypeOK
  <1>2. CASE Scanner
    <2>1. spawn' = spawn
      BY <1>2, ScannerFrame DEF control
    <2>2. ASSUME NEW m \in Members, NEW t \in Streams, Write(m, t)
          PROVE  /\ t # s /\ UNCHANGED <<live, open>>
                 /\ pipe'[s] = pipe[s] /\ produced'[s] = produced[s]
      BY <1>1, <1>p, <2>2 DEF Write, Free
    <2>3. CASE \E m \in Members : \E t \in Streams : Write(m, t)
      BY <1>1, <1>p, <2>1, <2>2, <2>3 DEF AtEof, Holders
    <2>4. CASE Fork
      <3>1. s \notin open[Leader] /\ \A m \in live' : s \notin open'[m]
        BY <1>1, <1>p, <2>4 DEF Fork, Free, Members
      <3> QED BY <1>p, <2>1, <2>4, <3>1 DEF Fork, AtEof, Holders
    <2>5. CASE LeaveGroup
      BY <1>1, <1>p, <2>1, <2>5 DEF LeaveGroup, AtEof, Holders
    <2>6. ASSUME NEW m \in Members, CloseStreams(m) \/ Exit(m)
          PROVE  AtEof(s)' /\ produced'[s] = produced[s] /\ pipe'[s] = pipe[s]
      <3>1. live' \subseteq live /\ \A n \in live' : open'[n] \subseteq open[n]
        BY <1>p, <2>6 DEF CloseStreams, Exit
      <3> QED BY <1>1, <1>p, <2>1, <2>6, <3>1 DEF CloseStreams, Exit, AtEof, Holders
    <2> QED BY <1>2, <2>2, <2>3, <2>4, <2>5, <2>6 DEF Scanner
  <1>3. CASE Body \/ Timeout \/ Cancel
    <2>1. ~SpawnStarts
      BY <1>p DEF SpawnStarts
    <2>2. UNCHANGED <<scanner, pipe>>
      BY <1>3, <2>1, BodyFrame
    <2>3. spawn' = spawn
      BY <1>3, <1>p, <2>1 DEF Body, SpawnFails, Gathered, ReaderFails, Timeout, Cancel
    <2> QED BY <1>p, <2>2, <2>3 DEF AtEof, Holders, scanner
  <1>4. CASE Stop \/ CleanupTimeout
    BY <1>4, StopFrame DEF AtEof, Holders
  <1>5. ASSUME NEW t \in Streams, Read(t)
        PROVE  AtEof(s)' /\ produced'[s] = produced[s] /\ pipe'[s] = pipe[s]
    <2>1. UNCHANGED <<scanner, control>>
      BY <1>5, ReadFrame
    <2>2. pipe'[s] = pipe[s]
      BY <1>p, <1>5 DEF Read, ReadChunk, WriteFails, ReadEof
    <2> QED BY <1>p, <2>1, <2>2 DEF AtEof, Holders, scanner, control
  <1>6. ASSUME NEW t \in Streams, Discard(t)
        PROVE  AtEof(s)' /\ produced'[s] = produced[s] /\ pipe'[s] = pipe[s]
    BY <1>p, <1>6 DEF Discard, AtEof, Holders, scanner, control
  <1> QED BY <1>2, <1>3, <1>4, <1>5, <1>6, FiveKinds

\* A reader at the end of its stream has saved all of it, and a scan only succeeds if both did.
LEMMA ReadersSawStep ==
  ASSUME ProcessTypeOK, Untouched, LeaderLeads, OneEnd, ReadersSaw, ProcessNext
  PROVE  ReadersSaw'
  <1>p. /\ pipe \in [Streams -> 0..PipeSize] /\ produced \in [Streams -> 0..MaxOutput]
        /\ saved \in [Streams -> 0..limit] /\ reader \in [Streams -> ReaderStates]
        /\ {PipeSize, MaxOutput, limit} \subseteq Nat
    BY LimitAssumption DEF ProcessTypeOK
  <1> DEFINE Reads(s) == reader[s] = "reading" =>
               pc \in {"gathering", "unwinding"} /\ saved[s] + pipe[s] = produced[s]
             Saw(s) == reader[s] = "eof" => saved[s] = produced[s] /\ AtEof(s)
             Succeeded == outcome = "ok" =>
               returncode = "zero" /\ \A s \in Streams : reader[s] = "eof"
  <1>a. ReadersSaw <=> (\A s \in Streams : Reads(s)) /\ (\A s \in Streams : Saw(s)) /\ Succeeded
    BY DEF ReadersSaw
  <1>b. ReadersSaw' <=> (\A s \in Streams : Reads(s)') /\ (\A s \in Streams : Saw(s)') /\ Succeeded'
    BY DEF ReadersSaw
  <1>e. ASSUME NEW s \in Streams, reader[s] = "eof", saved'[s] = saved[s] PROVE Saw(s)'
    BY <1>a, <1>e, EofStays
  <1>1. CASE Scanner
    <2>1. UNCHANGED <<limit, output, control, reader>>
      BY <1>1, ScannerFrame
    <2>2. \A s \in Streams : Saw(s)'
      BY <1>e, <2>1 DEF output
    <2>3. ASSUME NEW s \in Streams PROVE Reads(s)'
      <3>1. CASE produced'[s] = produced[s] /\ pipe'[s] = pipe[s]
        BY <1>a, <2>1, <3>1 DEF output, control
      <3>2. CASE produced'[s] = produced[s] + 1 /\ pipe'[s] = pipe[s] + 1
        <4>1. pipe[s] \in Nat /\ produced[s] \in Nat /\ saved[s] \in Nat
          BY <1>p
        <4> QED BY <1>a, <2>1, <3>2, <4>1 DEF output, control
      <3>3. UNCHANGED <<pipe, produced>> \/ \E m \in Members, t \in Streams : Write(m, t)
        BY <1>1 DEF Scanner, CloseStreams, Exit, Fork, LeaveGroup
      <3> QED BY <1>p, <3>1, <3>2, <3>3 DEF Write
    <2>4. Succeeded'
      <3>1. returncode = "zero" => returncode' = "zero"
        BY <1>1 DEF Scanner, CloseStreams, Exit, Fork, LeaveGroup, Write, LeaderLeads
      <3> QED BY <1>a, <2>1, <3>1 DEF control
    <2> QED BY <1>b, <2>2, <2>3, <2>4
  <1>2. CASE SpawnStarts
    <2>1. \A s \in Streams : /\ reader[s] = "none" /\ saved[s] = 0 /\ produced[s] = 0 /\ pipe[s] = 0
      BY <1>2 DEF SpawnStarts, Untouched
    <2>2. UNCHANGED <<pipe, output, produced, returncode, outcome>> /\ outcome # "ok"
      BY <1>2, <1>a, <2>1 DEF SpawnStarts, Streams
    <2>3. pc' = "gathering" \/ reader' = reader
      BY <1>2 DEF SpawnStarts
    <2>4. \A s \in Streams : reader'[s] \in {"none", "reading"}
      BY <1>2, <2>1 DEF SpawnStarts
    <2> QED BY <1>b, <2>1, <2>2, <2>3, <2>4 DEF output
  <1>3. CASE SpawnFails \/ Gathered \/ Timeout \/ Cancel \/ \E s \in Streams : ReaderFails(s)
    <2>1. UNCHANGED <<scanner, pipe, output>>
      BY <1>3, BodyFrame DEF SpawnFails, Gathered, Timeout, Cancel, ReaderFails, Unwind, scanner
    <2>2. reader' \in {reader, Stopped} /\ (pc' = pc \/ pc' = "unwinding")
      BY <1>3 DEF SpawnFails, Gathered, Timeout, Cancel, ReaderFails, Unwind
    <2>3. \A s \in Streams : (reader'[s] = "reading" => reader[s] = "reading")
                             /\ (reader'[s] = "eof" <=> reader[s] = "eof")
      BY <2>2, StoppedReaders DEF ReaderStates
    <2>4. \A s \in Streams : Reads(s)'
      BY <1>a, <2>1, <2>2, <2>3 DEF output, scanner
    <2>5. \A s \in Streams : Saw(s)'
      BY <1>e, <2>1, <2>3 DEF output
    <2>6. Succeeded'
      <3>1. CASE outcome' = outcome
        BY <1>a, <2>1, <2>3, <3>1 DEF scanner
      <3>2. CASE outcome' # outcome
        <4>1. outcome' = "ok" =>
                returncode = "zero" /\ reader' = reader /\ \A s \in Streams : reader[s] = "eof"
          BY <1>3, <3>2 DEF SpawnFails, Gathered, Timeout, Cancel, ReaderFails, Unwind
        <4> QED BY <2>1, <4>1 DEF scanner
      <3> QED BY <3>1, <3>2
    <2> QED BY <1>b, <2>4, <2>5, <2>6
  <1>4. CASE Stop \/ CleanupTimeout
    <2>1. /\ UNCHANGED <<returncode, produced, pipe, output, outcome>>
          /\ pc = "unwinding" \/ \A s \in Streams : reader[s] # "reading"
          /\ reader' \in {reader, Stopped} /\ (pc = "unwinding" => reader' = Stopped)
      BY <1>4, <1>a, StopFrame
    <2>2. \A s \in Streams : reader'[s] # "reading" /\ (reader'[s] = "eof" <=> reader[s] = "eof")
      BY <2>1, StoppedReaders DEF ReaderStates
    <2>3. \A s \in Streams : Saw(s)'
      BY <1>e, <2>1, <2>2 DEF output
    <2> QED BY <1>a, <1>b, <2>1, <2>2, <2>3
  <1>5. ASSUME NEW t \in Streams, Read(t) PROVE ReadersSaw'
    <2>1. UNCHANGED <<limit, scanner, control>> /\ reader[t] = "reading"
      BY <1>5, ReadFrame
    <2>2. pipe[t] \in Nat /\ saved[t] \in Nat /\ produced[t] \in Nat
      BY <1>p
    <2>3. \A s \in Streams : s # t =>
            /\ pipe'[s] = pipe[s] /\ saved'[s] = saved[s] /\ reader'[s] = reader[s]
      BY <1>p, <1>5 DEF Read, ReadChunk, WriteFails, ReadEof, output
    <2>4. outcome # "ok"
      BY <1>a, <2>1
    <2>5. Reads(t)' /\ Saw(t)'
      <3>1. CASE ReadChunk(t)
        <4>1. PICK chunk \in 1..pipe[t] :
                /\ pipe'[t] = pipe[t] - chunk /\ saved'[t] = saved[t] + Least(chunk, Available(t))
                /\ \/ Least(chunk, Available(t)) = chunk /\ reader' = reader
                   \/ reader' = [reader EXCEPT ![t] = "exceeded"]
          BY <1>p, <3>1 DEF ReadChunk
        <4>2. CASE Least(chunk, Available(t)) = chunk /\ reader' = reader
          BY <1>a, <2>1, <2>2, <4>1, <4>2 DEF scanner, control
        <4>3. CASE reader' = [reader EXCEPT ![t] = "exceeded"]
          BY <1>p, <4>3
        <4> QED BY <4>1, <4>2, <4>3
      <3>2. CASE WriteFails(t)
        BY <1>p, <3>2 DEF WriteFails
      <3>3. CASE ReadEof(t)
        <4>1. /\ reader'[t] = "eof" /\ saved' = saved /\ pipe[t] = 0 /\ AtEof(t)
          BY <1>p, <3>3 DEF ReadEof, output, AtEof
        <4>2. saved[t] = produced[t]
          BY <1>a, <2>1, <2>2, <4>1
        <4>3. AtEof(t)' /\ produced' = produced
          BY <2>1, <4>1, EofStays DEF scanner
        <4> QED BY <4>1, <4>2, <4>3
      <3> QED BY <1>5, <3>1, <3>2, <3>3 DEF Read
    <2>6. ASSUME NEW s \in Streams, s # t PROVE Reads(s)' /\ Saw(s)'
      <3>1. Reads(s)'
        BY <1>a, <2>1, <2>3, <2>6 DEF scanner, control
      <3>2. Saw(s)'
        BY <1>e, <2>3, <2>6
      <3> QED BY <3>1, <3>2
    <2>7. Succeeded'
      BY <2>1, <2>4 DEF control
    <2> QED BY <1>b, <2>5, <2>6, <2>7
  <1>6. ASSUME NEW t \in Streams, Discard(t) PROVE ReadersSaw'
    <2>1. UNCHANGED <<scanner, output, control, reader>> /\ \A s \in Streams : reader[s] # "reading"
      BY <1>6, <1>a DEF Discard, Cleaning
    <2>2. \A s \in Streams : Saw(s)'
      BY <1>e, <2>1 DEF output
    <2> QED BY <1>a, <1>b, <2>1, <2>2 DEF scanner, control
  <1> QED BY <1>1, <1>2, <1>3, <1>4, <1>5, <1>6, FiveKinds DEF Body

\* A cleanup that completes leaves no process of the group, and then no holder of a stream.
LEMMA CleanedUpStep ==
  ASSUME ProcessTypeOK, Untouched, LeaderLeads, OneEnd, CleanedUp, ProcessNext
  PROVE  CleanedUp'
  <1>p. open \in [Members -> SUBSET Streams] /\ live \subseteq Members
    BY DEF ProcessTypeOK
  <1>1. CASE Scanner
    <2>1. UNCHANGED control
      BY <1>1, ScannerFrame
    <2>2. CASE Fork
      <3>1. spawn = "started" => Running # {}
        BY <2>2 DEF Fork, Free, LeaderLeads, Running
      <3> QED BY <2>1, <3>1 DEF CleanedUp, control
    <2>3. CASE ~Fork
      <3>1. /\ live' \subseteq live /\ group' \subseteq group
            /\ \A m \in live' : open'[m] \subseteq open[m]
        BY <1>p, <1>1, <2>3 DEF Scanner, Write, LeaveGroup, CloseStreams, Exit
      <3>2. Running' \subseteq Running /\ \A s \in Streams : Holders(s)' \subseteq Holders(s)
        BY <3>1 DEF Running, Holders
      <3> QED BY <2>1, <3>2 DEF CleanedUp, control
    <2> QED BY <2>2, <2>3
  <1>2. CASE Body \/ Timeout \/ Cancel
    <2>1. CASE pc \in {"spawning", "gathering", "unwinding"}
      BY <1>2, <2>1, BodyFrame DEF CleanedUp
    <2>2. CASE pc \notin {"spawning", "gathering", "unwinding"}
      <3>1. UNCHANGED <<pc, spawn, clean>> /\ ~SpawnStarts
        BY <1>2, <2>2, BodyFrame DEF SpawnStarts
      <3> QED BY <1>2, <3>1, BodyFrame DEF CleanedUp, Running, Holders, scanner
    <2> QED BY <2>1, <2>2
  <1>3. CASE Stop \/ CleanupTimeout
    <2>1. UNCHANGED <<live, group, open, spawn>>
      BY <1>3, StopFrame
    <2>2. CASE BeginCleanup
      BY <2>2 DEF BeginCleanup, Goto, CleanedUp
    <2>3. CASE Terminate \/ Kill \/ WaitForLeader
      BY <2>3 DEF Terminate, Kill, WaitForLeader, Goto, CleanedUp
    <2>4. CASE PollGroup
      BY <2>1, <2>4 DEF PollGroup, Goto, CleanedUp, Running
    <2>5. CASE Drained
      BY <2>1, <2>5 DEF Drained, AtEof, Goto, CleanedUp, Running, Holders
    <2>6. CASE End
      BY <2>1, <2>6 DEF End, CleanedUp, Running, Holders
    <2>7. CASE CleanupTimeout
      BY <2>7 DEF CleanupTimeout, CleanedUp
    <2> QED BY <1>3, <2>2, <2>3, <2>4, <2>5, <2>6, <2>7 DEF Stop
  <1>4. ASSUME NEW s \in Streams, Read(s) \/ Discard(s) PROVE CleanedUp'
    <2>1. UNCHANGED <<scanner, control>>
      BY <1>4, ReadFrame DEF Discard
    <2> QED BY <2>1 DEF CleanedUp, Running, Holders, scanner, control
  <1> QED BY <1>1, <1>2, <1>3, <1>4, FiveKinds

\* A call that has ended is not touched by itself: only the scanner goes on.
LEMMA RunStep ==
  ASSUME CallInv, Run
  PROVE  CallInv'
  <1>1. /\ ProcessTypeOK /\ Counted /\ Untouched /\ LeaderLeads /\ OneEnd /\ ReadersSaw /\ CleanedUp
        /\ AnswerFits /\ ProcessNext /\ answer = "none" /\ UNCHANGED <<phase, directories, answer>>
    BY DEF CallInv, TypeOK, Run
  <1>2. TypeOK'
    BY <1>1, ProcessTypeStep DEF CallInv, TypeOK
  <1>3. AnswerFits'
    BY <1>1 DEF AnswerFits
  <1> QED BY <1>1, <1>2, <1>3, ProcessTypeStep, UntouchedStep, LeaderLeadsStep, OneEndStep,
             ReadersSawStep, CleanedUpStep
          DEF CallInv

-----------------------------------------------------------------------------
(* The call and its answer.                                                *)

\* A call of run_process begins with nothing done.
LEMMA ProcessBegins ==
  ASSUME ProcessInit, limit \in {OutputLimit, VersionLimit}
  PROVE  /\ ProcessTypeOK /\ Counted /\ Untouched /\ LeaderLeads /\ OneEnd /\ ReadersSaw
         /\ CleanedUp
  <1>1. {OutputLimit, VersionLimit, ErrorLimit, PipeSize, MaxOutput, MaxCancels} \subseteq Nat
    BY LimitAssumption
  <1>2. ProcessTypeOK
    <2>1. /\ produced \in [Streams -> 0..MaxOutput] /\ pipe \in [Streams -> 0..PipeSize]
          /\ saved \in [Streams -> 0..limit] /\ 0 \in 0..MaxCancels
      BY <1>1 DEF ProcessInit
    <2>2. /\ open \in [Members -> SUBSET Streams] /\ reader \in [Streams -> ReaderStates]
          /\ pc \in Pcs
      BY DEF ProcessInit, Pcs, ReaderStates
    <2> QED BY <2>1, <2>2 DEF ProcessInit, ProcessTypeOK
  <1>3. Counted
    BY <1>1 DEF ProcessInit, Counted, Streams
  <1>4. Untouched /\ LeaderLeads /\ OneEnd /\ ReadersSaw /\ CleanedUp
    BY DEF ProcessInit, Untouched, LeaderLeads, OneEnd, ReadersSaw, CleanedUp
  <1> QED BY <1>2, <1>3, <1>4

\* So does the next one.
LEMMA ProcessBeginsAgain ==
  ASSUME ProcessRestarts, limit' \in {OutputLimit, VersionLimit}
  PROVE  /\ ProcessTypeOK' /\ Counted' /\ Untouched' /\ LeaderLeads' /\ OneEnd' /\ ReadersSaw'
         /\ CleanedUp'
  <1>1. {OutputLimit, VersionLimit, ErrorLimit, PipeSize, MaxOutput, MaxCancels} \subseteq Nat
    BY LimitAssumption
  <1>2. ProcessTypeOK'
    <2>1. /\ produced' \in [Streams -> 0..MaxOutput] /\ pipe' \in [Streams -> 0..PipeSize]
          /\ saved' \in [Streams -> 0..limit'] /\ 0 \in 0..MaxCancels
      BY <1>1 DEF ProcessRestarts
    <2>2. /\ open' \in [Members -> SUBSET Streams] /\ reader' \in [Streams -> ReaderStates]
          /\ pc' \in Pcs
      BY DEF ProcessRestarts, Pcs, ReaderStates
    <2> QED BY <2>1, <2>2 DEF ProcessRestarts, ProcessTypeOK
  <1>3. Counted'
    BY <1>1 DEF ProcessRestarts, Counted, Streams
  <1>4. Untouched' /\ LeaderLeads' /\ OneEnd' /\ ReadersSaw' /\ CleanedUp'
    BY DEF ProcessRestarts, Untouched, LeaderLeads, OneEnd, ReadersSaw, CleanedUp
  <1> QED BY <1>2, <1>3, <1>4

\* The invariant does not depend on more than these variables.
LEMMA Framed ==
  ASSUME CallInv, UNCHANGED processVars
  PROVE  /\ ProcessTypeOK' /\ Counted' /\ Untouched' /\ LeaderLeads' /\ OneEnd' /\ ReadersSaw'
         /\ CleanedUp'
  <1>1. UNCHANGED <<limit, scanner, pipe, output, control, reader>>
    BY DEF processVars
  <1> QED BY <1>1
          DEF CallInv, TypeOK, ProcessTypeOK, Counted, Untouched, LeaderLeads, OneEnd, Result,
              ReadersSaw, CleanedUp, AtEof, Holders, Running, scanner, output, control

\* The step that follows a call of run_process keeps the invariant.
LEMMA FinishStep ==
  ASSUME CallInv, Finish
  PROVE  CallInv'
  <1>1. phase \in {"version", "scan"} /\ directories \in SUBSET {"version", "scan"} /\ AnswerFits
    BY DEF CallInv, TypeOK
  <1>2. ASSUME NEW what \in Answers \ {"none"}, Answer(what),
               result = "cancelled" => what = "cancelled",
               what = "report" => phase = "scan" /\ result = "ok",
               directories' \subseteq directories, phase = "scan" => directories' = directories
        PROVE  CallInv'
    <2>1. UNCHANGED <<processVars, phase>> /\ pc = "ended" /\ answer' = what
      BY <1>2 DEF Answer
    <2>2. pc' = pc /\ result' = result
      BY <2>1 DEF processVars, control
    <2>3. AnswerFits'
      BY <1>1, <1>2, <2>1, <2>2 DEF AnswerFits
    <2>4. phase' \in {"version", "scan"} /\ directories' \in SUBSET {"version", "scan"}
          /\ answer' \in Answers
      BY <1>1, <1>2, <2>1
    <2> QED BY <2>1, <2>3, <2>4, Framed DEF CallInv, TypeOK
  <1>3. CASE CallFails
    <2>1. PICK what \in {"cancelled", "error"} :
            Answer(what) /\ what = IF result = "cancelled" THEN "cancelled" ELSE "error"
      BY <1>3 DEF CallFails
    <2> QED BY <1>2, <1>3, <2>1 DEF CallFails, Answers
  <1>4. CASE VersionRefused \/ ReportRefused
    BY <1>2, <1>4 DEF VersionRefused, ReportRefused, Answers
  <1>5. CASE TemplateChanged
    BY <1>2, <1>5 DEF TemplateChanged, Answers
  <1>6. CASE ReportAccepted
    BY <1>2, <1>6 DEF ReportAccepted, Answers
  <1>7. CASE VersionAccepted
    <2>1. limit' \in {OutputLimit, VersionLimit} /\ ProcessRestarts
      BY <1>7 DEF VersionAccepted, LimitOf
    <2>2. /\ phase' = "scan" /\ directories' = {"scan"} /\ answer' = "none"
      BY <1>1, <1>7 DEF VersionAccepted
    <2>3. AnswerFits'
      BY <2>2 DEF AnswerFits
    <2>4. TypeOK'
      BY <2>1, <2>2, ProcessBeginsAgain DEF TypeOK, Answers
    <2> QED BY <2>1, <2>3, <2>4, ProcessBeginsAgain DEF CallInv
  <1> QED BY <1>3, <1>4, <1>5, <1>6, <1>7 DEF Finish

-----------------------------------------------------------------------------
(* The theorems.                                                           *)

\* CallInv is inductive.
LEMMA CallInvHolds == Spec => []CallInv
  <1>1. Init => CallInv
    <2> SUFFICES ASSUME Init PROVE CallInv
      OBVIOUS
    <2>1. limit \in {OutputLimit, VersionLimit} /\ ProcessInit
      BY DEF Init, LimitOf
    <2>2. /\ phase \in {"version", "scan"} /\ directories \in SUBSET {"version", "scan"}
          /\ answer \in Answers /\ AnswerFits
      BY DEF Init, Answers, AnswerFits
    <2> QED BY <2>1, <2>2, ProcessBegins DEF CallInv, TypeOK
  <1>2. CallInv /\ [Next]_vars => CallInv'
    <2> SUFFICES ASSUME CallInv, [Next]_vars PROVE CallInv'
      OBVIOUS
    <2>1. CASE UNCHANGED vars
      <3>1. UNCHANGED <<phase, directories, answer>> /\ UNCHANGED processVars
        BY <2>1 DEF vars
      <3>2. UNCHANGED <<pc, result>>
        BY <3>1 DEF processVars, control
      <3>3. AnswerFits' /\ phase' \in {"version", "scan"} /\ answer' \in Answers
            /\ directories' \in SUBSET {"version", "scan"}
        BY <3>1, <3>2 DEF CallInv, AnswerFits, TypeOK
      <3> QED BY <3>1, <3>3, Framed DEF CallInv, TypeOK
    <2> QED BY <2>1, RunStep, FinishStep DEF Next
  <1> QED BY <1>1, <1>2, PTL DEF Spec

\* The variables of a scan keep their kinds; in particular a file never outgrows its limit.
THEOREM CallTypeCorrect == Spec => []TypeOK
  <1>1. CallInv => TypeOK
    BY DEF CallInv
  <1> QED BY <1>1, CallInvHolds, PTL

\* Two readers and two limits: the files stay within both, for every limit and interleaving.
THEOREM OutputStaysWithinLimits == Spec => []WithinLimits
  <1>1. CallInv => WithinLimits
    <2> SUFFICES ASSUME CallInv, \A s \in Streams : reader[s] # "could_not_write"
                 PROVE  saved["stdout"] + saved["stderr"] <= limit /\ saved["stderr"] <= ErrorLimit
      BY DEF WithinLimits
    <2>1. used \in Nat /\ stderr_used \in Nat /\ limit \in Nat
      BY LimitAssumption DEF CallInv, TypeOK, ProcessTypeOK
    <2>2. saved["stdout"] \in Nat
      BY <2>1 DEF CallInv, TypeOK, ProcessTypeOK, Streams
    <2> QED BY <2>1, <2>2 DEF CallInv, Counted, Streams
  <1> QED BY <1>1, CallInvHolds, PTL

\* A report is only made of whole streams and an exit status of zero.
THEOREM ReportsAreWhole == Spec => []ReportIsWhole
  <1>1. CallInv => ReportIsWhole
    <2> SUFFICES ASSUME CallInv, answer = "report"
                 PROVE  /\ returncode = "zero" /\ directories = {"scan"}
                        /\ \A s \in Streams : saved[s] = produced[s] /\ AtEof(s)
      BY DEF ReportIsWhole
    <2>1. phase = "scan" /\ directories = {"scan"} /\ pc = "ended" /\ result = "ok"
      BY DEF CallInv, AnswerFits
    <2>2. outcome = "ok"
      BY <2>1 DEF CallInv, OneEnd, Result
    <2> QED BY <2>1, <2>2 DEF CallInv, ReadersSaw
  <1> QED BY <1>1, CallInvHolds, PTL

\* A call that does not complain of its cleanup leaves nobody who could still write.
THEOREM NothingIsLeftBehind == Spec => []NothingLeftBehind
  <1>1. CallInv => NothingLeftBehind
    <2> SUFFICES ASSUME CallInv, pc = "ended", result # "unclean", spawn = "started"
                 PROVE  live \cap group = {} /\ \A s \in Streams : Holders(s) = {}
      BY DEF NothingLeftBehind
    <2>1. clean
      BY DEF CallInv, TypeOK, ProcessTypeOK, OneEnd, Result
    <2> QED BY <2>1 DEF CallInv, CleanedUp, Running
  <1> QED BY <1>1, CallInvHolds, PTL

\* Cancellations are never lost, however many there are.
THEOREM CancellationsAreHeard == Spec => []CancellationHeard
  <1>1. CallInv => CancellationHeard
    <2> SUFFICES ASSUME CallInv, answer # "none", cancels > 0, result # "unclean"
                 PROVE  answer = "cancelled"
      BY DEF CancellationHeard
    <2>1. pc = "ended" /\ (result = "cancelled" => answer = "cancelled")
      BY DEF CallInv, AnswerFits
    <2>2. result = Result /\ (cancelled \/ outcome = "cancelled")
      BY <2>1 DEF CallInv, OneEnd
    <2>3. result = "cancelled"
      BY <2>2 DEF Result
    <2> QED BY <2>1, <2>3
  <1> QED BY <1>1, CallInvHolds, PTL
=============================================================================
