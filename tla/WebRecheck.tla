------------------------------ MODULE WebRecheck ------------------------------
(***************************************************************************)
(* recheck_web (assessment/recheck.py): one request for each resource of   *)
(* the rules to one approved address, both within one deadline, and the    *)
(* report made of what came back.                                          *)
(*                                                                         *)
(* The clock only passes a timer that is due once the step that waits for  *)
(* it was taken: an event loop that is not starved.  The server is the     *)
(* environment; a connection may be refused, stall, break or be closed at  *)
(* any moment.                                                             *)
(***************************************************************************)
EXTENDS RecheckRules

CONSTANTS
  Addresses,        \* approved addresses of the origin
  ScanTimeout,      \* scan_timeout_seconds
  RequestTimeout,   \* request_timeout_seconds
  Delay,            \* 1 / requests_per_second
  CloseTimeout,     \* what closing a connection may take, 3 seconds
  MaxRead           \* bound: parts one read returns

ASSUME TimeAssumption ==
  {ScanTimeout, RequestTimeout, CloseTimeout, MaxRead} \subseteq Nat \ {0}
ASSUME DelayAssumption == Delay \in Nat
ASSUME AddressAssumption == Nothing \notin Addresses

VARIABLES
  now,        \* the clock
  origin,     \* whether the origin is https, and has a host name
  site,       \* what each address would answer to a request for a resource
  served,     \* history: requests an address began to answer
  pc,         \* where the recheck is
  address,    \* the address it was asked to use
  index,      \* the request under way
  deadline,   \* of the whole recheck
  until,      \* the timer of the step under way
  fetch,      \* the acquisition under way
  exchanges,  \* finished acquisitions
  reports     \* reports of rechecks, in the order they ended

network == <<origin, site>>
recheckVars == <<pc, address, index, deadline, until, fetch, exchanges, reports>>

Min2(a, b) == IF a <= b THEN a ELSE b

ResourceAt == <<"/", "/.git/config">>
RecheckPcs == {"idle", "ask", "pause", "sleep", "connect", "read", "close", "record", "report",
               "abort"}
Waiting == {"sleep", "connect", "read", "close", "abort"}
Statuses == {"complete", "timeout", "transport_error", "malformed", "truncated", "not_run"}

NoFetch == [started |-> 0, wire |-> Nothing, got |-> 0, status |-> "transport_error"]

RecheckInit ==
  /\ now = 0 /\ served = {}
  /\ pc = "idle" /\ address = Nothing /\ index = 1
  /\ deadline = 0 /\ until = 0 /\ fetch = NoFetch /\ exchanges = <<>> /\ reports = <<>>

Tick ==
  /\ pc \in Waiting /\ now < until
  /\ now' = now + 1
  /\ UNCHANGED <<network, served, recheckVars>>

BeginRecheck(a) ==
  /\ pc = "idle"
  /\ pc' = "ask" /\ address' = a /\ index' = 1
  /\ deadline' = now + ScanTimeout /\ exchanges' = <<>>
  /\ UNCHANGED <<now, network, served, until, fetch, reports>>

\* _not_run: the acquisition has no end and no evidence.
NotRun ==
  [resource |-> ResourceAt[index], address |-> address, started |-> now, finished |-> Nothing,
   status |-> "not_run", evidence |-> Nothing, response |-> Nothing]

Skip ==
  /\ exchanges' = Append(exchanges, NotRun)
  /\ index' = index + 1
  /\ pc' = IF index = 1 THEN "pause" ELSE "report"
  /\ UNCHANGED <<until, fetch>>

Unchanging == UNCHANGED <<now, network, served, address, deadline, reports>>

\* The second request is delayed, or not made when the delay would pass the deadline.
Pause ==
  /\ pc = "pause"
  /\ IF now + Delay >= deadline THEN Skip
     ELSE /\ pc' = "sleep" /\ until' = now + Delay
          /\ UNCHANGED <<index, fetch, exchanges>>
  /\ Unchanging

Wake ==
  /\ pc = "sleep" /\ now >= until
  /\ pc' = "ask"
  /\ UNCHANGED <<index, until, fetch, exchanges>> /\ Unchanging

\* Mutant of Ask: a request may take its whole timeout, whatever remains.
AskUnbounded ==
  /\ pc = "ask"
  /\ pc' = "connect" /\ until' = now + RequestTimeout
  /\ fetch' = [NoFetch EXCEPT !.started = now]
  /\ UNCHANGED <<index, exchanges>>
  /\ Unchanging

\* A request has what remains of the deadline, and no more than its own timeout.
Ask ==
  /\ pc = "ask"
  /\ IF deadline <= now THEN Skip
     ELSE /\ pc' = "connect" /\ until' = now + Min2(RequestTimeout, deadline - now)
          /\ fetch' = [NoFetch EXCEPT !.started = now]
          /\ UNCHANGED <<index, exchanges>>
  /\ Unchanging

Connect ==
  /\ pc = "connect"
  /\ LET wire == site[address][ResourceAt[index]] IN
     /\ fetch' = [fetch EXCEPT !.wire = wire]
     /\ served' = served \cup {[at |-> now, address |-> address,
                                resource |-> ResourceAt[index], wire |-> wire]}
  /\ pc' = "read"
  /\ UNCHANGED <<now, network, address, deadline, reports, index, until, exchanges>>

\* The acquisition ends; without a connection there is nothing to close.
EndFetch(status, got) ==
  /\ fetch' = [fetch EXCEPT !.status = status, !.got = got]
  /\ IF pc = "read" THEN pc' = "close" /\ until' = now + CloseTimeout
                    ELSE pc' = "record" /\ UNCHANGED until
  /\ UNCHANGED <<index, exchanges>> /\ Unchanging

TransportError ==
  /\ pc \in {"connect", "read"} /\ EndFetch("transport_error", fetch.got)

TimesOut ==
  /\ pc \in {"connect", "read"} /\ now >= until /\ EndFetch("timeout", fetch.got)

Sent == fetch.wire.head + Len(fetch.wire.parts)

\* Mutant of Receive: the read that exceeds the limit is kept whole.
ReceiveBeyond ==
  /\ pc = "read"
  /\ \E n \in 1..Min2(MaxRead, Sent - fetch.got) :
       LET available == ResponseLimit - fetch.got
           state == Parse(fetch.wire, fetch.got + n, FALSE)
       IN
       IF n > available THEN EndFetch("truncated", fetch.got + n)
       ELSE IF state # "incomplete" THEN EndFetch(state, fetch.got + n)
       ELSE /\ fetch' = [fetch EXCEPT !.got = @ + n]
            /\ UNCHANGED <<pc, index, until, exchanges>> /\ Unchanging

\* One read: what exceeds the limit is dropped, otherwise the parser has its say.
Receive ==
  /\ pc = "read"
  /\ \E n \in 1..Min2(MaxRead, Sent - fetch.got) :
       LET available == ResponseLimit - fetch.got
           state == Parse(fetch.wire, fetch.got + n, FALSE)
       IN
       IF n > available THEN EndFetch("truncated", ResponseLimit)
       ELSE IF state # "incomplete" THEN EndFetch(state, fetch.got + n)
       ELSE /\ fetch' = [fetch EXCEPT !.got = @ + n]
            /\ UNCHANGED <<pc, index, until, exchanges>> /\ Unchanging

\* The server closes, at the end of its response or before.
EndOfStream ==
  /\ pc = "read"
  /\ EndFetch(IF Parse(fetch.wire, fetch.got, TRUE) = "complete" THEN "complete" ELSE "malformed",
              fetch.got)

\* wait_closed returns, fails or is given up after CloseTimeout; a cancellation then goes on.
Close ==
  /\ \/ pc = "close" /\ pc' = "record"
     \/ pc = "abort" /\ pc' = "idle"
  /\ UNCHANGED <<index, until, fetch, exchanges>> /\ Unchanging

\* The bytes are kept as evidence, their digest stands for what was received of the response.
Acquisition ==
  [resource |-> ResourceAt[index], address |-> address,
   started |-> fetch.started, finished |-> now, status |-> fetch.status,
   evidence |-> IF fetch.got > 0 THEN [of |-> fetch.wire, size |-> fetch.got] ELSE Nothing,
   response |-> ResponseOf(fetch.wire, fetch.got, fetch.status)]

Record ==
  /\ pc = "record"
  /\ exchanges' = Append(exchanges, Acquisition)
  /\ index' = index + 1 /\ fetch' = NoFetch
  /\ pc' = IF index = 1 THEN "pause" ELSE "report"
  /\ UNCHANGED until /\ Unchanging

Assessments ==
  {AssessExposure(DIRECTORY_RULE, exchanges[1]), AssessExposure(GIT_CONFIG_RULE, exchanges[2]),
   AssessHsts(origin, exchanges[1])}

Report ==
  /\ pc = "report"
  /\ reports' = Append(reports, [acquisitions |-> exchanges, assessments |-> Assessments])
  /\ pc' = "idle" /\ exchanges' = <<>>
  /\ UNCHANGED <<now, network, served, address, index, deadline, until, fetch>>

\* The task is cancelled: bytes read so far are written but nobody reports them.  An open
\* connection is closed before the cancellation goes on, unless this wait is cancelled too.
CancelRecheck ==
  /\ pc \in Waiting
  /\ IF pc = "read" THEN pc' = "abort" /\ until' = now + CloseTimeout
                    ELSE pc' = "idle" /\ UNCHANGED until
  /\ exchanges' = <<>> /\ fetch' = NoFetch
  /\ UNCHANGED <<now, network, served, address, index, deadline, reports>>

RecheckStep ==
  \/ Pause \/ Wake \/ Ask \/ Connect \/ TimesOut \/ Receive \/ Close \/ Record \/ Report

\* What goes wrong outside the recheck.
RecheckFault == TransportError \/ EndOfStream \/ CancelRecheck
=============================================================================
