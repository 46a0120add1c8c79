--------------------------- MODULE EvidenceHistory ---------------------------
(***************************************************************************)
(* Rechecks, scanner runs, imports and comparisons of the claims about one *)
(* origin, whose addresses change what they answer while ScopeLens looks   *)
(* at them.  WebRecheck is the recheck; a managed scan may run beside it   *)
(* (another process); files may be damaged at any time; any two selections *)
(* may be compared in any order (reporting/service.py,                     *)
(* storage/correlation.py).                                                *)
(*                                                                         *)
(* A scene fixes the origin, the sites its addresses may show and how many *)
(* operations of each kind a behavior has: it stands for an analyst who    *)
(* has just that to do.                                                    *)
(***************************************************************************)
EXTENDS WebRecheck, Comparison, FiniteSets

CONSTANTS
  Scenes    \* bound: see Operations

ASSUME SceneAssumption ==
  \A s \in Scenes : /\ s.targets \subseteq Addresses
                    /\ s.sites \subseteq [Addresses -> [Resources -> Responses]]
                    \* a rule made for a template has a prefix no reviewed rule has
                    /\ \A f \in s.foreign : \A m \in f.matches : m.template \notin Rules

VARIABLES
  scene,      \* the scene, which never changes
  left,       \* operations that are left, by kind
  runs,       \* succeeded runs
  scanning,   \* the managed scan under way
  damaged     \* files that were removed or altered from outside

vars == <<now, network, served, recheckVars, scene, left, runs, scanning, damaged>>
evidence == <<scene, runs, scanning, damaged>>

Operations == {"rechecks", "scans", "imports", "changes", "damages", "faults", "ticks",
               "waits"}

\* A scene says how often each may happen.
ASSUME OperationsAssumption == \A s \in Scenes : s.operations \in [Operations -> Nat]

Spend(operation) ==
  left[operation] > 0 /\ left' = [left EXCEPT ![operation] = @ - 1]

Init ==
  /\ scene \in Scenes /\ left = scene.operations
  /\ origin = scene.origin /\ site \in scene.sites
  /\ RecheckInit
  /\ runs = {} /\ scanning = Nothing /\ damaged = {}

Recheck == RecheckStep /\ UNCHANGED <<left, evidence>>
Fail == Spend("faults") /\ RecheckFault /\ UNCHANGED evidence
Pass == Spend("ticks") /\ Tick /\ UNCHANGED evidence

StartRecheck ==
  /\ Spend("rechecks") /\ \E a \in scene.targets : BeginRecheck(a)
  /\ UNCHANGED evidence

Wait ==
  /\ pc = "idle" /\ Spend("waits") /\ now' = now + 1
  /\ UNCHANGED <<network, served, recheckVars, evidence>>

\* An address shows something else from now on.
ChangeSite ==
  /\ Spend("changes")
  /\ \E a \in scene.targets, s \in scene.sites : site' = [site EXCEPT ![a] = s[a]]
  /\ UNCHANGED <<now, origin, served, recheckVars, evidence>>

-----------------------------------------------------------------------------
(* Scanner runs.                                                           *)

\* A managed scan has one approved address, to which it is pinned.
BeginScan ==
  /\ scanning = Nothing /\ Spend("scans")
  /\ \E a \in scene.targets, scanner \in scene.scanners :
       scanning' = [scanner |-> scanner, address |-> a, created |-> now,
                    pages |-> Nothing]
  /\ UNCHANGED <<now, network, served, recheckVars, scene, runs, damaged>>

\* The marks of the body a response announces: up to its length or its last chunk.
Announced(wire) ==
  LET ends == {i \in DOMAIN wire.parts : "end" \in wire.parts[i]}
      size == CASE wire.framing = "length" -> wire.promised
                [] wire.framing = "chunked" /\ ends # {} -> SmallestOf(ends)
                [] OTHER -> Len(wire.parts)
  IN MarksOf(SubSeq(wire.parts, 1, Min2(size, Len(wire.parts))))

\* Whether the reviewed condition of a rule holds of a response as the server means it.
Shows(rule, wire) ==
  IF rule = HSTS_RULE THEN ~wire.hsts
  ELSE wire.status = 200 /\ MarkersOf(rule) \subseteq Announced(wire)

TemplateOf(rule) == IF rule = DIRECTORY_RULE THEN "listing" ELSE "git-config"

\* nuclei reports some of the matches there are.
MatchesOfSite(pages) ==
  SUBSET {[template |-> TemplateOf(rule), resource |-> ResourceOf(rule), reviewed |-> TRUE]
          : rule \in {r \in Rules \ {HSTS_RULE} : Shows(r, pages[ResourceOf(r)])}}

\* httpx reports its probe of the root, and the peer when there was one.  Of blocking it sees
\* a title and one kind of challenge.
RecordsOfSite(pages, a) ==
  LET wire == pages["/"]
      probe == [peer |-> a, target |-> a, probed |-> TRUE, status |-> wire.status,
                hsts |-> wire.hsts, blocked |-> FALSE, challenged |-> FALSE,
                redirects |-> wire.status \in 300..399]
      failure == [probe EXCEPT !.peer = Nothing, !.probed = FALSE, !.status = 0,
                               !.hsts = FALSE, !.redirects = FALSE]
  IN {{failure}} \cup
     {{[probe EXCEPT !.blocked = blocked, !.challenged = challenged]}
      : blocked \in {FALSE, "notice" \in MarksOf(wire.parts)},
        challenged \in {FALSE, wire.challenge}}

NewRun(kind, scanner, addresses, created, digest, matches, records) ==
  [id |-> Cardinality(runs) + 1, kind |-> kind, scanner |-> scanner, addresses |-> addresses,
   created |-> created, finished |-> now, digest |-> digest, matches |-> matches,
   records |-> records]

\* The scanner makes its requests at some moment of its scan.
Probe ==
  /\ scanning # Nothing /\ scanning.pages = Nothing
  /\ LET pages == site[scanning.address] IN
     /\ scanning' = [scanning EXCEPT !.pages = pages]
     /\ served' = served \cup {[at |-> now, address |-> scanning.address, resource |-> resource,
                                wire |-> pages[resource]] : resource \in Resources}
  /\ UNCHANGED <<now, network, recheckVars, scene, left, runs, damaged>>

\* The run succeeds.  The output of nuclei without a match is empty, and all such outputs
\* are alike.
EndScan ==
  /\ scanning # Nothing /\ scanning.pages # Nothing
  /\ \E matches \in IF scanning.scanner = "nuclei" THEN MatchesOfSite(scanning.pages) ELSE {{}} :
       \E records \in IF scanning.scanner = "httpx"
                       THEN RecordsOfSite(scanning.pages, scanning.address) ELSE {{}} :
         runs' = runs \cup
           {NewRun("scan", scanning.scanner, {scanning.address}, scanning.created,
                   [output |-> IF matches \cup records = {} THEN 0 ELSE Cardinality(runs) + 1],
                   matches, records)}
  /\ scanning' = Nothing
  /\ UNCHANGED <<now, network, served, recheckVars, scene, left, damaged>>

\* A report is imported: the output of an earlier scan, for its address or for all that are
\* approved, or one that came from elsewhere.
Import ==
  /\ Spend("imports")
  /\ \/ \E r \in runs : \E addresses \in {r.addresses, Addresses} :
          runs' = runs \cup {NewRun("import", r.scanner, addresses, now, r.digest,
                                    r.matches, r.records)}
     \/ \E f \in scene.foreign :
          runs' = runs \cup {NewRun("import", f.scanner, Addresses, now, [foreign |-> f],
                                    f.matches, f.records)}
  /\ UNCHANGED <<now, network, served, recheckVars, scene, scanning, damaged>>

\* A file is named by its report and acquisition, or by its run.
FilesOfReport(k) == {<<"recheck", k, i>> : i \in DOMAIN reports[k].acquisitions}
Files == UNION {FilesOfReport(k) : k \in DOMAIN reports} \cup {<<"run", r.id>> : r \in runs}

DamageFile ==
  /\ Spend("damages")
  /\ \E f \in Files \ damaged : damaged' = damaged \cup {f}
  /\ UNCHANGED <<now, network, served, recheckVars, scene, runs, scanning>>

Next ==
  \/ Recheck \/ Fail \/ Pass \/ StartRecheck \/ Wait \/ ChangeSite
  \/ BeginScan \/ Probe \/ EndScan \/ Import \/ DamageFile

Spec == Init /\ [][Next]_vars

-----------------------------------------------------------------------------
(* Comparisons.                                                            *)

\* A side's files are verified when it is loaded: later damage is not known to it.
HealthOf(f, known) == IF f \in known THEN "corrupt" ELSE "ready"

RecheckSide(k, known) ==
  FreshSide(reports[k],
            [i \in DOMAIN reports[k].acquisitions |-> HealthOf(<<"recheck", k, i>>, known)])

\* Any runs may be selected once they succeeded.
Selections == SUBSET runs \ {{}}

StoredSide(selection, known) ==
  CaptureSide(selection,
              [id \in {r.id : r \in selection} |-> HealthOf(<<"run", id>>, known)])

\* Damage only grows and the sides are loaded one after the other, so that each may know of
\* less than there is now.
Sides ==
  UNION {{RecheckSide(k, known) : k \in DOMAIN reports}
           \cup {StoredSide(s, known) : s \in Selections} : known \in SUBSET damaged}

-----------------------------------------------------------------------------
\* Variables keep their kinds: a fetch stays within the limit of the response.
TypeOK ==
  /\ now \in Nat /\ pc \in RecheckPcs /\ index \in 1..3
  /\ scene \in Scenes /\ left \in [Operations -> Nat]
  /\ fetch.got \in 0..ResponseLimit /\ fetch.status \in Statuses
  /\ \A e \in served : e.at \in 0..now /\ e.address \in Addresses
  /\ \A i \in DOMAIN exchanges : exchanges[i].resource = ResourceAt[i]
  /\ \A r \in runs : r.created <= r.finished /\ r.finished <= now
  /\ damaged \subseteq Files

\* A response that is no refusal: it speaks for the resource itself.
Speaks(rule, wire) ==
  /\ wire.status \in IF rule = HSTS_RULE THEN {200} ELSE {200, 404, 410}
  /\ ~wire.challenge /\ (rule # HSTS_RULE => "notice" \notin Announced(wire))

\* Whatever was cut off, merged, delayed, malformed or closed early: a conclusion a recheck
\* supports is the one the whole response of the server to that request supports, and the
\* server gave it in the time the acquisition names.
ConclusionsAreTrue ==
  \A k \in DOMAIN reports : \A a \in reports[k].assessments :
    a.outcome # "inconclusive" =>
      \E i \in DOMAIN reports[k].acquisitions : \E e \in served :
        LET acquisition == reports[k].acquisitions[i] IN
        /\ acquisition.resource = a.resource /\ e.resource = a.resource
        /\ acquisition.address = e.address
        /\ acquisition.started <= e.at /\ e.at <= acquisition.finished
        /\ Speaks(a.rule, e.wire)
        /\ a.outcome = "supported_positive" <=> Shows(a.rule, e.wire)

\* A recheck ends within its deadline and the time to close one connection, and begins no
\* request when the deadline has come.
RecheckBounded ==
  /\ pc # "idle" => now <= deadline + CloseTimeout
  /\ pc \in {"connect", "read"} => fetch.started < deadline

\* "resolved" is said of an address only when that address really showed the condition while
\* the baseline was acquired and, after that, really answered without it while the current
\* evidence was; and stored scanner reports alone never say it.
ResolvedIsReal ==
  pc = "idle" /\ scanning = Nothing =>
    LET views == {[basis |-> s.basis, entries |-> Entries(origin, s)] : s \in Sides} IN
    \A b, c \in views : \A r \in Compare(b.entries, c.entries) :
      r.is.state = "resolved" =>
        /\ "fresh_recheck" \in {b.basis, c.basis}
        /\ \E e, f \in {s \in served : s.address = r.key.address
                                        /\ s.resource = r.key.resource} :
             /\ e.at < f.at
             /\ r.baseline.window.from <= e.at /\ e.at <= r.baseline.window.to
             /\ r.current.window.from <= f.at /\ f.at <= r.current.window.to
             /\ Shows(r.key.rule, e.wire)
             /\ ~Shows(r.key.rule, f.wire)
             /\ c.basis = "fresh_recheck" => Speaks(r.key.rule, f.wire)

\* The files of a side, and the digests none of its readable files has.
Copies(side) ==
  IF side.basis = "fresh_recheck"
    THEN {[digest |-> side.report.acquisitions[i].evidence, health |-> side.health[i]]
          : i \in DOMAIN side.report.acquisitions}
    ELSE {[digest |-> r.digest, health |-> side.health[r.id]] : r \in side.runs}
Lost(side) ==
  {d \in {c.digest : c \in Copies(side)} :
     \A c \in Copies(side) : c.digest = d => c.health # "ready"}

\* What a side says, and what it would say if none of its files were damaged.
View(side, whole) ==
  [lost |-> Lost(side), entries |-> Entries(origin, side), whole |-> Entries(origin, whole)]

Views ==
  UNION {{View(RecheckSide(k, known), RecheckSide(k, {})) : k \in DOMAIN reports}
           \cup {View(StoredSide(s, known), StoredSide(s, {})) : s \in Selections}
         : known \in SUBSET damaged}

\* Damage withdraws conclusions and makes none: whatever is said but "unknown" rests on bytes
\* that were readable when their side was loaded, and is what the same selections would say
\* if nothing was damaged.
DamageWithdraws ==
  pc = "idle" /\ scanning = Nothing /\ damaged # {} =>
    LET views == Views IN
    \A b, c \in views : \A r \in Compare(b.entries, c.entries) :
      r.is.state # "unknown" =>
        /\ r.baseline # NoEntry => r.baseline.digests \cap b.lost = {}
        /\ r.current # NoEntry => r.current.digests \cap c.lost = {}
        /\ r.is = StateOf(EntryAt(b.whole, r.key), EntryAt(c.whole, r.key), r.key.address)
=============================================================================
