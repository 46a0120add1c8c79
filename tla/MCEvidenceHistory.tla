-------------------------- MODULE MCEvidenceHistory --------------------------
(* Scenes for EvidenceHistory, which TLC explores side by side.            *)
EXTENDS EvidenceHistory

CONSTANTS a1, a2

Plain == [head |-> 1, sound |-> TRUE, status |-> 200, framing |-> "length", promised |-> 1,
          parts |-> <<{}>>, hsts |-> TRUE, challenge |-> FALSE, identity |-> TRUE]
Listing == [Plain EXCEPT !.promised = 2, !.parts = <<{"title"}, {"href"}>>, !.hsts = FALSE]
Config == [Plain EXCEPT !.promised = 2, !.parts = <<{"core"}, {"version"}>>]
Missing == [Plain EXCEPT !.status = 404]

\* Responses for the root: whole, cut short, ambiguous, refused or not about the resource.
Roots ==
  {Plain, Listing,
   [Listing EXCEPT !.framing = "none"],
   [Listing EXCEPT !.framing = "refused"],
   [Listing EXCEPT !.promised = 3],
   [Listing EXCEPT !.promised = 1],
   [Listing EXCEPT !.sound = FALSE],
   [Listing EXCEPT !.head = 3],
   [Listing EXCEPT !.identity = FALSE],
   [Listing EXCEPT !.promised = 5, !.parts = <<{"title"}, {"href"}, {}, {}, {"notice"}>>],
   [Listing EXCEPT !.framing = "chunked", !.parts = <<{"title"}, {"href"}, {"end"}>>],
   [Listing EXCEPT !.framing = "chunked", !.parts = <<{"title"}, {"broken"}, {"end"}>>],
   [Listing EXCEPT !.framing = "chunked", !.parts = <<{"title", "href"}, {"end"}, {}>>],
   [Plain EXCEPT !.framing = "chunked", !.parts = <<{}, {}, {}, {}, {"end"}>>],
   [Plain EXCEPT !.status = 301], [Plain EXCEPT !.status = 401, !.challenge = TRUE],
   [Plain EXCEPT !.status = 204, !.framing = "none", !.parts = <<>>],
   [Plain EXCEPT !.status = 204, !.framing = "none"],
   [Plain EXCEPT !.status = 100, !.framing = "none", !.parts = <<>>],
   [Plain EXCEPT !.status = 500], [Plain EXCEPT !.parts = <<{"notice"}>>],
   [Plain EXCEPT !.head = 2, !.challenge = TRUE], Missing}

Configs ==
  {Config, Missing,
   [Config EXCEPT !.framing = "none"], [Config EXCEPT !.status = 403],
   [Config EXCEPT !.promised = 5, !.parts = <<{"core"}, {"version"}, {}, {}, {}>>]}

Pages(root, config) ==
  [a \in Addresses |-> [r \in Resources |-> IF r = "/" THEN root ELSE config]]

Hostname == [https |-> TRUE, hostname |-> TRUE]

Nobody == [o \in Operations |-> 0]
Foreign == {[scanner |-> "nuclei", records |-> {},
             matches |-> {[template |-> "listing", resource |-> "/", reviewed |-> FALSE],
                          [template |-> "other", resource |-> "/", reviewed |-> FALSE]}],
            [scanner |-> "nuclei", records |-> {},
             matches |-> {[template |-> "git-config", resource |-> "/.git/config",
                           reviewed |-> TRUE]}],
            [scanner |-> "httpx", matches |-> {},
             records |-> {[peer |-> a1, target |-> a1, probed |-> TRUE, status |-> 200,
                           hsts |-> TRUE, blocked |-> FALSE, challenged |-> FALSE,
                           redirects |-> FALSE]}]}

Scene(sites, operations) ==
  [origin |-> Hostname, sites |-> sites, operations |-> operations, targets |-> {a1},
   scanners |-> {"nuclei", "httpx"}, foreign |-> {}]

One(r, c) == {Pages(r, c)}

\* The condition of every rule, and a site without any.
Whole(wire) == [wire EXCEPT !.promised = 1, !.parts = <<MarksOf(wire.parts)>>]
Both == {Pages(Whole(Listing), Whole(Config)), Pages(Plain, Missing)}

\* A third site does not show its root and shows the same configuration in other bytes.
Guarded == Pages([Plain EXCEPT !.status = 401, !.challenge = TRUE],
                 [Whole(Config) EXCEPT !.hsts = FALSE])

\* One recheck of every response, with whatever goes wrong on the way.
WireScenes ==
  LET operations == [Nobody EXCEPT !["rechecks"] = 1, !["faults"] = 1, !["ticks"] = 6]
  IN {Scene(UNION {One(r, Missing) : r \in Roots} \cup UNION {One(Plain, c) : c \in Configs},
            operations)}
     \cup {[Scene(Both, operations) EXCEPT !.origin = o]
           : o \in [https : BOOLEAN, hostname : BOOLEAN]}

\* Two rechecks while the site changes.
RecheckScene ==
  Scene(Both \cup {Guarded},
        [Nobody EXCEPT !["rechecks"] = 2, !["changes"] = 1, !["damages"] = 1,
                       !["ticks"] = 3, !["waits"] = 1])

\* A recheck beside a scan of either kind that is imported again.
ScanScene ==
  Scene(Both \cup {Guarded},
        [Nobody EXCEPT !["rechecks"] = 1, !["scans"] = 1, !["imports"] = 1,
                       !["changes"] = 1, !["ticks"] = 1, !["waits"] = 1])

\* Scans of two addresses, one of them imported again, while the site changes.
CopyScene ==
  [Scene(Both, [Nobody EXCEPT !["scans"] = 2, !["imports"] = 1, !["changes"] = 1, !["waits"] = 1])
     EXCEPT !.targets = {a1, a2}]

\* A scan, imports of it and of reports from elsewhere, and a damaged file.
ForeignScene ==
  [Scene(Both, [Nobody EXCEPT !["scans"] = 1, !["imports"] = 2, !["damages"] = 1,
                              !["waits"] = 1])
     EXCEPT !.targets = {a1, a2}, !.foreign = Foreign]

MCScenes == WireScenes \cup {RecheckScene, ScanScene, CopyScene, ForeignScene}
=============================================================================
