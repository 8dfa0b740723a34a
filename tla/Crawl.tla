-------------------------------- MODULE Crawl --------------------------------
(***************************************************************************)
(* One crawl: CrawlSource::discover, the state machine inside the stream   *)
(* body, with the retry loop of fetch_one and the per-host robots.txt      *)
(* cache.                                                                  *)
(*                                                                         *)
(* The stream body is single threaded.  It alternates between a fill loop, *)
(* which launches fetches while slots and budget are free, and awaiting    *)
(* the next completed fetch, in whatever order fetches complete.  Fetches  *)
(* make progress only while the body awaits, so every action about a       *)
(* fetch is guarded by ~CanFill.                                           *)
(*                                                                         *)
(* A page stands for a canonical URL key.  What the web answers (`site')   *)
(* and how the crawl is configured (`config') are chosen from Crawls in    *)
(* the initial state and never change.  `launches' and `yielded' are       *)
(* history: the code keeps neither, the properties need them.              *)
(***************************************************************************)
EXTENDS Naturals, Sequences, FiniteSets, SequencesExt

CONSTANTS
  Pages,   \* canonical URL keys
  Root,    \* the URL the crawl starts from
  Hosts,   \* scheme://authority keys of the robots.txt cache
  Crawls   \* the sites and configurations a behaviour may start with

\* links: the hrefs in a page's body (resolved, without fragment, http(s));
\* final: where a request for a page ends after redirects, and so a page that
\* does not redirect; host: the robots key; disallowed: what the host's
\* robots.txt forbids.
Site == [ links      : [Pages -> SUBSET Pages],
          final      : {f \in [Pages -> Pages] : \A p \in Pages : f[f[p]] = f[p]},
          host       : [Pages -> Hosts],
          disallowed : SUBSET Pages ]

\* scope: what CrawlScope::allows for this root; followable: neither an asset
\* nor refused by require_path_contains; indexed: passes accept_extensions and
\* index_path_contains; validators and known_edges: the conditional re-crawl.
CrawlConfig ==
  [ max_depth      : Nat,
    max_pages      : Nat,
    concurrency    : Nat \ {0},
    max_retries    : Nat,
    respect_robots : BOOLEAN,
    scope          : SUBSET Pages,
    followable     : SUBSET Pages,
    indexed        : SUBSET Pages,
    validators     : SUBSET Pages,
    known_edges    : [Pages -> SUBSET Pages] ]

ASSUME CrawlAssumption ==
  /\ IsFiniteSet(Pages)
  /\ Root \in Pages
  /\ \A crawl \in Crawls : crawl.site \in Site /\ crawl.config \in CrawlConfig

VARIABLES
  site, config, \* the web and the configuration, constant in a behaviour
  status,       \* "crawling", "done" (stream ended) or "failed" (it yielded Err)
  visited,      \* keys never to be enqueued again
  frontier,     \* FIFO of [url, depth] still to launch
  in_flight,    \* the FuturesUnordered: [url, depth, attempt]
  successes,    \* bodies received: what counts against the budget
  failed,       \* child pages given up on
  revalidated,  \* requests answered 304, in order
  robots,       \* per host: "unfetched", "rules" or "allow_all"
  launches,     \* history: fetches launched per requested page
  yielded       \* history: pages handed to the consumer, per effective page

given   == <<site, config>>
records == <<successes, failed, revalidated>>
history == <<launches, yielded>>
vars == <<given, status, visited, frontier, in_flight, records, robots, history>>

Entry  == [url : Pages, depth : 0..config.max_depth]
Flight == [url : Pages, depth : 0..config.max_depth,
           attempt : 0..config.max_retries]

Init ==
  /\ \E crawl \in Crawls : site = crawl.site /\ config = crawl.config
  /\ status = "crawling"
  /\ visited = {Root}
  /\ frontier = <<[url |-> Root, depth |-> 0]>>
  /\ in_flight = {}
  /\ successes = 0
  /\ failed = 0
  /\ revalidated = <<>>
  /\ robots = [h \in Hosts |-> "unfetched"]
  /\ launches = [p \in Pages |-> 0]
  /\ yielded = [p \in Pages |-> 0]

-----------------------------------------------------------------------------
(***************************************************************************)
(* The fill loop.                                                          *)
(***************************************************************************)

\* Mutant: the budget test forgets the fetches in flight.
BudgetLeft_IgnoresInFlight == successes < config.max_pages

BudgetLeft == successes + Cardinality(in_flight) < config.max_pages

CanFill ==
  /\ status = "crawling"
  /\ Cardinality(in_flight) < config.concurrency
  /\ BudgetLeft
  /\ frontier # <<>>

\* RobotsCache::check: the policy is fetched before the first verdict on a
\* host.  Any failure to fetch or parse it means "allow everything".
FetchRobots ==
  /\ CanFill
  /\ config.respect_robots
  /\ LET h == site.host[Head(frontier).url]
     IN /\ robots[h] = "unfetched"
        /\ \E policy \in {"rules", "allow_all"} :
             robots' = [robots EXCEPT ![h] = policy]
  /\ UNCHANGED <<given, status, visited, frontier, in_flight, records, history>>

\* Mutant: launch without waiting for the host's policy.
VerdictKnown_Assumed(p) == TRUE

VerdictKnown(p) == config.respect_robots => robots[site.host[p]] # "unfetched"

Disallowed(p) ==
  /\ config.respect_robots
  /\ robots[site.host[p]] = "rules"
  /\ p \in site.disallowed

Launch ==
  /\ CanFill
  /\ LET entry == Head(frontier)
     IN /\ VerdictKnown(entry.url)
        /\ ~Disallowed(entry.url)
        /\ in_flight' = in_flight \cup
             {[url |-> entry.url, depth |-> entry.depth, attempt |-> 0]}
        /\ launches' = [launches EXCEPT ![entry.url] = @ + 1]
  /\ frontier' = Tail(frontier)
  /\ UNCHANGED <<given, status, visited, records, robots, yielded>>

SkipDisallowed ==
  /\ CanFill
  /\ Disallowed(Head(frontier).url)
  /\ Head(frontier).depth > 0
  /\ frontier' = Tail(frontier)
  /\ UNCHANGED <<given, status, visited, in_flight, records, robots, history>>

RootDisallowed ==
  /\ CanFill
  /\ Disallowed(Head(frontier).url)
  /\ Head(frontier).depth = 0
  /\ status' = "failed"
  /\ frontier' = Tail(frontier)
  /\ UNCHANGED <<given, visited, in_flight, records, robots, history>>

-----------------------------------------------------------------------------
(***************************************************************************)
(* A fetch completes, or retries.                                          *)
(***************************************************************************)

Awaiting == status = "crawling" /\ ~CanFill

\* Mutant: links are followed one level short of max_depth.
Follows_Short(f) == f.depth + 1 < config.max_depth

Follows(f) == f.depth < config.max_depth

\* Mutant: the children keep their parent's depth.
ChildDepth_Same(f) == f.depth

ChildDepth(f) == f.depth + 1

Queue(entries) == frontier \o entries

\* Mutant: a key is remembered when it is fetched, not when it is queued.
Remember_Late(seen, fresh) == seen

Remember(seen, fresh) == seen \cup fresh

\* Queue the children of f that pass the link filters and were not seen.  The
\* order of the hrefs in the page is left open.
Expand(f, children, seen) ==
  LET fresh == IF Follows(f)
                 THEN (children \cap config.scope \cap config.followable) \ seen
                 ELSE {}
  IN /\ visited' = Remember(seen, fresh)
     /\ \E order \in SetToSeqs(fresh) :
          frontier' = Queue([i \in DOMAIN order |->
                               [url |-> order[i], depth |-> ChildDepth(f)]])

\* Mutant: the retry budget is not compared.
RetriesLeft_Always(f) == TRUE

RetriesLeft(f) == f.attempt < config.max_retries

\* fetch_one: a retriable error below the retry budget is tried again after a
\* backoff.
Retry(f) ==
  /\ Awaiting
  /\ RetriesLeft(f)
  /\ in_flight' = (in_flight \ {f}) \cup {[f EXCEPT !.attempt = f.attempt + 1]}
  /\ UNCHANGED <<given, status, visited, frontier, records, robots, history>>

\* A 304, possible only for a request that carried an entity tag: no body; the
\* known children stand in for the links that could not be parsed.
Revalidated(f) ==
  /\ Awaiting
  /\ f.url \in config.validators
  /\ in_flight' = in_flight \ {f}
  /\ revalidated' = Append(revalidated, f.url)
  /\ Expand(f, config.known_edges[f.url], visited \cup {f.url})
  /\ UNCHANGED <<given, status, successes, failed, robots, history>>

\* Mutant: a failed child is skipped without being counted.
CountFailure_Silent == failed

CountFailure == failed + 1

\* A child that failed for good is counted and skipped; its budget is free
\* again.
ChildFailed(f) ==
  /\ Awaiting
  /\ f.depth > 0
  /\ in_flight' = in_flight \ {f}
  /\ failed' = CountFailure
  /\ UNCHANGED <<given, status, visited, frontier, successes, revalidated,
                 robots, history>>

\* The root must succeed: the stream ends in an error, dropping what is left.
RootFailed(f) ==
  /\ Awaiting
  /\ f.depth = 0
  /\ in_flight' = {}
  /\ status' = "failed"
  /\ UNCHANGED <<given, visited, frontier, records, robots, history>>

\* Mutant: the scope is not checked again after a redirect.
StaysInScope_Assumed(f) == TRUE

StaysInScope(f) == f.depth > 0 => site.final[f.url] \in config.scope

\* A body arrived, but a redirect took the child out of scope.
Escaped(f) ==
  /\ Awaiting
  /\ ~StaysInScope(f)
  /\ in_flight' = in_flight \ {f}
  /\ successes' = successes + 1
  /\ UNCHANGED <<given, status, visited, frontier, failed, revalidated, robots,
                 history>>

\* A body arrived: follow its links against the effective URL, then yield the
\* page unless an index filter refuses it.
Accepted(f) ==
  LET effective == site.final[f.url]
  IN /\ Awaiting
     /\ StaysInScope(f)
     /\ in_flight' = in_flight \ {f}
     /\ successes' = successes + 1
     /\ Expand(f, site.links[effective], visited \cup {effective})
     /\ yielded' = IF effective \in config.indexed
                     THEN [yielded EXCEPT ![effective] = @ + 1]
                     ELSE yielded
     /\ UNCHANGED <<given, status, failed, revalidated, robots, launches>>

\* Mutant: the loop goes round again while the frontier holds entries the
\* budget no longer covers.
Finish_WhenDrained ==
  /\ Awaiting
  /\ in_flight = {}
  /\ frontier = <<>>
  /\ status' = "done"
  /\ UNCHANGED <<given, visited, frontier, in_flight, records, robots, history>>

\* The frontier is drained (or the budget spent) and nothing is in flight.
Finish ==
  /\ Awaiting
  /\ in_flight = {}
  /\ status' = "done"
  /\ UNCHANGED <<given, visited, frontier, in_flight, records, robots, history>>

Fill == FetchRobots \/ Launch \/ SkipDisallowed \/ RootDisallowed

Complete(f) ==
  \/ Retry(f)
  \/ Revalidated(f)
  \/ ChildFailed(f)
  \/ RootFailed(f)
  \/ Escaped(f)
  \/ Accepted(f)

Next == Fill \/ (\E f \in in_flight : Complete(f)) \/ Finish

Spec == Init /\ [][Next]_vars

\* The consumer keeps polling the stream and every request ends in an answer,
\* an error or a timeout, so some step is always taken while one is possible.
FairSpec == Spec /\ WF_vars(Next)

-----------------------------------------------------------------------------
(***************************************************************************)
(* Properties.                                                             *)
(***************************************************************************)

\* The shape of every variable: what the locals of the stream body can hold.
TypeOK ==
  /\ site \in Site
  /\ config \in CrawlConfig
  /\ status \in {"crawling", "done", "failed"}
  /\ visited \subseteq Pages
  /\ frontier \in Seq(Entry)
  /\ in_flight \subseteq Flight
  /\ IsFiniteSet(in_flight)
  /\ successes \in Nat
  /\ failed \in Nat
  /\ revalidated \in Seq(Pages)
  /\ robots \in [Hosts -> {"unfetched", "rules", "allow_all"}]
  /\ launches \in [Pages -> Nat]
  /\ yielded \in [Pages -> Nat]

\* However completions interleave with the fill loop, bodies received plus
\* fetches in flight never exceed max_pages, nor fetches in flight the
\* concurrency: the budget test sees every outstanding fetch.
BudgetHeld ==
  /\ Cardinality(in_flight) <= config.concurrency
  /\ successes + Cardinality(in_flight) <= config.max_pages

\* No fetch is launched twice for a URL in one crawl, whatever the order in which pages
\* that link to it, or answer 304 for it, complete: the visited set is taken
\* at enqueue time.
RequestedOnce == \A p \in Pages : launches[p] <= 1

\* No fetch is launched but for the root and pages that pass the link filters,
\* and nothing is yielded that lies out of scope unless the root itself was
\* redirected there: the client follows a child's redirect wherever it leads,
\* and the page it ends at is dropped with its links when that is out of scope.
NoEscape ==
  /\ \A p \in Pages :
       launches[p] > 0 => p = Root \/ p \in config.scope \cap config.followable
  /\ \A p \in Pages :
       yielded[p] > 0 => p = site.final[Root] \/ p \in config.scope

\* With robots.txt honoured, no fetch is launched for a page its host's rules
\* forbid, since the verdict is taken first and never changes; where such a page
\* is yielded nevertheless, a fetch that was allowed was redirected to it.
RobotsHonoured ==
  \A p \in Pages :
    Disallowed(p) =>
      /\ launches[p] = 0
      /\ yielded[p] > 0 =>
           \E q \in Pages : launches[q] > 0 /\ ~Disallowed(q) /\ site.final[q] = p

\* What `Fetch and honor robots.txt per host' promises: a page the rules forbid
\* is not crawled at all.  It does not hold: the verdict is on the URL that was
\* queued, and unlike the scope it is not taken again on the one a redirect
\* ends at.
ForbiddenNotYielded ==
  \A p \in Pages : Disallowed(p) => yielded[p] = 0

\* Every launched fetch is accounted for exactly once: still in flight,
\* counted as a success or a failure, or recorded as revalidated, so the
\* caller's report covers each check.
Accounting ==
  status # "failed" =>
    Cardinality({p \in Pages : launches[p] > 0}) =
      successes + failed + Len(revalidated) + Cardinality(in_flight)

\* Distance from the root along links the crawl would follow: those of the
\* body a page is served with, and the known edges of a page answered 304.
Served(p) == p = Root \/ site.final[p] \in config.scope

Hops(p) ==
  LET body  == IF Served(p) THEN site.links[site.final[p]] ELSE {}
      known == IF p \in Range(revalidated) THEN config.known_edges[p] ELSE {}
  IN (body \cup known) \cap config.scope \cap config.followable

Within[n \in Nat] ==
  IF n = 0 THEN {Root}
           ELSE Within[n - 1] \cup UNION {Hops(p) : p \in Within[n - 1]}

\* A page is queued only with a depth at which it can really be reached, so
\* nothing farther than max_depth hops is requested.
WithinReach ==
  /\ \A i \in DOMAIN frontier : frontier[i].url \in Within[frontier[i].depth]
  /\ \A f \in in_flight : f.url \in Within[f.depth]

\* What a crawl that nothing cut short has yielded: the indexed pages within
\* max_depth hops.
CutShort ==
  \/ status # "done"
  \/ failed > 0
  \/ revalidated # <<>>
  \/ frontier # <<>>
  \/ \E p \in Pages : Disallowed(p)

YieldsAllWithinReach ==
  {p \in Pages : yielded[p] > 0} =
    {site.final[p] : p \in {q \in Within[config.max_depth] : Served(q)}}
      \cap config.indexed

\* With one fetch at a time the crawl is a breadth-first search, and with a
\* depth of at most two every depth is a shortest one: then the pages yielded
\* depend on nothing but the links.
SameSetWhenShallow ==
  (~CutShort /\ (config.concurrency = 1 \/ config.max_depth <= 2)) =>
    YieldsAllWithinReach

\* What a crawl can still do: launch a page, send it once more, ask the host of
\* a page for its policy.
ToLaunch == (Pages \ visited) \cup {frontier[i].url : i \in DOMAIN frontier}
ToSend ==
  {s \in Pages \X (0..config.max_retries) :
     \/ s[1] \in ToLaunch
     \/ \E f \in in_flight : f.url = s[1] /\ f.attempt <= s[2]}
ToAsk == {p \in Pages : robots[site.host[p]] = "unfetched"}

\* No step brings back work that was done, and each but the last does some: no
\* cycle of links, redirects or retries keeps a crawl going, and it takes no
\* more steps than there are pages, hosts and attempts.
WorkShrinks ==
  [][/\ status = "crawling"
     /\ ToLaunch' \subseteq ToLaunch /\ ToSend' \subseteq ToSend /\ ToAsk' \subseteq ToAsk
     /\ status' = "crawling" =>
          <<ToLaunch, ToSend, ToAsk>>' # <<ToLaunch, ToSend, ToAsk>>]_vars

\* The crawl ends: every queued page is requested or dropped and every
\* fetch completes, whatever fails.
Terminates == <>(status # "crawling")

=============================================================================
