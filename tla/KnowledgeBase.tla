---------------------------- MODULE KnowledgeBase ----------------------------
(***************************************************************************)
(* A graph and a link index as one knowledge base.  A writer holds the     *)
(* graph's lease, crawls with the validators the graph remembers, folds    *)
(* the outcomes into the graph, and publishes both halves, each on its own *)
(* object.  Replicas only read and are left out.                           *)
(*                                                                         *)
(* The graph store and its mirror are external: a publish goes through for *)
(* the holder of the lease.  The links half is what module Remote models   *)
(* in full; here a publish is one conditional swap of HEAD.  An index is   *)
(* the content of each page, as module LinkIndex keeps it: a tag names the *)
(* content it came with.  A page becomes due at any time.                  *)
(***************************************************************************)
EXTENDS Naturals, FiniteSets

CONSTANTS
  Writers,
  Pages,
  Contents,
  None,
  MaxEdits,      \* bound on the edits of the site
  MaxPublished,  \* bound on the versions of each half
  MaxFaults      \* bound on failures, drops and crashes

Halves == {"graph", "links"}

ASSUME KnowledgeBaseAssumption ==
  /\ None \notin Contents \cup Writers
  /\ MaxEdits \in Nat /\ MaxPublished \in Nat /\ MaxFaults \in Nat

\* A document of the graph; a tombstone is not live.
Node == [content : Contents, live : BOOLEAN]
MaybeNode == Node \cup {None}
MaybeContent == Contents \cup {None}

\* A HEAD that names an image of the index.
Heads == [version : 1..MaxPublished, docs : [Pages -> MaybeContent]]

ASSUME RecordAssumption == None \notin Node \cup Heads

VARIABLES
  site,      \* what each page serves now
  edits,
  holder,    \* who took the lease last, None once released
  expired,   \* its time is over
  graphAt,   \* the published graph: [version, nodes], version 0 for none
  linksAt,   \* HEAD of the published index: [version, docs]
  pc,        \* what a process does
  awaited,   \* the halves its open, publish or refresh still awaits
  graph,     \* a writer's graph
  links,     \* a writer's index
  seen,      \* the HEAD its Remote remembers, or None
  todo,      \* pages its crawl or refresh has no answer for yet
  pages,     \* outcomes so far, as <<page, change>>
  faults,
  agreed     \* history: the writer opened halves that agree, and no
             \* operation ended between the index and the graph since

store == <<graphAt, linksAt>>
lease == <<holder, expired>>
base == <<graph, links, agreed>>
call == <<pc, awaited, todo, pages>>
world == <<site, edits>>
vars == <<world, lease, store, call, base, seen, faults>>

Live(g, p) == g[p] # None /\ g[p].live

\* The two halves hold the same pages with the same content.
Agree(g, l) ==
  \A p \in Pages : l[p] = IF Live(g, p) THEN g[p].content ELSE None

Unpublished == [version |-> 0, nodes |-> [p \in Pages |-> None]]
NoHead == [version |-> 0, docs |-> [p \in Pages |-> None]]

Init ==
  /\ site \in [Pages -> Contents]
  /\ edits = 0
  /\ holder = None /\ expired = FALSE
  /\ graphAt = Unpublished
  /\ linksAt = NoHead
  /\ pc = [x \in Writers |-> "down"]
  /\ awaited = [x \in Writers |-> {}]
  /\ graph = [w \in Writers |-> Unpublished.nodes]
  /\ links = [w \in Writers |-> NoHead.docs]
  /\ seen = [w \in Writers |-> None]
  /\ todo = [w \in Writers |-> {}]
  /\ pages = [w \in Writers |-> {}]
  /\ faults = 0
  /\ agreed = [w \in Writers |-> FALSE]

\* x awaits both halves at once (try_join).
Join(x, call_of) ==
  /\ pc' = [pc EXCEPT ![x] = call_of]
  /\ awaited' = [awaited EXCEPT ![x] = Halves]

\* One of them is done; the call returns with the last.
Joined(x, half) ==
  /\ half \in awaited[x]
  /\ awaited' = [awaited EXCEPT ![x] = @ \ {half}]
  /\ pc' = [pc EXCEPT ![x] = IF awaited[x] = {half} THEN "idle" ELSE @]

\* The call is over, whatever it still awaits.
Ended(x, next) ==
  /\ pc' = [pc EXCEPT ![x] = next]
  /\ awaited' = [awaited EXCEPT ![x] = {}]

\* The writer is dropped with its directory and its memory.
Dropped(w) ==
  /\ Ended(w, "down")
  /\ graph' = [graph EXCEPT ![w] = Unpublished.nodes]
  /\ links' = [links EXCEPT ![w] = NoHead.docs]
  /\ agreed' = [agreed EXCEPT ![w] = FALSE]
  /\ seen' = [seen EXCEPT ![w] = None]
  /\ todo' = [todo EXCEPT ![w] = {}]
  /\ pages' = [pages EXCEPT ![w] = {}]

-----------------------------------------------------------------------------
(***************************************************************************)
(* KnowledgeBase::writer and release.                                      *)
(***************************************************************************)

Free(w) == holder \in {None, w} \/ expired

Acquire(w) ==
  /\ pc[w] = "down"
  /\ Free(w)
  /\ holder' = w
  /\ expired' = FALSE
  /\ Join(w, "open")
  /\ UNCHANGED <<world, store, base, seen, todo, pages, faults>>

PullGraph(w) ==
  /\ pc[w] = "open"
  /\ Joined(w, "graph")
  /\ graph' = [graph EXCEPT ![w] = graphAt.nodes]
  /\ agreed' = [agreed EXCEPT ![w] = Agree(graphAt.nodes, links[w])]
  /\ UNCHANGED <<world, lease, store, links, seen, todo, pages, faults>>

Published == IF linksAt.version = 0 THEN None ELSE linksAt

LoadLinks(w) ==
  /\ pc[w] = "open"
  /\ Joined(w, "links")
  /\ links' = [links EXCEPT ![w] = linksAt.docs]
  /\ seen' = [seen EXCEPT ![w] = Published]
  /\ agreed' = [agreed EXCEPT ![w] = Agree(graph[w], linksAt.docs)]
  /\ UNCHANGED <<world, lease, store, graph, todo, pages, faults>>

\* The lease is given up and the writer dropped.
Release(w) ==
  /\ pc[w] = "idle"
  /\ holder = w
  /\ holder' = None
  /\ expired' = FALSE
  /\ Dropped(w)
  /\ UNCHANGED <<world, store, faults>>

Expire ==
  /\ holder # None
  /\ ~expired
  /\ expired' = TRUE
  /\ UNCHANGED <<world, holder, store, call, base, seen, faults>>

-----------------------------------------------------------------------------
(***************************************************************************)
(* sync, sync_crawl, refresh_due.                                          *)
(***************************************************************************)

\* Mutant: the seed offers the validators of tombstones too.
Remembers_Gone(g, p) == g[p] # None

Remembers(g, p) == Live(g, p)

\* The tag a request for p is conditional on: crawl_seed takes it from the
\* graph, a refresh from the index.
Validator(w, p) ==
  IF pc[w] = "sync"
    THEN IF Remembers(graph[w], p) THEN graph[w][p].content ELSE None
  ELSE links[w][p]

\* A source reaches some pages.
StartSync(w) ==
  /\ pc[w] = "idle"
  /\ pc' = [pc EXCEPT ![w] = "sync"]
  /\ \E reached \in SUBSET Pages \ {{}} : todo' = [todo EXCEPT ![w] = reached]
  /\ UNCHANGED <<world, lease, store, awaited, pages, base, seen, faults>>

\* Some live pages are due; the index refreshes those of them it holds.
StartRefresh(w) ==
  /\ pc[w] = "idle"
  /\ pc' = [pc EXCEPT ![w] = "refresh"]
  /\ \E due \in SUBSET {p \in Pages : Live(graph[w], p)} \ {{}} :
       todo' = [todo EXCEPT ![w] = {p \in due : links[w][p] # None}]
  /\ UNCHANGED <<world, lease, store, awaited, pages, base, seen, faults>>

Outcome(w, p, change) == pages' = [pages EXCEPT ![w] = @ \cup {<<p, change>>}]

\* A 304: nothing reaches the index.
NotModified(w, p) ==
  /\ Validator(w, p) = site[p]
  /\ Outcome(w, p, "unchanged")
  /\ UNCHANGED links

\* A body, tag or no tag (a site may send none and heed none), upserted into
\* the index: the same content leaves it alone.
Body(w, p) ==
  /\ links' = [links EXCEPT ![w][p] = site[p]]
  /\ Outcome(w, p, IF links[w][p] = site[p] THEN "unchanged" ELSE "stored")

\* Nothing to keep of it.
NoAnswer == UNCHANGED <<pages, links>>

\* A refresh that is denied access evicts the page.
Denied(w, p) ==
  /\ links' = [links EXCEPT ![w][p] = None]
  /\ Outcome(w, p, "removed")

Answer(w, p) ==
  /\ p \in todo[w]
  /\ todo' = [todo EXCEPT ![w] = @ \ {p}]
  /\ \/ NotModified(w, p)
     \/ Body(w, p)
     \/ pc[w] = "refresh" /\ Denied(w, p)
     \/ NoAnswer
  /\ UNCHANGED <<world, lease, store, pc, awaited, graph, agreed, seen, faults>>

\* Mutant: an evicted page leaves no tombstone.
Tombstone_Live(n) == n

Tombstone(n) == [n EXCEPT !.live = FALSE]

\* ingest_pages: pages stored are upserted from the index, pages removed become
\* tombstones.  An unchanged page is touched: its content stays.
Ingested(g, l, report) ==
  [p \in Pages |->
    IF <<p, "stored">> \in report THEN [content |-> l[p], live |-> TRUE]
    ELSE IF <<p, "removed">> \in report /\ g[p] # None THEN Tombstone(g[p])
    ELSE g[p]]

\* The report is folded into the graph, and a publish follows.
Absorb(w) ==
  /\ pc[w] \in {"sync", "refresh"}
  /\ todo[w] = {}
  /\ graph' = [graph EXCEPT ![w] = Ingested(@, links[w], pages[w])]
  /\ pages' = [pages EXCEPT ![w] = {}]
  /\ Join(w, "publish")
  /\ UNCHANGED <<world, lease, store, links, agreed, seen, todo, faults>>

-----------------------------------------------------------------------------
(***************************************************************************)
(* publish.                                                                *)
(***************************************************************************)

StartPublish(w) ==
  /\ pc[w] = "idle"
  /\ Join(w, "publish")
  /\ UNCHANGED <<world, lease, store, base, seen, todo, pages, faults>>

\* Mutant: the graph is published without its lease.
MayShip_Anyone(w) == TRUE

MayShip(w) == holder = w

Newer(w) ==
  IF graphAt.nodes = graph[w] THEN graphAt
  ELSE [version |-> graphAt.version + 1, nodes |-> graph[w]]

ShipGraph(w) ==
  /\ pc[w] = "publish"
  /\ MayShip(w)
  /\ Newer(w).version <= MaxPublished
  /\ Joined(w, "graph")
  /\ graphAt' = Newer(w)
  /\ expired' = FALSE
  /\ UNCHANGED <<world, holder, linksAt, base, seen, todo, pages, faults>>

\* The HEAD a publish works from: remembered, or read now.
Previous(w) == IF seen[w] # None THEN seen[w] ELSE linksAt

\* Mutant: an index once published is not uploaded again.
Uploads_Once(w) == Previous(w).version = 0

\* An image HEAD already names is not uploaded.
Uploads(w) == Previous(w).version = 0 \/ Previous(w).docs # links[w]

CanSwap(w) == Previous(w).version = linksAt.version

NextHead(w) == [version |-> linksAt.version + 1, docs |-> links[w]]

ShipLinks(w) ==
  /\ pc[w] = "publish"
  /\ Joined(w, "links")
  /\ \/ /\ Uploads(w)
        /\ CanSwap(w)
        /\ NextHead(w).version <= MaxPublished
        /\ linksAt' = NextHead(w)
        /\ seen' = [seen EXCEPT ![w] = NextHead(w)]
     \/ /\ ~Uploads(w)
        /\ seen' = [seen EXCEPT ![w] = Previous(w)]
        /\ UNCHANGED linksAt
  /\ UNCHANGED <<world, lease, graphAt, base, todo, pages, faults>>

\* What requests still in flight may have done although nobody hears of it.
InFlight(w) ==
  /\ \/ UNCHANGED graphAt
     \/ /\ "graph" \in awaited[w] /\ MayShip(w)
        /\ Newer(w).version <= MaxPublished
        /\ graphAt' = Newer(w)
  /\ \/ UNCHANGED linksAt
     \/ /\ "links" \in awaited[w] /\ Uploads(w) /\ CanSwap(w)
        /\ NextHead(w).version <= MaxPublished
        /\ linksAt' = NextHead(w)

\* The lease is another's: the graph half fails, the links half is dropped.
GraphFenced(w) ==
  /\ pc[w] = "publish"
  /\ "graph" \in awaited[w]
  /\ ~MayShip(w)
  /\ InFlight(w)
  /\ Ended(w, "idle")
  /\ UNCHANGED <<world, lease, base, seen, todo, pages, faults>>

\* HEAD moved: the links half fails and forgets it, the graph half is dropped.
LinksFenced(w) ==
  /\ pc[w] = "publish"
  /\ "links" \in awaited[w]
  /\ Uploads(w) /\ ~CanSwap(w)
  /\ InFlight(w)
  /\ seen' = [seen EXCEPT ![w] = None]
  /\ Ended(w, "idle")
  /\ UNCHANGED <<world, lease, base, todo, pages, faults>>

-----------------------------------------------------------------------------
(***************************************************************************)
(* What goes wrong.                                                        *)
(***************************************************************************)

Fault == faults < MaxFaults /\ faults' = faults + 1

\* A request of a publish fails or its response is lost, or the future is
\* dropped: only a links half that failed itself forgets HEAD.
PublishFails(w) ==
  /\ Fault
  /\ pc[w] = "publish"
  /\ InFlight(w)
  /\ \/ UNCHANGED seen
     \/ "links" \in awaited[w] /\ seen' = [seen EXCEPT ![w] = None]
  /\ Ended(w, "idle")
  /\ UNCHANGED <<world, lease, base, todo, pages>>

\* A crawl or refresh ends early: a failed root, embedder or graph store, or
\* its future is dropped.  The index keeps what it had so far.
Abort(w) ==
  /\ Fault
  /\ pc[w] \in {"sync", "refresh"}
  /\ Ended(w, "idle")
  /\ todo' = [todo EXCEPT ![w] = {}]
  /\ pages' = [pages EXCEPT ![w] = {}]
  /\ agreed' = [agreed EXCEPT ![w] =
                  @ /\ Ingested(graph[w], links[w], pages[w]) = graph[w]]
  /\ UNCHANGED <<world, lease, store, graph, links, seen>>

\* A writer that ends, or cannot open: its directory and memory are gone, its
\* lease runs on.
Crash(w) ==
  /\ Fault
  /\ pc[w] # "down"
  /\ IF pc[w] = "publish" THEN InFlight(w) ELSE UNCHANGED store
  /\ Dropped(w)
  /\ UNCHANGED <<world, lease>>

Edit ==
  /\ edits < MaxEdits
  /\ edits' = edits + 1
  /\ \E p \in Pages, c \in Contents :
       site[p] # c /\ site' = [site EXCEPT ![p] = c]
  /\ UNCHANGED <<lease, store, call, base, seen, faults>>

-----------------------------------------------------------------------------

Write(w) ==
  \/ Acquire(w) \/ PullGraph(w) \/ LoadLinks(w) \/ Release(w)
  \/ StartSync(w) \/ StartRefresh(w)
  \/ (\E p \in Pages : Answer(w, p)) \/ Absorb(w)
  \/ StartPublish(w) \/ ShipGraph(w) \/ ShipLinks(w)
  \/ GraphFenced(w) \/ LinksFenced(w)
  \/ PublishFails(w) \/ Abort(w) \/ Crash(w)

Next ==
  \/ \E w \in Writers : Write(w)
  \/ Expire
  \/ Edit

Spec == Init /\ [][Next]_vars

-----------------------------------------------------------------------------
(***************************************************************************)
(* Properties.                                                             *)
(***************************************************************************)

\* The shape of the store and of every writer.
TypeOK ==
  /\ site \in [Pages -> Contents]
  /\ edits \in 0..MaxEdits
  /\ holder \in Writers \cup {None}
  /\ expired \in BOOLEAN
  /\ graphAt \in [version : 0..MaxPublished, nodes : [Pages -> MaybeNode]]
  /\ linksAt \in [version : 0..MaxPublished, docs : [Pages -> MaybeContent]]
  /\ pc \in [Writers -> {"down", "open", "idle", "sync", "refresh", "publish"}]
  /\ awaited \in [Writers -> SUBSET Halves]
  /\ graph \in [Writers -> [Pages -> MaybeNode]]
  /\ links \in [Writers -> [Pages -> MaybeContent]]
  /\ seen \in [Writers -> {None} \cup Heads]
  /\ todo \in [Writers -> SUBSET Pages]
  /\ pages \in [Writers -> SUBSET (Pages \X {"unchanged", "stored", "removed"})]
  /\ faults \in 0..MaxFaults
  /\ agreed \in [Writers -> BOOLEAN]

\* Both halves of a writer hold the same pages with the same content between
\* calls, so a validator of the graph asks about what the index holds: through
\* syncs, refreshes and evictions, unless the writer opened a torn pair or an
\* operation ended between the index and the graph.
HalvesAgree ==
  \A w \in Writers :
    agreed[w] /\ pc[w] \in {"idle", "publish"} => Agree(graph[w], links[w])

\* A publish that returns to the holder of the lease left in the bucket what
\* the writer holds, both halves at once, whatever earlier publishes shipped or
\* failed at: unless HEAD is not the one it remembers, which a publish dropped
\* with its swap in flight leaves behind.
PublishCompletes ==
  [][\A w \in Writers :
       /\ pc[w] = "publish" /\ pc'[w] = "idle"
       /\ ShipGraph(w) \/ ShipLinks(w)
       /\ holder = w
       /\ seen'[w] = linksAt'
       => graphAt'.nodes = graph[w] /\ linksAt'.docs = links[w]]_vars

\* The published graph is history: through evictions, crashes and takeovers no
\* page it ever named is lost from it.
NothingForgotten ==
  [][\A p \in Pages : graphAt.nodes[p] # None => graphAt'.nodes[p] # None]_vars

\* What the reports say: a page counted as unchanged is an existing link seen
\* again.
UnchangedIsHeld ==
  \A w \in Writers, p \in Pages :
    <<p, "unchanged">> \in pages[w] => links[w][p] # None

\* While the halves of a writer agree it is so: a 304 to a validator of the
\* graph confirms a page the index holds, and a page that was evicted is
\* fetched in full when it comes back.
UnchangedIsHeldWhenAgreed ==
  \A w \in Writers, p \in Pages :
    agreed[w] /\ <<p, "unchanged">> \in pages[w] => links[w][p] # None

=============================================================================
